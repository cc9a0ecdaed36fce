-------------------------------- MODULE Vmm --------------------------------
(***************************************************************************)
(* The page tables of src/vmm.c, four levels deep, built from frames of    *)
(* the physical memory manager as src/kernel_memory.c connects them, with  *)
(* the processor's TLB.  A page is named by its four table indices, which  *)
(* aligned canonical addresses determine; flags do not steer the walk and  *)
(* are left out, except that no entry made here is huge.                   *)
(***************************************************************************)
EXTENDS Pmm

CONSTANTS Index,   \* positions in a table
          Pages,   \* the pages that are mapped and unmapped
          MaxLent, \* bound: frames other callers hold at a time
          Strays,  \* bound: frames that callers free without having got them
          Absent   \* an entry, a root or a translation that is not there

Level == 1..4  \* pml4, pdpt, pd, pt
Entry == Frame \cup {Absent}

ASSUME VmmAssumption == /\ Pages \subseteq [Level -> Index]
                        /\ MaxLent \in Nat
                        /\ Strays \subseteq Frame
                        /\ Absent \notin Frame

VARIABLES root,   \* space->root_paddr
          mem,    \* what each frame holds, read as a table
          walk,   \* the call in progress
          tlb,    \* what the processor remembers of each page
          lent,   \* ghost: frames other callers got from the allocator
          space   \* ghost: what each page was last mapped to

frames == <<used, free_frames, used_frames, next_hint, initialized, owned, reserved>>
allvars == <<used, free_frames, used_frames, next_hint, initialized, owned, reserved,
             root, mem, walk, tlb, lent, space>>

Idle == [op |-> "none"]
Empty == [i \in Index |-> Absent]
Dirty == [i \in Index |-> 0]  \* a frame nobody has cleared

VmmInit == /\ Init
           /\ root = Absent
           /\ mem = [f \in Frame |-> Dirty]
           /\ walk = Idle
           /\ tlb = [v \in Pages |-> Absent]
           /\ lent = {}
           /\ space = [v \in Pages |-> Absent]

-----------------------------------------------------------------------------
(* Tables as the processor and vmm_query_page walk them. *)

Follow(f, i) == IF f = Absent THEN Absent ELSE mem[f][i]
Translate(v) == Follow(Follow(Follow(Follow(root, v[1]), v[2]), v[3]), v[4])

Below(tables) == {mem[f][i] : f \in tables, i \in Index} \ {Absent}

(* The tables of each level; the entries of the last one map pages. *)
TablesAt[k \in Level] == IF k = 1 THEN {root} \ {Absent} ELSE Below(TablesAt[k - 1])
Tables == UNION {TablesAt[k] : k \in Level}

-----------------------------------------------------------------------------
(* Other users of the allocator, between calls.  They free the frames they *)
(* were given, once no page maps them, and frames that nobody was given,   *)
(* reserved ones too; they do not free page tables or each other's frames. *)
Lend == /\ walk = Idle
        /\ Cardinality(lent) < MaxLent
        /\ \E f \in Frame : AllocThis(f) /\ lent' = lent \cup {f}
        /\ UNCHANGED <<root, mem, walk, tlb, space>>

GiveBack(f) == /\ walk = Idle
               /\ f \in lent \/ f \in Strays \ owned
               /\ \A v \in Pages : space[v] # f
               /\ FreeFrame(f)
               /\ lent' = lent \ {f}
               /\ UNCHANGED <<root, mem, walk, tlb, space>>

SetUp == /\ walk = Idle
         /\ \/ \E map \in Maps : InitFromMap(map)
            \/ \E r \in Ranges : ReserveRange(r[1], r[2])
         /\ UNCHANGED <<root, mem, walk, tlb, lent, space>>

(* Mutant: the last entry is not cleared. *)
vmm_zero_page_mutant == [i \in Index |-> IF \A j \in Index : j <= i THEN 0 ELSE Absent]
vmm_zero_page == Empty

(* kernel_memory_init takes and clears the root table. *)
SpaceInit == /\ root = Absent
             /\ \E f \in Frame : /\ AllocThis(f)
                                 /\ root' = f
                                 /\ mem' = [mem EXCEPT ![f] = Empty]
             /\ UNCHANGED <<walk, tlb, lent, space>>

-----------------------------------------------------------------------------
(* vmm_map_page and vmm_unmap_page, one level of tables at a time. *)

Call(o, v, p) == /\ walk = Idle
                 /\ root # Absent
                 /\ walk' = [op |-> o, page |-> v, target |-> p, level |-> 1, table |-> root]
                 /\ UNCHANGED <<frames, root, mem, tlb, lent, space>>

Map(v, p) == p \in lent /\ Call("map", v, p)
Unmap(v) == Call("unmap", v, Absent)

Walking(o) == walk.op = o

(* Mutant: pd is indexed with the bits of pdpt. *)
SlotMutant == walk.page[IF walk.level = 3 THEN 2 ELSE walk.level]
(* idx_pml4, idx_pdpt, idx_pd and idx_pt *)
Slot == walk.page[walk.level]
Here == mem[walk.table][Slot]

Deeper(f) == walk' = [walk EXCEPT !.level = @ + 1, !.table = f]

Descend == /\ Walking("map") \/ Walking("unmap")
           /\ walk.level < 4
           /\ Here # Absent
           /\ Deeper(Here)
           /\ UNCHANGED <<frames, root, mem, tlb, lent, space>>

(* The second half of get_or_alloc_next_table. *)
AllocTable == /\ Walking("map")
              /\ walk.level < 4
              /\ Here = Absent
              /\ \E f \in Frame : /\ AllocThis(f)
                                  /\ mem' = [mem EXCEPT ![f] = vmm_zero_page,
                                                        ![walk.table][Slot] = f]
                                  /\ Deeper(f)
              /\ UNCHANGED <<root, tlb, lent, space>>

(* VMM_ERR_NOMEM leaves the tables made so far in place. *)
NoMemory == /\ Walking("map")
            /\ walk.level < 4
            /\ Here = Absent
            /\ free_frames = 0
            /\ walk' = Idle
            /\ UNCHANGED <<frames, root, mem, tlb, lent, space>>

MapLeaf == /\ Walking("map")
           /\ walk.level = 4
           /\ Here = Absent
           /\ mem' = [mem EXCEPT ![walk.table][Slot] = walk.target]
           /\ space' = [space EXCEPT ![walk.page] = walk.target]
           /\ walk' = Idle
           /\ UNCHANGED <<frames, root, tlb, lent>>

(* VMM_ERR_EXISTS *)
MapExists == /\ Walking("map")
             /\ walk.level = 4
             /\ Here # Absent
             /\ walk' = Idle
             /\ UNCHANGED <<frames, root, mem, tlb, lent, space>>

(* VMM_ERR_NOT_FOUND *)
NotFound == /\ Walking("unmap")
            /\ Here = Absent
            /\ walk' = Idle
            /\ UNCHANGED <<frames, root, mem, tlb, lent, space>>

ClearLeaf == /\ Walking("unmap")
             /\ walk.level = 4
             /\ Here # Absent
             /\ mem' = [mem EXCEPT ![walk.table][Slot] = Absent]
             /\ space' = [space EXCEPT ![walk.page] = Absent]
             /\ walk' = [walk EXCEPT !.op = "invlpg"]
             /\ UNCHANGED <<frames, root, tlb, lent>>

(* Mutant: the page is not invalidated. *)
InvalidateMutant == /\ Walking("invlpg")
                    /\ walk' = Idle
                    /\ UNCHANGED <<frames, root, mem, tlb, lent, space>>

(* vmm_invalidate_page *)
Invalidate == /\ Walking("invlpg")
              /\ tlb' = [tlb EXCEPT ![walk.page] = Absent]
              /\ walk' = Idle
              /\ UNCHANGED <<frames, root, mem, lent, space>>

(* The processor uses a page, at any time, and remembers where it is. *)
Access(v) == /\ tlb[v] = Absent
             /\ Translate(v) # Absent
             /\ tlb' = [tlb EXCEPT ![v] = Translate(v)]
             /\ UNCHANGED <<frames, root, mem, walk, lent, space>>

VmmNext == \/ SetUp \/ SpaceInit \/ Lend
           \/ \E f \in Frame : GiveBack(f)
           \/ \E v \in Pages : \/ \E p \in Frame : Map(v, p)
                               \/ Unmap(v)
                               \/ Access(v)
           \/ Descend \/ AllocTable \/ NoMemory \/ MapLeaf \/ MapExists
           \/ NotFound \/ ClearLeaf \/ Invalidate

VmmSpec == VmmInit /\ [][VmmNext]_allvars

-----------------------------------------------------------------------------
(* Properties. *)

(* Mapping or unmapping one page never moves another, however many tables  *)
(* they share: at every moment the tables translate each page to what it   *)
(* was last mapped to, and a page mapped once is never overwritten ("Leaf  *)
(* page yang sudah present tidak boleh dioverwrite secara diam-diam").     *)
SpaceExact == \A v \in Pages : Translate(v) = space[v]

(* The frames handed out are the tables and what other callers hold, and   *)
(* no frame is both, or two tables: none is lost when vmm_map_page runs    *)
(* out of memory half way, and no table is mapped or given away.           *)
FramesAccounted ==
  /\ owned = Tables \cup lent
  /\ Tables \cap lent = {}
  /\ \A k, m \in Level : k # m => TablesAt[k] \cap TablesAt[m] = {}
  /\ \A f, g \in Tables \ TablesAt[4], i, j \in Index :
       mem[f][i] # Absent /\ mem[f][i] = mem[g][j] => f = g /\ i = j

(* Between calls the TLB remembers nothing that the tables have dropped.   *)
TlbFresh == walk = Idle => \A v \in Pages : tlb[v] \in {Absent, Translate(v)}
=============================================================================
