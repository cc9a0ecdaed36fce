-------------------------------- MODULE Heap --------------------------------
(***************************************************************************)
(* The kernel heap of kernel/mm/kmem.c: first fit over a list of blocks,   *)
(* each behind a header in the arena itself.  A header that left the list  *)
(* stays in memory until an owner overwrites it, and a stale pointer may   *)
(* still lead kmem_free_checked to it.  Sizes are rounded with a 32-bit    *)
(* mask, so rounding is modulo MaskSize, and a request near MaskSize gets  *)
(* a block of a few bytes.                                                 *)
(***************************************************************************)
EXTENDS Naturals, Sequences

CONSTANTS Align,       \* KMEM_ALIGN
          HeaderSize,  \* sizeof(struct kmem_header)
          MaskSize,    \* 2^32, from ~(KMEM_ALIGN - 1)
          Arenas,      \* <<base, bytes>> that kmem_init is called with
          Requests,    \* sizes that callers ask for
          Junk         \* memory whose magic is not KMEM_MAGIC

ASSUME HeapAssumption ==
  /\ {Align, HeaderSize, MaskSize} \subseteq Nat \ {0}
  /\ MaskSize % Align = 0
  /\ Arenas \subseteq Nat \X Nat
  /\ Requests \subseteq Nat
  /\ Junk \notin [size : Nat, free : BOOLEAN]

VARIABLES g_heap_base, g_heap_bytes,  \* g_heap_bytes = 0 before kmem_init
          hdr,          \* what a pointer to each address finds there
          list,         \* the addresses on the block list, in list order
          live,         \* ghost: size asked for, of each block handed out
          given         \* ghost: every block ever handed out

heapVars == <<g_heap_base, g_heap_bytes, hdr, list, live, given>>

Header == [size : Nat, free : BOOLEAN]
RoundUp(v) == (((v + Align - 1) % MaskSize) \div Align) * Align
Free(i) == hdr[list[i]].free
Size(i) == hdr[list[i]].size

HeapTypeOK == /\ g_heap_base \in Nat /\ g_heap_bytes \in Nat
              /\ hdr \in [DOMAIN hdr -> {Junk} \cup Header]
              /\ list \in Seq(Nat)
              /\ live \in [DOMAIN live -> Nat] /\ DOMAIN live \subseteq given

HeapInit == /\ g_heap_base = 0 /\ g_heap_bytes = 0
            /\ hdr = <<>> /\ list = <<>> /\ live = <<>> /\ given = {}

(* kmem_init: the first header goes where its payload is aligned. *)
KmemInit(b, n) ==
  LET payload == ((b + HeaderSize + Align - 1) \div Align) * Align
      offset == payload - HeaderSize - b
  IN  /\ g_heap_bytes = 0
      /\ n >= HeaderSize + Align
      /\ n > offset + HeaderSize
      /\ g_heap_base' = b + offset
      /\ g_heap_bytes' = n - offset
      /\ hdr' = [a \in 0..(b + n) |-> IF a = b + offset
                                        THEN [size |-> n - offset - HeaderSize, free |-> TRUE]
                                        ELSE Junk]
      /\ list' = <<b + offset>>
      /\ UNCHANGED <<live, given>>

-----------------------------------------------------------------------------
(* The first block of the list that fits n bytes. *)
BlockFits(i, n) == Free(i) /\ Size(i) >= n
IsFirstFit(i, n) == BlockFits(i, n) /\ \A j \in 1..Len(list) : j < i => ~BlockFits(j, n)

Splits(i, n) == Size(i) >= RoundUp(n + HeaderSize) + HeaderSize + Align

(* Mutant: a block that is split stays free. *)
SplitHeadersMutant(i, n) ==
  LET needed == RoundUp(n + HeaderSize)
  IN  [hdr EXCEPT ![list[i]] = [size |-> needed - HeaderSize, free |-> TRUE],
                  ![list[i] + needed] = [size |-> Size(i) - needed, free |-> TRUE]]

SplitHeaders(i, n) ==
  LET needed == RoundUp(n + HeaderSize)
  IN  [hdr EXCEPT ![list[i]] = [size |-> needed - HeaderSize, free |-> FALSE],
                  ![list[i] + needed] = [size |-> Size(i) - needed, free |-> TRUE]]

SplitList(i, n) ==
  SubSeq(list, 1, i) \o <<list[i] + RoundUp(n + HeaderSize)>> \o SubSeq(list, i + 1, Len(list))

Live(a, n) == [x \in DOMAIN live \cup {a} |-> IF x = a THEN n ELSE live[x]]

(* kmem_alloc *)
Alloc(n) ==
  LET size == RoundUp(n)
  IN  /\ n # 0
      /\ \E i \in 1..Len(list) :
           /\ IsFirstFit(i, size)
           /\ IF Splits(i, size)
                THEN hdr' = SplitHeaders(i, size) /\ list' = SplitList(i, size)
                ELSE hdr' = [hdr EXCEPT ![list[i]].free = FALSE] /\ UNCHANGED list
           /\ live' = Live(list[i], n)
           /\ given' = given \cup {list[i]}
      /\ UNCHANGED <<g_heap_base, g_heap_bytes>>

(* The owner of a block, or kmem_calloc for it, fills the bytes it asked   *)
(* for, so nothing that overlaps them reads as a header any more.  Of an   *)
(* owner whose request wrapped, only the bytes in its block are modelled:  *)
(* the rest would overwrite whatever follows.                              *)
Fill(a) ==
  LET first == a + HeaderSize
      filled == IF live[a] <= hdr[a].size THEN live[a] ELSE hdr[a].size
      last == first + filled - 1
  IN  /\ hdr' = [x \in DOMAIN hdr |->
                   IF x + HeaderSize > first /\ x <= last /\ x # a THEN Junk ELSE hdr[x]]
      /\ UNCHANGED <<g_heap_base, g_heap_bytes, list, live, given>>

-----------------------------------------------------------------------------
(* The list once a block is free in the headers h: a free block takes in   *)
(* the free blocks that follow it.                                         *)
Survives(h, i) == i = 1 \/ ~h[list[i]].free \/ ~h[list[i - 1]].free

(* Mutant: the header of a swallowed block is not counted. *)
RunSizeMutant(h) ==
  LET run[i \in 1..Len(list)] ==
        h[list[i]].size + (IF i < Len(list) /\ h[list[i]].free /\ h[list[i + 1]].free
                             THEN run[i + 1] ELSE 0)
  IN  run

(* The size of block i with the run of free blocks it starts. *)
RunSize(h) ==
  LET run[i \in 1..Len(list)] ==
        h[list[i]].size + (IF i < Len(list) /\ h[list[i]].free /\ h[list[i + 1]].free
                             THEN HeaderSize + run[i + 1] ELSE 0)
  IN  run

Coalesced(h) ==
  [a \in DOMAIN h |->
     IF \E i \in 1..Len(list) : list[i] = a /\ Survives(h, i)
       THEN [h[a] EXCEPT !.size = RunSize(h)[CHOOSE i \in 1..Len(list) : list[i] = a]]
       ELSE h[a]]

Survivors(h) ==
  LET kept[i \in 0..Len(list)] ==
        IF i = 0 THEN <<>>
        ELSE IF Survives(h, i) THEN Append(kept[i - 1], list[i])
        ELSE kept[i - 1]
  IN  kept[Len(list)]

(* The checks of kmem_free_checked on a pointer to the payload behind a. *)
Accepts(a) == a \in DOMAIN hdr /\ hdr[a] # Junk /\ ~hdr[a].free

(* kmem_free_checked by an owner, or once more by an earlier one whose     *)
(* block nobody has been given again.                                      *)
FreeChecked(a) ==
  LET h == [hdr EXCEPT ![a].free = TRUE]
  IN  /\ Accepts(a)
      /\ hdr' = Coalesced(h)
      /\ list' = Survivors(h)
      /\ live' = [x \in DOMAIN live \ {a} |-> live[x]]
      /\ UNCHANGED <<g_heap_base, g_heap_bytes, given>>

HeapNext == \/ \E arena \in Arenas : KmemInit(arena[1], arena[2])
            \/ \E n \in Requests : Alloc(n)
            \/ \E a \in DOMAIN live : Fill(a)
            \/ \E a \in given : FreeChecked(a)

HeapSpec == HeapInit /\ [][HeapNext]_heapVars

-----------------------------------------------------------------------------
(* Properties. *)

(* The listed blocks have their magic number, start with an aligned        *)
(* payload and cover the arena from end to end without gap or overlap, and *)
(* no two neighbours are both free: a free merges with both sides.         *)
BlocksTile ==
  g_heap_bytes # 0 =>
    /\ list[1] = g_heap_base
    /\ \A i \in 1..Len(list) :
         /\ hdr[list[i]] # Junk
         /\ (list[i] + HeaderSize) % Align = 0
         /\ list[i] + HeaderSize + Size(i) = IF i = Len(list) THEN g_heap_base + g_heap_bytes ELSE list[i + 1]
    /\ \A i \in 1..(Len(list) - 1) : ~(Free(i) /\ Free(i + 1))

(* Rounding n up does not wrap at the 32-bit mask of kmem_alloc. *)
Roundable(n) == n + Align <= MaskSize

(* A block is at least as large as was asked for, unless the request       *)
(* wrapped (kmem.c:65).                                                    *)
LargeEnough == \A a \in DOMAIN live :
                 hdr[a] # Junk /\ (Roundable(live[a]) => hdr[a].size >= live[a])

(* The used blocks of the list are exactly those their owners still have,  *)
(* so a pointer that was freed before, even one into a block that was      *)
(* merged away, is refused: "Double free tidak boleh menyebabkan korupsi   *)
(* metadata allocator".  That holds for requests of any size.  However     *)
(* often it was split and merged since, a block is large enough for its    *)
(* request, if that was one that the rounding of kmem_alloc does not wrap; *)
(* nothing is said of the size of the others' blocks, nor of owners that   *)
(* write past theirs.                                                      *)
UsedIffOwned == /\ {list[i] : i \in {j \in 1..Len(list) : ~Free(j)}} = DOMAIN live
                /\ LargeEnough
=============================================================================
