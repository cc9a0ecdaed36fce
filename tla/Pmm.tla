-------------------------------- MODULE Pmm --------------------------------
(***************************************************************************)
(* The physical frame allocator of src/pmm.c: a bitmap with counters and a *)
(* search hint.  Addresses are machine words, so sums wrap at WordSize.    *)
(* The reserved_frames and ignored_frames statistics are left out: nothing *)
(* reads them.                                                             *)
(***************************************************************************)
EXTENDS Naturals, Sequences, FiniteSets

CONSTANTS WordSize,    \* 2^64
          PageSize,    \* PMM_PAGE_SIZE
          FrameCount,  \* max_phys_bytes / PMM_PAGE_SIZE
          Maps,        \* boot memory maps: sequences of regions
          Ranges       \* arguments of pmm_reserve_range

Frame == 0..(FrameCount - 1)
Region == [base : 0..(WordSize - 1), length : 0..(WordSize - 1), usable : BOOLEAN]

ASSUME PmmAssumption ==
  /\ WordSize \in Nat /\ PageSize \in Nat \ {0} /\ FrameCount \in Nat \ {0}
  /\ FrameCount * PageSize < WordSize
  /\ Maps \subseteq Seq(Region)
  /\ Ranges \subseteq (0..(WordSize - 1)) \X (0..(WordSize - 1))

VARIABLES used,         \* frames whose bitmap bit is set
          free_frames, used_frames, next_hint, initialized,
          owned,        \* ghost: frames handed out and not freed
          reserved      \* ghost: frames reserved when nobody had them, not freed since

vars == <<used, free_frames, used_frames, next_hint, initialized, owned, reserved>>

-----------------------------------------------------------------------------
(* Word arithmetic and ranges. *)

align_down(v) == (v \div PageSize) * PageSize
align_up(v) == align_down((v + PageSize - 1) % WordSize)

(* checked_add_u64 succeeds and there is something to add. *)
Addable(base, length) == length # 0 /\ base + length < WordSize

FramesBetween(start, stop) ==
  {f \in Frame : start <= f * PageSize /\ f * PageSize < stop}

(* The frames mark_range_free clears: those inside the range. *)
FramesInside(base, length) ==
  IF Addable(base, length)
    THEN FramesBetween(align_up(base), align_down(base + length)) ELSE {}

(* Mutant: a partly covered last frame is not reserved. *)
FramesTouchedMutant(base, length) ==
  IF Addable(base, length)
    THEN FramesBetween(align_down(base), align_down(base + length)) ELSE {}

(* The frames mark_range_used sets: those the range touches. *)
FramesTouched(base, length) ==
  IF Addable(base, length)
    THEN FramesBetween(align_down(base), align_up(base + length)) ELSE {}

(* The frames a range covers in part or in full, unless its end rounds up  *)
(* past the last word.                                                     *)
Covered(base, length) ==
  {f \in Frame : /\ length # 0 /\ base + length + PageSize <= WordSize
                 /\ base < (f + 1) * PageSize /\ f * PageSize < base + length}

-----------------------------------------------------------------------------
(* The bitmap with its counters, and what the loops of mark_range_free and *)
(* mark_range_used over the frames S make of it.                           *)
Bitmap == [used |-> used, free_frames |-> free_frames, used_frames |-> used_frames]
AllUsed == [used |-> Frame, free_frames |-> 0, used_frames |-> FrameCount]

Less(n, k) == IF n >= k THEN n - k ELSE 0

Cleared(b, S) ==
  LET n == Cardinality(S \cap b.used)
  IN  [used |-> b.used \ S, free_frames |-> b.free_frames + n, used_frames |-> Less(b.used_frames, n)]

(* Mutant: a frame that is marked used already is counted again. *)
MarkedMutant(b, S) ==
  LET n == Cardinality(S)
  IN  [used |-> b.used \cup S, free_frames |-> Less(b.free_frames, n), used_frames |-> b.used_frames + n]

Marked(b, S) ==
  LET n == Cardinality(S \ b.used)
  IN  [used |-> b.used \cup S, free_frames |-> Less(b.free_frames, n), used_frames |-> b.used_frames + n]

(* The passes of pmm_init_from_map: the usable regions are cleared, frame  *)
(* 0 and then the other regions are marked.                                *)
Pass(map, i, b) ==
  IF i <= Len(map) THEN IF map[i].usable THEN Cleared(b, FramesInside(map[i].base, map[i].length)) ELSE b
  ELSE IF i = Len(map) + 1 THEN Marked(b, FramesTouched(0, PageSize))
  ELSE LET r == map[i - Len(map) - 1]
       IN  IF r.usable THEN b ELSE Marked(b, FramesTouched(r.base, r.length))

Passes(map) ==
  LET after[i \in 0..(2 * Len(map) + 1)] ==
        IF i = 0 THEN AllUsed ELSE Pass(map, i, after[i - 1])
  IN  after[2 * Len(map) + 1]

SetBitmap(b) == used' = b.used /\ free_frames' = b.free_frames /\ used_frames' = b.used_frames

-----------------------------------------------------------------------------
Init == /\ used = {} /\ free_frames = 0 /\ used_frames = 0 /\ next_hint = 0
        /\ initialized = FALSE
        /\ owned = {} /\ reserved = {}

(* pmm_init_from_map, called once. *)
InitFromMap(map) ==
  /\ ~initialized
  /\ Len(map) # 0
  /\ SetBitmap(Passes(map))
  /\ next_hint' = 0
  /\ initialized' = TRUE
  /\ reserved' = Covered(0, PageSize) \cup
                 UNION {Covered(map[i].base, map[i].length) : i \in {k \in 1..Len(map) : ~map[k].usable}}
  /\ UNCHANGED owned

(* The two loops of pmm_alloc_frame: from the hint up, then below it. *)
IsFirstFree(f) ==
  \/ /\ f >= next_hint
     /\ \A g \in Frame \ used : g >= next_hint => f <= g
  \/ /\ \A g \in Frame \ used : g < next_hint
     /\ \A g \in Frame \ used : f <= g

(* pmm_alloc_frame returns frame f. *)
AllocThis(f) == /\ initialized
                /\ free_frames # 0
                /\ f \in Frame \ used
                /\ IsFirstFree(f)
                /\ SetBitmap(Marked(Bitmap, {f}))
                /\ next_hint' = f + 1
                /\ owned' = owned \cup {f}
                /\ UNCHANGED <<initialized, reserved>>

AllocFrame == \E f \in Frame : AllocThis(f)

(* Mutant: the hint stays behind a freed frame. *)
HintMutant(f) == next_hint

(* The hint once frame f is free. *)
Hint(f) == IF f < next_hint THEN f ELSE next_hint

(* pmm_free_frame with the address of frame f, by whoever it is; frame 0   *)
(* and frames that are free already are refused.                           *)
FreeFrame(f) == /\ initialized
                /\ f # 0
                /\ f \in used
                /\ SetBitmap(Cleared(Bitmap, {f}))
                /\ next_hint' = Hint(f)
                /\ owned' = owned \ {f}
                /\ reserved' = reserved \ {f}
                /\ UNCHANGED initialized

(* pmm_reserve_range; it returns true, also for frames that somebody has. *)
ReserveRange(base, length) ==
  /\ initialized
  /\ length # 0
  /\ SetBitmap(Marked(Bitmap, FramesTouched(base, length)))
  /\ reserved' = reserved \cup (Covered(base, length) \ owned)
  /\ UNCHANGED <<next_hint, initialized, owned>>

Next == \/ \E map \in Maps : InitFromMap(map)
        \/ AllocFrame
        \/ \E f \in Frame : FreeFrame(f)
        \/ \E r \in Ranges : ReserveRange(r[1], r[2])

Spec == Init /\ [][Next]_vars

-----------------------------------------------------------------------------
(* Properties. *)

TypeOK == /\ used \subseteq Frame
          /\ free_frames \in 0..FrameCount
          /\ used_frames \in 0..FrameCount
          /\ next_hint \in 0..FrameCount
          /\ initialized \in BOOLEAN
          /\ owned \subseteq Frame
          /\ reserved \subseteq Frame

CountersExact == /\ free_frames = Cardinality(Frame \ used)
                 /\ used_frames = Cardinality(used)
HintSound == \A f \in Frame : f < next_hint => f \in used

(* The counters agree with the bitmap through every overlap of regions,    *)
(* frees and reservations, and no free frame hides below the hint, so the  *)
(* first loop of pmm_alloc_frame finds one whenever there is one.          *)
BookkeepingExact == initialized => CountersExact /\ HintSound

(* A frame that a reserved range or region touches, even with one byte, is *)
(* never handed out, by either loop of pmm_alloc_frame, until somebody     *)
(* frees it.  This is less than "Frame yang berada pada region reserved    *)
(* tidak boleh dialokasikan oleh PMM": pmm_free_frame frees reserved       *)
(* frames (line 206), a range whose end rounds up past the last word is    *)
(* not marked (line 92), and a frame may be reserved while somebody has it.*)
ReservedNeverAllocated == owned \cap reserved = {}
=============================================================================
