---------------------------- MODULE MemoryProofs ----------------------------
(***************************************************************************)
(* The bookkeeping of src/pmm.c and the page tables of src/vmm.c that are  *)
(* built from its frames, for memories, page sizes, boot maps, ranges and  *)
(* sets of pages of any size; and the heap of kernel/mm/kmem.c, for any    *)
(* arenas, sizes and alignment.                                            *)
(***************************************************************************)
EXTENDS Vmm, Heap, FiniteSetTheorems, SequenceTheorems, WellFoundedInduction, TLAPS

(* The inductive invariant of the allocator: the bitmap has a bit set for  *)
(* every frame that is handed out or reserved.                             *)
PmmTypes == /\ used \subseteq Frame /\ owned \subseteq used
            /\ free_frames \in Nat /\ used_frames \in Nat /\ next_hint \in Nat
            /\ initialized \in BOOLEAN
            /\ ~initialized => owned = {} /\ reserved = {}
PmmInv == PmmTypes /\ BookkeepingExact

(* Sets of frames can be counted. *)
LEMMA Countable ==
  ASSUME NEW S, S \subseteq Frame
  PROVE  IsFiniteSet(S) /\ Cardinality(S) \in Nat
<1>1. IsFiniteSet(Frame)
  BY PmmAssumption, FS_Interval DEF Frame
<1>2. IsFiniteSet(S)
  BY <1>1, FS_Subset
<1> QED
  BY <1>2, FS_CardinalityType

(* Disjoint sets of frames add up. *)
LEMMA Adds ==
  ASSUME NEW S, S \subseteq Frame, NEW T, T \subseteq Frame, S \cap T = {}
  PROVE  /\ Cardinality(S \cup T) = Cardinality(S) + Cardinality(T)
         /\ Cardinality(S) \in Nat /\ Cardinality(T) \in Nat
<1>1. IsFiniteSet(S) /\ IsFiniteSet(T) /\ Cardinality(S) \in Nat /\ Cardinality(T) \in Nat
  BY Countable
<1>2. Cardinality(S \cup T) = Cardinality(S) + Cardinality(T) - Cardinality(S \cap T)
  BY <1>1, FS_Union
<1>3. Cardinality(S \cap T) = 0
  BY FS_EmptySet
<1> QED
  BY <1>1, <1>2, <1>3

(* A bitmap of frames whose counters are right. *)
Exact(b) == /\ b.used \subseteq Frame
            /\ b.free_frames = Cardinality(Frame \ b.used)
            /\ b.used_frames = Cardinality(b.used)

(* Setting bits keeps the counters right, whichever were set before. *)
LEMMA MarkedIs ==
  ASSUME NEW b, Exact(b), NEW S, S \subseteq Frame
  PROVE  Exact(Marked(b, S)) /\ Marked(b, S).used = b.used \cup S
<1> DEFINE T == S \ b.used
           rest == Frame \ (b.used \cup S)
           n == Cardinality(T)
<1>1. b.used \subseteq Frame /\ b.free_frames = Cardinality(Frame \ b.used)
      /\ b.used_frames = Cardinality(b.used)
  BY DEF Exact
<1>2. /\ T \subseteq Frame /\ T \cap b.used = {} /\ b.used \cup T = b.used \cup S
      /\ rest \subseteq Frame /\ rest \cap T = {} /\ rest \cup T = Frame \ b.used
  BY <1>1
<1>3. Marked(b, S) = [used |-> b.used \cup S, free_frames |-> Less(b.free_frames, n),
                      used_frames |-> b.used_frames + n]
  BY DEF Marked
<1> HIDE DEF T, rest
<1>4. Cardinality(b.used \cup S) = b.used_frames + n
  <2>1. Cardinality(b.used \cup T) = Cardinality(b.used) + Cardinality(T)
    <3> DEFINE U == b.used
    <3>1. U \subseteq Frame /\ T \subseteq Frame /\ U \cap T = {}
      BY <1>1, <1>2
    <3> HIDE DEF U
    <3>2. Cardinality(U \cup T) = Cardinality(U) + Cardinality(T)
      BY <3>1, Adds
    <3> QED
      BY <3>2 DEF U
  <2> QED
    BY <1>1, <1>2, <2>1
<1>5. b.free_frames = Cardinality(rest) + n /\ n \in Nat /\ Cardinality(rest) \in Nat
  BY <1>1, <1>2, Adds
<1> HIDE DEF n
<1>6. Less(b.free_frames, n) = Cardinality(rest)
  BY <1>5 DEF Less
<1>7. b.used \cup S \subseteq Frame
  BY <1>1
<1> QED
  BY <1>3, <1>4, <1>6, <1>7 DEF Exact, rest

(* So does clearing them. *)
LEMMA ClearedIs ==
  ASSUME NEW b, Exact(b), NEW S, S \subseteq Frame
  PROVE  Exact(Cleared(b, S)) /\ Cleared(b, S).used = b.used \ S
<1> DEFINE T == S \cap b.used
           rest == b.used \ S
           n == Cardinality(T)
<1>1. b.used \subseteq Frame /\ b.free_frames = Cardinality(Frame \ b.used)
      /\ b.used_frames = Cardinality(b.used)
  BY DEF Exact
<1>2. /\ T \subseteq Frame /\ rest \subseteq Frame /\ rest \cap T = {} /\ rest \cup T = b.used
      /\ Frame \ b.used \subseteq Frame /\ (Frame \ b.used) \cap T = {}
      /\ (Frame \ b.used) \cup T = Frame \ rest
  BY <1>1
<1>3. Cleared(b, S) = [used |-> rest, free_frames |-> b.free_frames + n,
                       used_frames |-> Less(b.used_frames, n)]
  BY DEF Cleared
<1> HIDE DEF T, rest
<1>4. b.used_frames = Cardinality(rest) + n /\ n \in Nat /\ Cardinality(rest) \in Nat
  BY <1>1, <1>2, Adds
<1>5. Cardinality(Frame \ rest) = b.free_frames + n
  BY <1>1, <1>2, Adds
<1> HIDE DEF n
<1>6. Less(b.used_frames, n) = Cardinality(rest)
  BY <1>4 DEF Less
<1> QED
  BY <1>2, <1>3, <1>5, <1>6 DEF Exact, rest

(* The bitmap the program keeps. *)
LEMMA BitmapExact ==
  /\ used \subseteq Frame /\ CountersExact <=> Exact(Bitmap)
  /\ Bitmap.used = used
  /\ \A b : Exact(b) /\ SetBitmap(b) => used' = b.used /\ used' \subseteq Frame /\ CountersExact'
BY DEF Exact, Bitmap, CountersExact, SetBitmap

(* Nothing is there before pmm_init_from_map. *)
LEMMA InitPmm == Init => PmmInv
<1> SUFFICES ASSUME Init PROVE PmmInv
  OBVIOUS
<1>1. PmmTypes
  BY DEF Init, PmmTypes
<1>2. BookkeepingExact
  BY DEF Init, BookkeepingExact
<1> QED
  BY <1>1, <1>2 DEF PmmInv

(* The frames that ranges name. *)
LEMMA RangeFrames ==
  \A b, l : FramesTouched(b, l) \subseteq Frame /\ FramesInside(b, l) \subseteq Frame
BY DEF FramesTouched, FramesInside, FramesBetween

(* A set of numbers has a least one. *)
LEMMA LeastNat ==
  ASSUME NEW S, S \subseteq Nat, S # {}
  PROVE  \E k \in S : \A j \in S : k <= j
<1>1. PICK k \in S : \A j \in S : <<j, k>> \notin OpToRel(<, Nat)
  BY WFMin, NatLessThanWellFounded
<1>2. ASSUME NEW j \in S PROVE k <= j
  <2>1. j \in Nat /\ k \in Nat
    OBVIOUS
  <2>2. j < k => <<j, k>> \in OpToRel(<, Nat)
    BY <2>1 DEF OpToRel
  <2>3. ~(j < k)
    BY <1>1, <2>2, Zenon
  <2> QED
    BY <2>1, <2>3
<1> QED
  BY <1>2

(* The bitmaps between the passes of pmm_init_from_map, up to the n-th. *)
IsPasses(f, map, n) == /\ DOMAIN f = 0..n /\ f[0] = AllUsed
                       /\ \A k \in 1..n : f[k] = Pass(map, k, f[k - 1])

LEMMA PassesAre ==
  ASSUME NEW map \in Seq(Region)
  PROVE  \E f : IsPasses(f, map, 2 * Len(map) + 1) /\ Passes(map) = f[2 * Len(map) + 1]
<1> DEFINE L == 2 * Len(map) + 1
           body(f) == [k \in 0..L |-> IF k = 0 THEN AllUsed ELSE Pass(map, k, f[k - 1])]
           K == CHOOSE f : f = body(f)
           bad == {n \in 0..L : ~\E f : IsPasses(f, map, n)}
<1>1. L \in Nat
  OBVIOUS
<1>2. Passes(map) = K[L]
  BY DEF Passes
<1> HIDE DEF L
<1>3. \E f : IsPasses(f, map, 0)
  <2> DEFINE z == [k \in 0..0 |-> AllUsed]
  <2>1. DOMAIN z = 0..0 /\ z[0] = AllUsed /\ 1..0 = {}
    OBVIOUS
  <2> QED
    BY <2>1 DEF IsPasses
<1>4. ASSUME NEW n \in 1..L, NEW f, IsPasses(f, map, n - 1) PROVE \E g : IsPasses(g, map, n)
  <2> DEFINE g == [k \in 0..n |-> IF k = n THEN Pass(map, n, f[n - 1]) ELSE f[k]]
  <2>1. n \in Nat /\ n # 0 /\ n - 1 \in 0..n /\ 0 \in 0..n /\ n - 1 # n /\ 0 # n /\ n \in 0..n
    BY <1>1
  <2>2. \A k \in 1..(n - 1) : k \in 0..n /\ k # n /\ k - 1 \in 0..n /\ k - 1 # n
    BY <2>1
  <2>3. DOMAIN g = 0..n /\ g[0] = f[0] /\ g[n] = Pass(map, n, f[n - 1]) /\ g[n - 1] = f[n - 1]
        /\ \A k \in 1..(n - 1) : g[k] = f[k] /\ g[k - 1] = f[k - 1]
    BY <2>1, <2>2
  <2> HIDE DEF g
  <2>4. ASSUME NEW k \in 1..n PROVE g[k] = Pass(map, k, g[k - 1])
    <3>1. CASE k = n
      BY <2>3, <3>1
    <3>2. CASE k # n
      <4>1. k \in 1..(n - 1)
        BY <2>1, <3>2
      <4> QED
        BY <1>4, <2>3, <4>1 DEF IsPasses
    <3> QED
      BY <3>1, <3>2
  <2>5. IsPasses(g, map, n)
    BY <1>4, <2>3, <2>4 DEF IsPasses
  <2> QED
    BY <2>5
<1>5. bad = {}
  <2> SUFFICES ASSUME bad # {} PROVE FALSE
    OBVIOUS
  <2>1. bad \subseteq Nat
    BY <1>1
  <2>2. PICK n \in bad : \A j \in bad : n <= j
    <3> HIDE DEF bad
    <3> QED
      BY <2>1, LeastNat
  <2>3. n \in 0..L /\ ~\E f : IsPasses(f, map, n)
    BY <2>2
  <2>4. n # 0
    BY <1>3, <2>3
  <2>5. n - 1 \in 0..L /\ ~(n <= n - 1) /\ n \in 1..L
    BY <1>1, <2>3, <2>4
  <2>6. n - 1 \notin bad
    BY <2>2, <2>5
  <2>7. \E f : IsPasses(f, map, n - 1)
    BY <2>5, <2>6
  <2> QED
    BY <1>4, <2>3, <2>5, <2>7
<1>6. PICK f : IsPasses(f, map, L)
  <2>1. L \in 0..L
    BY <1>1
  <2> QED
    BY <1>5, <2>1
<1>7. \E g : g = body(g)
  <2> DEFINE g == body(f)
  <2>1. DOMAIN g = 0..L /\ \A k \in 0..L : g[k] = IF k = 0 THEN AllUsed ELSE Pass(map, k, f[k - 1])
    OBVIOUS
  <2>2. \A k \in 0..L : k # 0 => k \in 1..L /\ k - 1 \in 0..L
    BY <1>1
  <2>3. \A k \in 0..L : g[k] = f[k]
    BY <1>6, <2>1, <2>2 DEF IsPasses
  <2>4. \A k \in 0..L : k # 0 => g[k - 1] = f[k - 1]
    BY <2>2, <2>3
  <2> HIDE DEF g
  <2>5. body(g) = body(f)
    BY <2>4
  <2> QED
    BY <2>5 DEF g
<1>8. K = body(K)
  <2> HIDE DEF body
  <2> QED
    BY <1>7
<1> HIDE DEF K
<1>9. IsPasses(K, map, L)
  <2>1. 0 \in 0..L /\ \A k \in 1..L : k \in 0..L /\ k # 0
    BY <1>1
  <2> QED
    BY <1>8, <2>1 DEF IsPasses
<1> QED
  BY <1>2, <1>9 DEF L

(* What holds of the bitmap b after the k-th pass: its counters are right, *)
(* and the frames covered by what was marked so far are used.              *)
AfterPass(map, k, b) ==
  /\ Exact(b)
  /\ k > Len(map) => Covered(0, PageSize) \subseteq b.used
  /\ \A j \in 1..Len(map) :
       j + Len(map) + 1 <= k /\ ~map[j].usable => Covered(map[j].base, map[j].length) \subseteq b.used

(* Multiples of the page size. *)
LEMMA Multiples ==
  ASSUME NEW a \in Nat, NEW b \in Nat
  PROVE  /\ a <= b => a * PageSize <= b * PageSize
         /\ a * PageSize < (b + 1) * PageSize => a <= b
<1>1. PageSize \in Nat /\ PageSize > 0
  BY PmmAssumption
<1>2. ASSUME NEW c \in Nat, NEW d \in Nat, c <= d PROVE c * PageSize <= d * PageSize
  <2>1. d - c \in Nat /\ d = c + (d - c)
    BY <1>2
  <2>2. (d - c) * PageSize >= 0
    BY <1>1, <2>1
  <2>3. d * PageSize = c * PageSize + (d - c) * PageSize
    BY <1>1, <2>1
  <2> QED
    BY <1>1, <2>1, <2>2, <2>3
<1>3. ASSUME a * PageSize < (b + 1) * PageSize PROVE a <= b
  <2> SUFFICES ASSUME ~(a <= b) PROVE FALSE
    OBVIOUS
  <2>1. b + 1 \in Nat /\ b + 1 <= a
    OBVIOUS
  <2>2. (b + 1) * PageSize <= a * PageSize
    BY <1>2, <2>1
  <2>3. a * PageSize \in Nat /\ (b + 1) * PageSize \in Nat
    BY <1>1
  <2> QED
    BY <1>3, <2>2, <2>3
<1> QED
  BY <1>2, <1>3

(* align_down and align_up find the page boundaries around an address. *)
LEMMA Aligned ==
  ASSUME NEW v \in Nat
  PROVE  /\ v \div PageSize \in Nat
         /\ align_down(v) <= v /\ v < align_down(v) + PageSize /\ align_down(v) \in Nat
         /\ v + PageSize <= WordSize => v <= align_up(v) /\ align_up(v) \in Nat
<1>1. PageSize \in Nat /\ PageSize > 0 /\ WordSize \in Nat
  BY PmmAssumption
<1>2. ASSUME NEW x \in Nat
      PROVE  /\ x \div PageSize \in Nat /\ align_down(x) \in Nat
             /\ align_down(x) <= x /\ x < align_down(x) + PageSize
  <2>1. PageSize * (x \div PageSize) <= x /\ x < PageSize * (x \div PageSize) + PageSize
    BY <1>1
  <2>2. x \div PageSize \in Nat
    BY <1>1
  <2>3. align_down(x) = PageSize * (x \div PageSize) /\ align_down(x) \in Nat
    BY <1>1, <2>2 DEF align_down
  <2> QED
    BY <1>1, <2>1, <2>2, <2>3
<1>3. ASSUME v + PageSize <= WordSize PROVE v <= align_up(v) /\ align_up(v) \in Nat
  <2>1. v + PageSize - 1 \in Nat /\ (v + PageSize - 1) % WordSize = v + PageSize - 1
    BY <1>1, <1>3
  <2>2. align_up(v) = align_down(v + PageSize - 1)
    BY <2>1 DEF align_up
  <2>3. v + PageSize - 1 < align_down(v + PageSize - 1) + PageSize
        /\ align_down(v + PageSize - 1) \in Nat
    BY <1>2, <2>1
  <2> QED
    BY <1>1, <2>2, <2>3
<1> QED
  BY <1>2, <1>3

(* mark_range_used sets the bit of every frame the range covers. *)
LEMMA CoveredTouched ==
  ASSUME NEW base \in Nat, NEW length \in Nat
  PROVE  Covered(base, length) \subseteq FramesTouched(base, length)
<1> SUFFICES ASSUME NEW f \in Frame, length # 0, base + length + PageSize <= WordSize,
                    base < (f + 1) * PageSize, f * PageSize < base + length
             PROVE  f \in FramesTouched(base, length)
  BY DEF Covered
<1>1. /\ PageSize \in Nat /\ PageSize > 0 /\ WordSize \in Nat /\ FrameCount \in Nat
      /\ f \in Nat /\ f + 1 <= FrameCount /\ f + 1 \in Nat
  BY PmmAssumption DEF Frame
<1>3. base + length + PageSize <= WordSize
  OBVIOUS
<1>4. Addable(base, length)
  BY <1>1, <1>3 DEF Addable
<1>5. align_down(base) <= f * PageSize
  <2>1. align_down(base) = (base \div PageSize) * PageSize /\ base \div PageSize \in Nat
        /\ align_down(base) <= base /\ align_down(base) \in Nat
    BY Aligned DEF align_down
  <2>2. (base \div PageSize) * PageSize < (f + 1) * PageSize
    <3>1. (f + 1) * PageSize \in Nat
      BY <1>1
    <3> QED
      BY <2>1, <3>1
  <2> QED
    BY <1>1, <2>1, <2>2, Multiples
<1>6. f * PageSize < align_up(base + length)
  <2>1. base + length \in Nat /\ f * PageSize \in Nat
    BY <1>1
  <2>2. base + length <= align_up(base + length) /\ align_up(base + length) \in Nat
    BY <1>3, <2>1, Aligned
  <2> QED
    BY <2>1, <2>2
<1> QED
  BY <1>4, <1>5, <1>6 DEF FramesTouched, FramesBetween

(* Every pass keeps that. *)
LEMMA PassKeeps ==
  ASSUME NEW map \in Seq(Region), NEW k \in 1..(2 * Len(map) + 1), NEW b, AfterPass(map, k - 1, b)
  PROVE  AfterPass(map, k, Pass(map, k, b))
<1> DEFINE n == Len(map)
           c == Pass(map, k, b)
<1>1. n \in Nat /\ k \in Nat /\ k # 0 /\ Exact(b)
  BY DEF AfterPass
<1>2. PageSize \in Nat /\ 0 \in Nat /\ \A j \in 1..n : map[j].base \in Nat /\ map[j].length \in Nat
  <2>1. \A j \in 1..n : map[j] \in Region
    BY ElementOfSeq
  <2> QED
    BY <2>1, PmmAssumption DEF Region
<1>3. CASE k <= n
  <2>1. c = b \/ \E S : S \subseteq Frame /\ c = Cleared(b, S)
    BY <1>3, RangeFrames DEF Pass
  <2>2. Exact(c)
    BY <1>1, <2>1, ClearedIs
  <2>3. ~(k > n) /\ \A j \in 1..n : ~(j + n + 1 <= k)
    BY <1>1, <1>3
  <2> HIDE DEF c
  <2>4. AfterPass(map, k, c)
    BY <2>2, <2>3 DEF AfterPass
  <2> QED
    BY <2>4 DEF c
<1>4. CASE k = n + 1
  <2>1. c = Marked(b, FramesTouched(0, PageSize))
    BY <1>1, <1>4 DEF Pass
  <2>2. Exact(c) /\ c.used = b.used \cup FramesTouched(0, PageSize)
    BY <1>1, <2>1, MarkedIs, RangeFrames
  <2>3. Covered(0, PageSize) \subseteq FramesTouched(0, PageSize)
    BY <1>2, CoveredTouched
  <2>4. \A j \in 1..n : ~(j + n + 1 <= k)
    BY <1>1, <1>4
  <2> HIDE DEF c
  <2>5. AfterPass(map, k, c)
    BY <2>2, <2>3, <2>4 DEF AfterPass
  <2> QED
    BY <2>5 DEF c
<1>5. CASE k > n + 1
  <2> DEFINE i == k - n - 1
             r == map[i]
             T == FramesTouched(r.base, r.length)
  <2>1. i \in 1..n /\ i + n + 1 = k /\ ~(k <= n) /\ k # n + 1 /\ k - 1 > n /\ k > n
    BY <1>1, <1>5
  <2>2. c = IF r.usable THEN b ELSE Marked(b, T)
    BY <2>1 DEF Pass
  <2>3. /\ Exact(c) /\ b.used \subseteq c.used
        /\ ~r.usable => T \subseteq c.used
    <3>1. T \subseteq Frame
      BY RangeFrames
    <3> HIDE DEF T, c
    <3> QED
      BY <1>1, <2>2, <3>1, MarkedIs
  <2>4. Covered(r.base, r.length) \subseteq T
    <3>1. r.base \in Nat /\ r.length \in Nat
      BY <1>2, <2>1
    <3> QED
      BY <3>1, CoveredTouched
  <2>5. ~r.usable => Covered(r.base, r.length) \subseteq c.used
    <3> HIDE DEF T, c
    <3> QED
      BY <2>3, <2>4
  <2> HIDE DEF c, T
  <2>6. ASSUME NEW j \in 1..n, j + n + 1 <= k, ~map[j].usable
        PROVE  Covered(map[j].base, map[j].length) \subseteq c.used
    <3>1. CASE j = i
      BY <3>1, <2>5, <2>6
    <3>2. CASE j # i
      <4>1. j + n + 1 <= k - 1
        BY <1>1, <2>1, <2>6, <3>2
      <4>2. Covered(map[j].base, map[j].length) \subseteq b.used
        BY <2>6, <4>1 DEF AfterPass
      <4> QED
        BY <2>3, <4>2
    <3> QED
      BY <3>1, <3>2
  <2>7. Covered(0, PageSize) \subseteq c.used
    BY <2>1, <2>3 DEF AfterPass
  <2>8. AfterPass(map, k, c)
    BY <2>3, <2>6, <2>7 DEF AfterPass
  <2> QED
    BY <2>8 DEF c
<1> QED
  BY <1>1, <1>3, <1>4, <1>5

(* The bitmap that pmm_init_from_map leaves. *)
LEMMA PassesKeep ==
  ASSUME NEW map \in Seq(Region)
  PROVE  AfterPass(map, 2 * Len(map) + 1, Passes(map))
<1> DEFINE L == 2 * Len(map) + 1
<1>1. PICK f : IsPasses(f, map, L) /\ Passes(map) = f[L]
  BY PassesAre
<1>2. L \in Nat /\ Len(map) \in Nat
  OBVIOUS
<1> DEFINE bad == {k \in 0..L : ~AfterPass(map, k, f[k])}
<1>3. AfterPass(map, 0, f[0])
  <2>1. f[0] = AllUsed
    BY <1>1 DEF IsPasses
  <2>2. Exact(AllUsed)
    <3>1. Cardinality({}) = 0 /\ Frame \ Frame = {}
      BY FS_EmptySet
    <3>2. Cardinality(Frame) = FrameCount
      BY PmmAssumption, FS_Interval DEF Frame
    <3> QED
      BY <3>1, <3>2 DEF Exact, AllUsed
  <2>3. ~(0 > Len(map)) /\ \A j \in 1..Len(map) : ~(j + Len(map) + 1 <= 0)
    BY <1>2
  <2> QED
    BY <2>1, <2>2, <2>3 DEF AfterPass
<1>4. bad = {}
  <2> SUFFICES ASSUME bad # {} PROVE FALSE
    OBVIOUS
  <2> HIDE DEF L
  <2>1. bad \subseteq Nat
    BY <1>2
  <2>2. PICK n \in bad : \A j \in bad : n <= j
    <3> HIDE DEF bad
    <3> QED
      BY <2>1, LeastNat
  <2>3. n \in 0..L /\ ~AfterPass(map, n, f[n])
    BY <2>2
  <2>4. n # 0
    BY <1>3, <2>3
  <2>5. n - 1 \in 0..L /\ ~(n <= n - 1) /\ n \in 1..L
    BY <1>2, <2>3, <2>4
  <2>6. AfterPass(map, n - 1, f[n - 1])
    BY <2>2, <2>5
  <2>7. f[n] = Pass(map, n, f[n - 1])
    BY <1>1, <2>5 DEF IsPasses
  <2>8. AfterPass(map, n, Pass(map, n, f[n - 1]))
    BY <2>5, <2>6, PassKeeps DEF L
  <2> QED
    BY <2>3, <2>7, <2>8
<1>5. L \in 0..L
  BY <1>2
<1> HIDE DEF L
<1>6. AfterPass(map, L, f[L])
  BY <1>4, <1>5
<1> QED
  BY <1>1, <1>6 DEF L

(* pmm_init_from_map *)
LEMMA InitFromMapKeeps ==
  ASSUME PmmInv, NEW map \in Seq(Region), InitFromMap(map)
  PROVE  PmmInv'
<1>1. Exact(Passes(map))
  BY PassesKeep DEF AfterPass
<1>2. used' \subseteq Frame /\ CountersExact'
  BY <1>1, BitmapExact DEF InitFromMap
<1>3. Cardinality(Frame \ used') \in Nat /\ Cardinality(used') \in Nat
  BY <1>2, Countable
<1>4. PmmTypes'
  BY <1>2, <1>3 DEF PmmInv, PmmTypes, InitFromMap, CountersExact
<1>5. HintSound'
  BY PmmAssumption DEF InitFromMap, HintSound, Frame
<1> QED
  BY <1>2, <1>4, <1>5 DEF PmmInv, BookkeepingExact

(* The frame pmm_alloc_frame finds has only used frames below it. *)
LEMMA AllocKeeps ==
  ASSUME PmmInv, NEW f \in Frame, AllocThis(f)
  PROVE  PmmInv'
<1>1. /\ used \subseteq Frame /\ CountersExact /\ HintSound /\ initialized /\ f \notin used
      /\ next_hint \in Nat /\ f \in Nat
  BY PmmAssumption DEF PmmInv, PmmTypes, BookkeepingExact, AllocThis, Frame
<1>2. used' = used \cup {f} /\ used' \subseteq Frame /\ CountersExact'
  <2>1. {f} \subseteq Frame /\ Exact(Bitmap) /\ Bitmap.used = used
    BY <1>1, BitmapExact
  <2>2. Exact(Marked(Bitmap, {f})) /\ Marked(Bitmap, {f}).used = used \cup {f}
    BY <2>1, MarkedIs
  <2>3. SetBitmap(Marked(Bitmap, {f}))
    BY DEF AllocThis
  <2> QED
    BY <2>2, <2>3, BitmapExact
<1>3. Cardinality(Frame \ used') \in Nat /\ Cardinality(used') \in Nat
  BY <1>2, Countable
<1>4. HintSound'
  <2> SUFFICES ASSUME NEW g \in Frame, g < f + 1, g \notin used, g # f PROVE FALSE
    BY <1>2 DEF HintSound, AllocThis
  <2>1. g \in Nat /\ g < f
    BY <1>1, PmmAssumption DEF Frame
  <2>2. ~(g < next_hint) /\ ~(f < next_hint)
    BY <1>1 DEF HintSound
  <2> QED
    BY <1>1, <2>1, <2>2 DEF AllocThis, IsFirstFree
<1>5. PmmTypes'
  BY <1>1, <1>2, <1>3 DEF PmmInv, PmmTypes, AllocThis, CountersExact
<1> QED
  BY <1>2, <1>4, <1>5 DEF PmmInv, BookkeepingExact

(* pmm_free_frame *)
LEMMA FreeKeeps ==
  ASSUME PmmInv, NEW f \in Frame, FreeFrame(f)
  PROVE  PmmInv' /\ used' = used \ {f}
<1>1. /\ used \subseteq Frame /\ CountersExact /\ HintSound /\ initialized /\ f \in used
      /\ next_hint \in Nat /\ f \in Nat
  BY PmmAssumption DEF PmmInv, PmmTypes, BookkeepingExact, FreeFrame, Frame
<1>2. used' = used \ {f} /\ used' \subseteq Frame /\ CountersExact'
  <2>1. {f} \subseteq Frame /\ Exact(Bitmap) /\ Bitmap.used = used
    BY <1>1, BitmapExact
  <2>2. Exact(Cleared(Bitmap, {f})) /\ Cleared(Bitmap, {f}).used = used \ {f}
    BY <2>1, ClearedIs
  <2>3. SetBitmap(Cleared(Bitmap, {f}))
    BY DEF FreeFrame
  <2> QED
    BY <2>2, <2>3, BitmapExact
<1>3. Cardinality(Frame \ used') \in Nat /\ Cardinality(used') \in Nat
  BY <1>2, Countable
<1>4. HintSound'
  BY <1>1, <1>2, PmmAssumption DEF HintSound, FreeFrame, Hint, Frame
<1>5. PmmTypes'
  BY <1>1, <1>2, <1>3 DEF PmmInv, PmmTypes, FreeFrame, Hint, CountersExact
<1> QED
  BY <1>2, <1>4, <1>5 DEF PmmInv, BookkeepingExact

(* pmm_reserve_range *)
LEMMA ReserveKeeps ==
  ASSUME PmmInv, NEW base, NEW length, ReserveRange(base, length)
  PROVE  PmmInv' /\ used' = used \cup FramesTouched(base, length)
<1> DEFINE S == FramesTouched(base, length)
<1>1. used \subseteq Frame /\ CountersExact /\ HintSound /\ initialized
  BY DEF PmmInv, PmmTypes, BookkeepingExact, ReserveRange
<1>2. used' = used \cup S /\ used' \subseteq Frame /\ CountersExact'
  <2>1. S \subseteq Frame /\ Exact(Bitmap) /\ Bitmap.used = used
    BY <1>1, BitmapExact, RangeFrames
  <2>2. SetBitmap(Marked(Bitmap, S))
    BY DEF ReserveRange
  <2> HIDE DEF S
  <2>3. Exact(Marked(Bitmap, S)) /\ Marked(Bitmap, S).used = used \cup S
    BY <2>1, MarkedIs
  <2> QED
    BY <2>2, <2>3, BitmapExact
<1>3. Cardinality(Frame \ used') \in Nat /\ Cardinality(used') \in Nat
  BY <1>2, Countable
<1>4. HintSound'
  BY <1>1, <1>2 DEF HintSound, ReserveRange
<1>5. PmmTypes'
  BY <1>1, <1>2, <1>3 DEF PmmInv, PmmTypes, ReserveRange, CountersExact
<1> QED
  BY <1>2, <1>4, <1>5 DEF PmmInv, BookkeepingExact

(* Every step of the allocator keeps it. *)
LEMMA NextPmm == PmmInv /\ [Next]_vars => PmmInv'
<1> SUFFICES ASSUME PmmInv, [Next]_vars PROVE PmmInv'
  OBVIOUS
<1>1. ASSUME NEW map \in Maps, InitFromMap(map) PROVE PmmInv'
  BY <1>1, PmmAssumption, InitFromMapKeeps
<1>2. CASE AllocFrame
  BY <1>2, AllocKeeps DEF AllocFrame
<1>3. ASSUME NEW f \in Frame, FreeFrame(f) PROVE PmmInv'
  BY <1>3, FreeKeeps
<1>4. ASSUME NEW r \in Ranges, ReserveRange(r[1], r[2]) PROVE PmmInv'
  BY <1>4, ReserveKeeps
<1>5. CASE UNCHANGED vars
  BY <1>5 DEF PmmInv, PmmTypes, BookkeepingExact, CountersExact, HintSound, vars
<1> QED
  BY <1>1, <1>2, <1>3, <1>4, <1>5 DEF Next

-----------------------------------------------------------------------------
(* Reserved frames. *)

(* The bitmap has a bit set for every reserved frame, and none of them is  *)
(* handed out.                                                             *)
ReservedKept == reserved \subseteq used /\ ReservedNeverAllocated

(* Every step of the allocator keeps that. *)
LEMMA NextReserved ==
  ASSUME PmmInv, ReservedKept, [Next]_vars
  PROVE  ReservedKept'
<1>0. used \subseteq Frame /\ owned \subseteq used /\ (~initialized => owned = {})
  BY DEF PmmInv, PmmTypes
<1>1. ASSUME NEW map \in Maps, InitFromMap(map) PROVE ReservedKept'
  <2> DEFINE others == {k \in 1..Len(map) : ~map[k].usable}
             b == Passes(map)
  <2>1. map \in Seq(Region) /\ Len(map) \in Nat
    BY PmmAssumption
  <2>2. AfterPass(map, 2 * Len(map) + 1, b)
    BY <2>1, PassesKeep
  <2> HIDE DEF b
  <2>3. Covered(0, PageSize) \subseteq b.used
    <3>1. 2 * Len(map) + 1 > Len(map)
      BY <2>1
    <3> QED
      BY <2>2, <3>1 DEF AfterPass
  <2>4. ASSUME NEW j \in others PROVE Covered(map[j].base, map[j].length) \subseteq b.used
    <3>1. j \in 1..Len(map) /\ j + Len(map) + 1 <= 2 * Len(map) + 1
      BY <2>1
    <3> QED
      BY <2>2, <3>1 DEF AfterPass
  <2>5. UNION {Covered(map[j].base, map[j].length) : j \in others} \subseteq b.used
    <3> HIDE DEF others
    <3> QED
      BY <2>4
  <2>6. /\ used' = b.used /\ owned' = {}
        /\ reserved' = Covered(0, PageSize) \cup UNION {Covered(map[j].base, map[j].length) : j \in others}
    BY <1>0, <1>1 DEF InitFromMap, SetBitmap, b
  <2> HIDE DEF others
  <2> QED
    BY <2>3, <2>5, <2>6 DEF ReservedKept, ReservedNeverAllocated
<1>2. CASE AllocFrame
  BY <1>2 DEF AllocFrame, AllocThis, SetBitmap, Marked, Bitmap, ReservedKept, ReservedNeverAllocated
<1>3. ASSUME NEW f \in Frame, FreeFrame(f) PROVE ReservedKept'
  <2>1. used' = used \ {f}
    BY <1>3, FreeKeeps
  <2> QED
    BY <1>3, <2>1 DEF FreeFrame, ReservedKept, ReservedNeverAllocated
<1>4. ASSUME NEW r \in Ranges, ReserveRange(r[1], r[2]) PROVE ReservedKept'
  <2>1. r[1] \in Nat /\ r[2] \in Nat
    BY PmmAssumption
  <2>2. Covered(r[1], r[2]) \subseteq FramesTouched(r[1], r[2])
    BY <2>1, CoveredTouched
  <2>3. used' = used \cup FramesTouched(r[1], r[2])
    BY <1>4, ReserveKeeps
  <2>4. owned' = owned /\ reserved' = reserved \cup (Covered(r[1], r[2]) \ owned)
    BY <1>4 DEF ReserveRange
  <2> QED
    BY <2>2, <2>3, <2>4 DEF ReservedKept, ReservedNeverAllocated
<1>5. CASE UNCHANGED vars
  BY <1>5 DEF ReservedKept, ReservedNeverAllocated, vars
<1> QED
  BY <1>1, <1>2, <1>3, <1>4, <1>5 DEF Next

(* The counters agree with the bitmap and the hint hides no free frame. *)
THEOREM PmmBookkeeping == Spec => []BookkeepingExact
<1>1. PmmInv => BookkeepingExact
  BY DEF PmmInv
<1> QED
  BY <1>1, InitPmm, NextPmm, PTL DEF Spec

(* A reserved frame is not handed out before somebody frees it. *)
THEOREM PmmReserved == Spec => []ReservedNeverAllocated
<1>1. Init => ReservedKept
  BY DEF Init, ReservedKept, ReservedNeverAllocated
<1>2. PmmInv /\ ReservedKept /\ [Next]_vars => ReservedKept'
  BY NextReserved
<1>3. ReservedKept => ReservedNeverAllocated
  BY DEF ReservedKept
<1> QED
  BY <1>1, <1>2, <1>3, InitPmm, NextPmm, PTL DEF Spec

-----------------------------------------------------------------------------
(* The address space is built from the allocator's frames by its own       *)
(* calls.                                                                  *)
LEMMA VmmStepsPmm == [VmmNext]_allvars => [Next]_vars
<1> SUFFICES ASSUME [VmmNext]_allvars PROVE Next \/ UNCHANGED vars
  OBVIOUS
<1>1. ASSUME NEW f \in Frame, AllocThis(f) PROVE Next
  BY <1>1 DEF Next, AllocFrame
<1>2. ASSUME UNCHANGED frames PROVE UNCHANGED vars
  BY <1>2 DEF frames, vars
<1>3. CASE SetUp
  BY <1>3 DEF SetUp, Next
<1>4. CASE SpaceInit
  BY <1>1, <1>4 DEF SpaceInit
<1>5. CASE Lend
  BY <1>1, <1>5 DEF Lend
<1>6. ASSUME NEW f \in Frame, GiveBack(f) PROVE Next
  BY <1>6 DEF GiveBack, Next
<1>7. ASSUME NEW v \in Pages, NEW p, Map(v, p) \/ Unmap(v) \/ Access(v) PROVE UNCHANGED vars
  BY <1>2, <1>7 DEF Map, Unmap, Call, Access
<1>8. CASE Descend \/ NoMemory \/ MapLeaf \/ MapExists \/ NotFound \/ ClearLeaf \/ Invalidate
  BY <1>2, <1>8 DEF Descend, NoMemory, MapLeaf, MapExists, NotFound, ClearLeaf, Invalidate
<1>9. CASE AllocTable
  BY <1>1, <1>9 DEF AllocTable
<1>10. CASE UNCHANGED allvars
  BY <1>10 DEF allvars, vars
<1> QED
  BY <1>3, <1>4, <1>5, <1>6, <1>7, <1>8, <1>9, <1>10 DEF VmmNext

(* The invariant of the allocator, under the address space. *)
THEOREM FrameInvariance == VmmSpec => []PmmInv
<1>1. VmmInit => PmmInv
  BY InitPmm DEF VmmInit
<1> QED
  BY <1>1, NextPmm, VmmStepsPmm, PTL DEF VmmSpec

(* Whatever maps, frees, reservations, mappings and failures come, the     *)
(* counters of the allocator agree with its bitmap and no free frame lies  *)
(* below the hint.                                                         *)
THEOREM Bookkeeping == VmmSpec => []BookkeepingExact
<1>1. PmmInv => BookkeepingExact
  BY DEF PmmInv
<1> QED
  BY <1>1, FrameInvariance, PTL

(* A frame that a reserved range touches, with its last byte too, while    *)
(* nobody has the frame is not handed out before somebody frees it, not to *)
(* the address space and not to others, for any boot map and any ranges,   *)
(* wherever they overlap.  A range whose end rounds up past the last word  *)
(* reserves nothing.                                                       *)
THEOREM ReservedSafe == VmmSpec => []ReservedNeverAllocated
<1>1. VmmInit => ReservedKept
  BY DEF VmmInit, Init, ReservedKept, ReservedNeverAllocated
<1>2. PmmInv /\ ReservedKept /\ [VmmNext]_allvars => ReservedKept'
  BY NextReserved, VmmStepsPmm
<1>3. ReservedKept => ReservedNeverAllocated
  BY DEF ReservedKept
<1> QED
  BY <1>1, <1>2, <1>3, FrameInvariance, PTL DEF VmmSpec

-----------------------------------------------------------------------------
(* The page tables: the tables T of each level and the path p of a page,   *)
(* for any contents M of memory and any root R.                            *)

BelowIn(M, S) == {M[f][i] : f \in S, i \in Index} \ {Absent}
FollowIn(M, f, i) == IF f = Absent THEN Absent ELSE M[f][i]

IsTables(T, M, R) == /\ T = [k \in Level |-> T[k]]
                     /\ T[1] = {R} \ {Absent}
                     /\ \A k \in 1..3 : T[k + 1] = BelowIn(M, T[k])

IsPath(p, M, R, v) == /\ p[1] = R
                      /\ \A k \in Level : p[k + 1] = FollowIn(M, p[k], v[k])
PathIn(M, R, v) ==
  LET a == FollowIn(M, R, v[1])
      b == FollowIn(M, a, v[2])
      c == FollowIn(M, b, v[3])
  IN  [k \in 1..5 |-> IF k = 1 THEN R ELSE IF k = 2 THEN a ELSE IF k = 3 THEN b
                      ELSE IF k = 4 THEN c ELSE FollowIn(M, c, v[4])]
path(v) == PathIn(mem, root, v)

All(T) == UNION {T[k] : k \in Level}
Upper(T) == All(T) \ T[4]

(* Levels share no table, and a table above the last level has one parent  *)
(* and one place in it.                                                    *)
IsTree(T, M) ==
  /\ \A k, m \in Level : k # m => T[k] \cap T[m] = {}
  /\ \A f, g \in Upper(T), i, j \in Index :
       M[f][i] # Absent /\ M[f][i] = M[g][j] => f = g /\ i = j

(* The equations have one solution. *)
LEMMA OneSolution ==
  ASSUME NEW M, NEW R, NEW T, NEW U, IsTables(T, M, R), IsTables(U, M, R)
  PROVE  T = U
<1>1. T[1] = U[1]
  BY DEF IsTables
<1>2. T[2] = U[2]
  <2>1. 1 \in 1..3 /\ 1 + 1 = 2
    OBVIOUS
  <2> QED
    BY <1>1, <2>1 DEF IsTables
<1>3. T[3] = U[3]
  <2>1. 2 \in 1..3 /\ 2 + 1 = 3
    OBVIOUS
  <2> QED
    BY <1>2, <2>1 DEF IsTables
<1>4. T[4] = U[4]
  <2>1. 3 \in 1..3 /\ 3 + 1 = 4
    OBVIOUS
  <2> QED
    BY <1>3, <2>1 DEF IsTables
<1>5. \A k \in Level : k = 1 \/ k = 2 \/ k = 3 \/ k = 4
  BY DEF Level
<1>6. \A k \in Level : T[k] = U[k]
  BY <1>1, <1>2, <1>3, <1>4, <1>5
<1> QED
  BY <1>6 DEF IsTables

TablesIn(M, R) ==
  CHOOSE h : h = [k \in Level |-> IF k = 1 THEN {R} \ {Absent} ELSE BelowIn(M, h[k - 1])]

(* This is it. *)
LEMMA TablesInIs == ASSUME NEW M, NEW R PROVE IsTables(TablesIn(M, R), M, R)
<1> DEFINE A == {R} \ {Absent}
           B == BelowIn(M, A)
           C == BelowIn(M, B)
           D == BelowIn(M, C)
           g == [k \in Level |-> IF k = 1 THEN A ELSE IF k = 2 THEN B ELSE IF k = 3 THEN C ELSE D]
           eq(h) == [k \in Level |-> IF k = 1 THEN {R} \ {Absent} ELSE BelowIn(M, h[k - 1])]
           T == TablesIn(M, R)
<1>1. \A k \in Level : k = 1 \/ k = 2 \/ k = 3 \/ k = 4
  BY DEF Level
<1>2. \A k \in Level : g[k] = eq(g)[k]
  <2> HIDE DEF B, C, D
  <2>1. g[1] = A /\ g[2] = B /\ g[3] = C /\ g[4] = D
    BY DEF Level
  <2>2. ASSUME NEW k \in Level, k = 1 PROVE g[k] = eq(g)[k]
    BY <2>1, <2>2
  <2>3. ASSUME NEW k \in Level, k = 2 PROVE g[k] = eq(g)[k]
    BY <2>1, <2>3 DEF B
  <2>4. ASSUME NEW k \in Level, k = 3 PROVE g[k] = eq(g)[k]
    BY <2>1, <2>4 DEF C
  <2>5. ASSUME NEW k \in Level, k = 4 PROVE g[k] = eq(g)[k]
    BY <2>1, <2>5 DEF D
  <2> QED
    BY <1>1, <2>2, <2>3, <2>4, <2>5
<1>3. g = eq(g)
  <2> HIDE DEF A, B, C, D
  <2> QED
    BY <1>2
<1> HIDE DEF g
<1>4. T = eq(T)
  BY <1>3 DEF TablesIn
<1> HIDE DEF T
<1>5. ASSUME NEW k \in 1..3 PROVE T[k + 1] = BelowIn(M, T[k])
  <2>1. k + 1 \in Level /\ k + 1 # 1 /\ (k + 1) - 1 = k
    BY DEF Level
  <2>2. eq(T)[k + 1] = BelowIn(M, T[(k + 1) - 1])
    BY <2>1
  <2> QED
    BY <1>4, <2>1, <2>2
<1>6. 1 \in Level
  BY DEF Level
<1>7. IsTables(T, M, R)
  BY <1>4, <1>5, <1>6 DEF IsTables
<1> QED
  BY <1>7 DEF T

(* TablesAt is it, before and after a step. *)
LEMMA TablesAtIs == IsTables(TablesAt, mem, root) /\ IsTables(TablesAt', mem', root')
<1>1. TablesAt = TablesIn(mem, root) /\ TablesAt' = TablesIn(mem', root')
  BY DEF TablesAt, TablesIn, Below, BelowIn
<1> QED
  BY <1>1, TablesInIs

(* What PathIn is. *)
LEMMA PathInIs == ASSUME NEW M, NEW R, NEW v PROVE IsPath(PathIn(M, R, v), M, R, v)
<1> DEFINE a == FollowIn(M, R, v[1])
           b == FollowIn(M, a, v[2])
           c == FollowIn(M, b, v[3])
           p == PathIn(M, R, v)
<1>1. p[1] = R /\ p[2] = a /\ p[3] = b /\ p[4] = c /\ p[5] = FollowIn(M, c, v[4])
  BY DEF PathIn
<1>2. \A k \in Level : k = 1 \/ k = 2 \/ k = 3 \/ k = 4
  BY DEF Level
<1> HIDE DEF p
<1>3. p[1 + 1] = FollowIn(M, p[1], v[1])
  BY <1>1
<1>4. p[2 + 1] = FollowIn(M, p[2], v[2])
  BY <1>1
<1>5. p[3 + 1] = FollowIn(M, p[3], v[3])
  BY <1>1
<1>6. p[4 + 1] = FollowIn(M, p[4], v[4])
  BY <1>1
<1>7. IsPath(p, M, R, v)
  <2> HIDE DEF a, b, c
  <2> QED
    BY <1>1, <1>2, <1>3, <1>4, <1>5, <1>6 DEF IsPath
<1> QED
  BY <1>7 DEF p

(* Translate follows the path of a page to its end. *)
LEMMA TranslateIs ==
  /\ \A v : Translate(v) = path(v)[5]
  /\ \A v : Translate(v)' = PathIn(mem', root', v)[5]
<1> DEFINE deep(M, R, v) ==
      FollowIn(M, FollowIn(M, FollowIn(M, FollowIn(M, R, v[1]), v[2]), v[3]), v[4])
<1>1. ASSUME NEW M, NEW R, NEW v PROVE PathIn(M, R, v)[5] = deep(M, R, v)
  BY DEF PathIn
<1>2. ASSUME NEW f, NEW i PROVE Follow(f, i) = FollowIn(mem, f, i) /\ Follow(f, i)' = FollowIn(mem', f, i)
  BY DEF Follow, FollowIn
<1>3. ASSUME NEW v PROVE Translate(v) = deep(mem, root, v)
  BY <1>2 DEF Translate
<1>4. ASSUME NEW v PROVE Translate(v)' = deep(mem', root', v)
  BY DEF Translate, Follow, FollowIn
<1> QED
  BY <1>1, <1>3, <1>4 DEF path

(* The tables on a path, level by level. *)
LEMMA PathOnTables ==
  ASSUME NEW M, NEW R, NEW T, IsTables(T, M, R), NEW v \in Pages, NEW p, IsPath(p, M, R, v)
  PROVE  \A k \in Level : p[k] = Absent \/ p[k] \in T[k]
<1>1. \A k \in Level : v[k] \in Index
  BY VmmAssumption
<1>2. p[1] = Absent \/ p[1] \in T[1]
  BY DEF IsTables, IsPath
<1>3. ASSUME NEW k \in 1..3, p[k] = Absent \/ p[k] \in T[k]
      PROVE  p[k + 1] = Absent \/ p[k + 1] \in T[k + 1]
  <2>1. k \in Level
    BY DEF Level
  <2>2. p[k + 1] = FollowIn(M, p[k], v[k]) /\ T[k + 1] = BelowIn(M, T[k])
    BY <2>1 DEF IsPath, IsTables
  <2> QED
    BY <1>1, <1>3, <2>1, <2>2 DEF FollowIn, BelowIn
<1>4. p[2] = Absent \/ p[2] \in T[2]
  <2>1. 1 \in 1..3 /\ 1 + 1 = 2
    OBVIOUS
  <2> QED
    BY <1>2, <1>3, <2>1
<1>5. p[3] = Absent \/ p[3] \in T[3]
  <2>1. 2 \in 1..3 /\ 2 + 1 = 3
    OBVIOUS
  <2> QED
    BY <1>3, <1>4, <2>1
<1>6. p[4] = Absent \/ p[4] \in T[4]
  <2>1. 3 \in 1..3 /\ 3 + 1 = 4
    OBVIOUS
  <2> QED
    BY <1>3, <1>5, <2>1
<1>7. \A k \in Level : k = 1 \/ k = 2 \/ k = 3 \/ k = 4
  BY DEF Level
<1> QED
  BY <1>2, <1>4, <1>5, <1>6, <1>7

(* Pages whose paths meet in a table have the same indices above it. *)
LEMMA PathsMeet ==
  ASSUME NEW M, NEW R, NEW T, IsTables(T, M, R), IsTree(T, M),
         NEW v \in Pages, NEW p, IsPath(p, M, R, v),
         NEW w \in Pages, NEW q, IsPath(q, M, R, w),
         p[4] = q[4], p[4] # Absent, v[4] = w[4]
  PROVE  v = w
<1>1. v \in [Level -> Index] /\ w \in [Level -> Index]
  BY VmmAssumption
<1>2. /\ \A k \in Level : p[k] = Absent \/ p[k] \in T[k]
      /\ \A k \in Level : q[k] = Absent \/ q[k] \in T[k]
  BY PathOnTables
<1>3. ASSUME NEW k \in 1..3, p[k + 1] = q[k + 1], p[k + 1] # Absent
      PROVE  p[k] = q[k] /\ p[k] # Absent /\ v[k] = w[k]
  <2>1. k \in Level /\ k # 4 /\ 4 \in Level
    BY DEF Level
  <2>2. p[k + 1] = FollowIn(M, p[k], v[k]) /\ q[k + 1] = FollowIn(M, q[k], w[k])
    BY <2>1 DEF IsPath
  <2>3. p[k] # Absent /\ q[k] # Absent /\ p[k + 1] = M[p[k]][v[k]] /\ q[k + 1] = M[q[k]][w[k]]
    BY <1>3, <2>2 DEF FollowIn
  <2>4. p[k] \in T[k] /\ q[k] \in T[k]
    BY <1>2, <2>1, <2>3
  <2>5. p[k] \in Upper(T) /\ q[k] \in Upper(T)
    BY <2>1, <2>4 DEF Upper, All, IsTree
  <2>6. v[k] \in Index /\ w[k] \in Index
    BY <1>1, <2>1
  <2>7. M[p[k]][v[k]] # Absent /\ M[p[k]][v[k]] = M[q[k]][w[k]]
    BY <1>3, <2>3
  <2>8. \A f, g \in Upper(T), i, j \in Index :
          M[f][i] # Absent /\ M[f][i] = M[g][j] => f = g /\ i = j
    BY DEF IsTree
  <2>9. p[k] = q[k] /\ v[k] = w[k]
    BY <2>5, <2>6, <2>7, <2>8, Zenon
  <2> QED
    BY <2>3, <2>9
<1>4. p[3] = q[3] /\ p[3] # Absent /\ v[3] = w[3]
  <2>1. 3 \in 1..3 /\ 3 + 1 = 4
    OBVIOUS
  <2> QED
    BY <1>3, <2>1
<1>5. p[2] = q[2] /\ p[2] # Absent /\ v[2] = w[2]
  <2>1. 2 \in 1..3 /\ 2 + 1 = 3
    OBVIOUS
  <2> QED
    BY <1>3, <1>4, <2>1
<1>6. v[1] = w[1]
  <2>1. 1 \in 1..3 /\ 1 + 1 = 2
    OBVIOUS
  <2> QED
    BY <1>3, <1>5, <2>1
<1>7. \A k \in Level : k = 1 \/ k = 2 \/ k = 3 \/ k = 4
  BY DEF Level
<1>8. \A k \in Level : v[k] = w[k]
  BY <1>4, <1>5, <1>6, <1>7
<1> QED
  BY <1>1, <1>8

(* Two memories that agree on the tables of the first three levels have    *)
(* the same tables.                                                        *)
LEMMA SameTables ==
  ASSUME NEW M, NEW N, NEW R, NEW T, IsTables(T, M, R),
         \A k \in 1..3 : \A f \in T[k] : M[f] = N[f]
  PROVE  IsTables(T, N, R)
<1>1. \A k \in 1..3 : BelowIn(M, T[k]) = BelowIn(N, T[k])
  BY DEF BelowIn
<1> QED
  BY <1>1 DEF IsTables

(* N is M with x at place i of table t. *)
OneEntry(N, M, t, i, x) == /\ \A f \in Frame : f # t => N[f] = M[f]
                           /\ \A j \in Index : N[t][j] = IF j = i THEN x ELSE M[t][j]

(* The tables are what they were and only page w ends elsewhere, at x. *)
OneMoved(T, N, M, R, w, x) ==
  /\ IsTables(T, N, R) /\ IsTree(T, N)
  /\ \A v \in Pages : \A k \in Level : PathIn(N, R, v)[k] = PathIn(M, R, v)[k]
  /\ \A v \in Pages : PathIn(N, R, v)[5] = IF v = w THEN x ELSE PathIn(M, R, v)[5]

(* An entry of the last level changes: one page is translated anew. *)
LEMMA LeafChange ==
  ASSUME NEW M, NEW R, NEW T, IsTables(T, M, R), IsTree(T, M),
         All(T) \subseteq Frame, NEW w \in Pages, NEW t \in T[4], t = PathIn(M, R, w)[4], t # Absent,
         NEW x, NEW N, OneEntry(N, M, t, w[4], x)
  PROVE  OneMoved(T, N, M, R, w, x)
<1>0. /\ 4 \in Level /\ \A k \in 1..3 : k \in Level /\ k # 4
      /\ \A k \in Level : k = 1 \/ k = 2 \/ k = 3 \/ k = 4
  BY DEF Level
<1>1. \A k \in 1..3 : \A f \in T[k] : f # t
  BY <1>0 DEF IsTree
<1>2. t \in Frame /\ \A f \in Frame : f # t => N[f] = M[f]
  BY <1>0 DEF All, OneEntry
<1>3. IsTables(T, N, R)
  <2>1. \A k \in 1..3 : \A f \in T[k] : M[f] = N[f]
    BY <1>0, <1>1, <1>2 DEF All
  <2> QED
    BY <2>1, SameTables
<1>4. t \notin Upper(T)
  BY DEF Upper
<1>5. IsTree(T, N)
  <2>1. \A f \in Upper(T) : M[f] = N[f]
    BY <1>2, <1>4 DEF Upper
  <2> QED
    BY <2>1 DEF IsTree
<1>6. ASSUME NEW v \in Pages, NEW k \in Level PROVE PathIn(N, R, v)[k] = PathIn(M, R, v)[k]
  <2> DEFINE p == PathIn(M, R, v)
             q == PathIn(N, R, v)
  <2>1. IsPath(p, M, R, v) /\ IsPath(q, N, R, v)
    BY PathInIs
  <2> HIDE DEF p, q
  <2>2. \A j \in Level : p[j] = Absent \/ p[j] \in T[j]
    BY <2>1, PathOnTables
  <2>3. ASSUME NEW j \in 1..3, q[j] = p[j] PROVE q[j + 1] = p[j + 1]
    <3>1. p[j] = Absent \/ (p[j] # t /\ p[j] \in Frame)
      BY <1>0, <1>1, <2>2 DEF All
    <3>2. q[j + 1] = FollowIn(N, q[j], v[j]) /\ p[j + 1] = FollowIn(M, p[j], v[j])
      BY <1>0, <2>1 DEF IsPath
    <3> QED
      BY <1>2, <2>3, <3>1, <3>2 DEF FollowIn
  <2>4. q[1] = p[1]
    BY <2>1 DEF IsPath
  <2>5. q[2] = p[2]
    <3>1. 1 \in 1..3 /\ 1 + 1 = 2
      OBVIOUS
    <3> QED
      BY <2>3, <2>4, <3>1
  <2>6. q[3] = p[3]
    <3>1. 2 \in 1..3 /\ 2 + 1 = 3
      OBVIOUS
    <3> QED
      BY <2>3, <2>5, <3>1
  <2>7. q[4] = p[4]
    <3>1. 3 \in 1..3 /\ 3 + 1 = 4
      OBVIOUS
    <3> QED
      BY <2>3, <2>6, <3>1
  <2>8. q[k] = p[k]
    BY <1>0, <2>4, <2>5, <2>6, <2>7
  <2> QED
    BY <2>8 DEF p, q
<1>7. ASSUME NEW v \in Pages
      PROVE  PathIn(N, R, v)[5] = IF v = w THEN x ELSE PathIn(M, R, v)[5]
  <2> DEFINE p == PathIn(M, R, v)
             q == PathIn(N, R, v)
             r == PathIn(M, R, w)
  <2>1. IsPath(p, M, R, v) /\ IsPath(q, N, R, v) /\ IsPath(r, M, R, w)
    BY PathInIs
  <2>2. q[4] = p[4] /\ t = r[4]
    BY <1>0, <1>6
  <2>3. v[4] \in Index /\ w[4] \in Index
    BY <1>0, VmmAssumption
  <2>4. v = w => p = r
    OBVIOUS
  <2> HIDE DEF p, q, r
  <2>5. 4 + 1 = 5
    OBVIOUS
  <2>6. q[5] = FollowIn(N, q[4], v[4]) /\ p[5] = FollowIn(M, p[4], v[4])
    BY <1>0, <2>1, <2>5 DEF IsPath
  <2>7. p[4] = t /\ v[4] = w[4] <=> v = w
    <3>1. ASSUME p[4] = t, v[4] = w[4] PROVE v = w
      BY <2>1, <2>2, <3>1, PathsMeet
    <3> QED
      BY <2>2, <2>4, <3>1
  <2>8. N[t][v[4]] = IF v[4] = w[4] THEN x ELSE M[t][v[4]]
    BY <2>3 DEF OneEntry
  <2>9. p[4] = Absent \/ p[4] \in Frame
    BY <1>0, <2>1, PathOnTables DEF All
  <2>10. q[5] = IF v = w THEN x ELSE p[5]
    <3>1. CASE p[4] = t
      BY <2>2, <2>6, <2>7, <2>8, <3>1 DEF FollowIn
    <3>2. CASE p[4] # t
      BY <1>2, <2>2, <2>6, <2>7, <2>9, <3>2 DEF FollowIn
    <3> QED
      BY <3>1, <3>2
  <2> QED
    BY <2>10 DEF p, q
<1> QED
  BY <1>3, <1>5, <1>6, <1>7 DEF OneMoved

(* What an entry above the last level names is a table. *)
LEMMA EntriesAreTables ==
  ASSUME NEW M, NEW R, NEW T, IsTables(T, M, R), NEW g \in Upper(T), NEW i \in Index,
         M[g][i] # Absent
  PROVE  M[g][i] \in All(T)
<1>1. PICK m \in Level : g \in T[m] /\ m # 4
  BY DEF Upper, All
<1>2. m \in 1..3 /\ m + 1 \in Level
  BY <1>1 DEF Level
<1>3. M[g][i] \in T[m + 1]
  <2>1. T[m + 1] = BelowIn(M, T[m])
    BY <1>2 DEF IsTables
  <2> QED
    BY <1>1, <2>1 DEF BelowIn
<1> QED
  BY <1>2, <1>3 DEF All

(* An empty table is hung below table t of level k, which had nothing at   *)
(* place s.                                                                *)
Hung(T, k, f) == [j \in Level |-> IF j = k + 1 THEN T[j] \cup {f} ELSE T[j]]
HangsBelow(N, M, t, s, f) ==
  /\ \A g \in Frame : g # t /\ g # f => N[g] = M[g]
  /\ \A i \in Index : N[f][i] = Absent
  /\ \A i \in Index : N[t][i] = IF i = s THEN f ELSE M[t][i]

(* There is one table more. *)
LEMMA HungAll ==
  ASSUME NEW T, NEW k \in 1..3, NEW f
  PROVE  All(Hung(T, k, f)) = All(T) \cup {f}
<1> DEFINE U == Hung(T, k, f)
<1>1. /\ k + 1 \in Level
      /\ \A j \in Level : U[j] = IF j = k + 1 THEN T[j] \cup {f} ELSE T[j]
  BY DEF Hung, Level
<1> HIDE DEF U
<1>2. \A j \in Level : U[j] \subseteq All(T) \cup {f} /\ T[j] \subseteq U[j]
  BY <1>1 DEF All
<1>3. f \in All(U)
  BY <1>1 DEF All
<1>4. All(U) = All(T) \cup {f}
  BY <1>2, <1>3 DEF All
<1> QED
  BY <1>4 DEF U

(* Then level k + 1 has one table more, and the tables are still a tree. *)
LEMMA NewTable ==
  ASSUME NEW M, NEW N, NEW R, NEW T, IsTables(T, M, R), IsTree(T, M), All(T) \subseteq Frame,
         NEW k \in 1..3, NEW t \in T[k], NEW s \in Index, M[t][s] = Absent,
         NEW f \in Frame, f \notin All(T), f # Absent, HangsBelow(N, M, t, s, f)
  PROVE  /\ IsTables(Hung(T, k, f), N, R) /\ IsTree(Hung(T, k, f), N)
         /\ All(Hung(T, k, f)) = All(T) \cup {f}
<1> DEFINE U == Hung(T, k, f)
<1>0. /\ k \in Level /\ k + 1 \in Level /\ k + 1 # 1 /\ k # 4 /\ 1 \in Level /\ 4 \in Level
      /\ \A j \in 1..3 : j \in Level /\ j + 1 \in Level
  BY DEF Level
<1>1. /\ U = [j \in Level |-> U[j]]
      /\ U[k + 1] = T[k + 1] \cup {f}
      /\ \A j \in Level : j # k + 1 => U[j] = T[j]
  BY <1>0 DEF Hung
<1> HIDE DEF U
<1>2. \A j \in Level : T[j] \subseteq Frame /\ f \notin T[j] /\ T[j] \subseteq All(T)
  BY DEF All
<1>3. \A j \in Level : j # k => t \notin T[j]
  BY <1>0 DEF IsTree
<1>4. t \in Frame /\ t # f
  BY <1>0, <1>2
<1>5. \A j \in Level : j # k => BelowIn(N, T[j]) = BelowIn(M, T[j])
  <2>1. ASSUME NEW j \in Level, j # k PROVE \A g \in T[j] : N[g] = M[g]
    BY <1>2, <1>3, <2>1 DEF HangsBelow
  <2> QED
    BY <2>1 DEF BelowIn
<1>6. BelowIn(N, T[k]) = BelowIn(M, T[k]) \cup {f}
  <2>1. \A g \in T[k] : \A i \in Index : N[g][i] = IF g = t /\ i = s THEN f ELSE M[g][i]
    BY <1>0, <1>2 DEF HangsBelow
  <2>2. ASSUME NEW x \in BelowIn(N, T[k]) PROVE x \in BelowIn(M, T[k]) \cup {f}
    BY <2>1 DEF BelowIn
  <2>3. ASSUME NEW x \in BelowIn(M, T[k]) PROVE x \in BelowIn(N, T[k])
    <3>1. PICK g \in T[k], i \in Index : x = M[g][i] /\ x # Absent
      BY DEF BelowIn
    <3>2. N[g][i] = x
      BY <2>1, <3>1
    <3> QED
      BY <3>1, <3>2 DEF BelowIn
  <2>4. f \in BelowIn(N, T[k])
    BY <2>1 DEF BelowIn
  <2> QED
    BY <2>2, <2>3, <2>4
<1>7. BelowIn(N, T[k + 1] \cup {f}) = BelowIn(N, T[k + 1])
  BY DEF BelowIn, HangsBelow
<1>8. IsTables(U, N, R)
  <2>1. U[1] = {R} \ {Absent}
    BY <1>0, <1>1 DEF IsTables
  <2>2. ASSUME NEW j \in 1..3 PROVE U[j + 1] = BelowIn(N, U[j])
    <3>0. T[j + 1] = BelowIn(M, T[j]) /\ T[k + 1] = BelowIn(M, T[k])
      BY DEF IsTables
    <3>1. CASE j = k
      BY <1>0, <1>1, <1>6, <3>0, <3>1
    <3>2. CASE j = k + 1
      <4>1. U[j + 1] = T[j + 1] /\ U[j] = T[k + 1] \cup {f}
        BY <1>0, <1>1, <3>2
      <4> QED
        BY <1>0, <1>5, <1>7, <3>0, <3>2, <4>1
    <3>3. CASE j # k /\ j # k + 1
      <4>1. U[j + 1] = T[j + 1] /\ U[j] = T[j]
        BY <1>0, <1>1, <3>3
      <4> QED
        BY <1>0, <1>5, <3>0, <3>3, <4>1
    <3> QED
      BY <3>1, <3>2, <3>3
  <2> QED
    BY <1>1, <2>1, <2>2 DEF IsTables
<1>9. All(U) = All(T) \cup {f}
  BY HungAll DEF U
<1>10. ASSUME NEW a \in Level, NEW b \in Level, a # b PROVE U[a] \cap U[b] = {}
  <2>1. T[a] \cap T[b] = {}
    BY <1>10 DEF IsTree
  <2> QED
    BY <1>1, <1>2, <1>10, <2>1
<1>11. ASSUME NEW g \in Upper(U), NEW h \in Upper(U), NEW i \in Index, NEW j \in Index,
              N[g][i] # Absent, N[g][i] = N[h][j]
       PROVE  g = h /\ i = j
  <2>1. g # f /\ h # f
    BY <1>11 DEF HangsBelow
  <2>2. T[4] \subseteq U[4]
    BY <1>0, <1>1
  <2>3. g \in Upper(T) /\ h \in Upper(T) /\ g \in Frame /\ h \in Frame
    BY <1>9, <2>1, <2>2 DEF Upper
  <2>4. /\ N[g][i] = IF g = t /\ i = s THEN f ELSE M[g][i]
        /\ N[h][j] = IF h = t /\ j = s THEN f ELSE M[h][j]
    BY <2>1, <2>3 DEF HangsBelow
  <2>5. M[g][i] # f /\ M[h][j] # f
    BY <2>3, EntriesAreTables
  <2>7. CASE g = t /\ i = s
    BY <1>11, <2>4, <2>5, <2>7
  <2>8. CASE h = t /\ j = s
    BY <1>11, <2>4, <2>5, <2>8
  <2>9. CASE ~(g = t /\ i = s) /\ ~(h = t /\ j = s)
    <3>1. M[g][i] # Absent /\ M[g][i] = M[h][j]
      BY <1>11, <2>4, <2>9
    <3>2. M[g][i] # Absent /\ M[g][i] = M[h][j] => g = h /\ i = j
      BY <2>3 DEF IsTree
    <3> QED
      BY <3>1, <3>2
  <2> QED
    BY <2>7, <2>8, <2>9
<1>12. IsTree(U, N)
  <2>1. \A a, b \in Level : a # b => U[a] \cap U[b] = {}
    BY <1>10
  <2>2. \A g, h \in Upper(U), i, j \in Index : N[g][i] # Absent /\ N[g][i] = N[h][j] => g = h /\ i = j
    BY <1>11
  <2> QED
    BY <2>1, <2>2 DEF IsTree
<1> QED
  BY <1>8, <1>9, <1>12 DEF U

(* The paths through place s of t grow by the new table and the others are *)
(* what they were: no page is translated anew.                             *)
LEMMA NewTablePaths ==
  ASSUME NEW M, NEW N, NEW R, NEW T, IsTables(T, M, R), IsTree(T, M), All(T) \subseteq Frame,
         NEW k \in 1..3, NEW t \in T[k], NEW s \in Index, M[t][s] = Absent,
         NEW f \in Frame, f \notin All(T), f # Absent, HangsBelow(N, M, t, s, f),
         NEW v \in Pages
  PROVE  /\ PathIn(N, R, v)[5] = PathIn(M, R, v)[5]
         /\ PathIn(M, R, v)[k] = t /\ v[k] = s => PathIn(N, R, v)[k + 1] = f
<1> DEFINE p == PathIn(M, R, v)
           q == PathIn(N, R, v)
           same(j) == \/ q[j] = p[j]
                      \/ j = k + 1 /\ q[j] = f /\ p[j] = Absent
<1>0. /\ k \in Level /\ k + 1 # 1 /\ k + 1 # 5 /\ k + 1 \in Level
      /\ v \in [Level -> Index]
  BY VmmAssumption DEF Level
<1>1. IsPath(p, M, R, v) /\ IsPath(q, N, R, v)
  BY PathInIs
<1> HIDE DEF p, q
<1>2. \A j \in Level : p[j] = Absent \/ p[j] \in T[j]
  BY <1>1, PathOnTables
<1>3. \A j \in Level : T[j] \subseteq Frame /\ f \notin T[j]
  BY DEF All
<1>4. \A j \in Level : j # k => t \notin T[j]
  BY <1>0 DEF IsTree
<1>5. t \in Frame /\ t # f /\ t # Absent
  BY <1>0, <1>3, VmmAssumption
<1>6. ASSUME NEW j \in Level
      PROVE  q[j + 1] = FollowIn(N, q[j], v[j]) /\ p[j + 1] = FollowIn(M, p[j], v[j])
  BY <1>1 DEF IsPath
<1>7. ASSUME NEW j \in Level, same(j) PROVE same(j + 1)
  <2>0. v[j] \in Index
    BY <1>0
  <2>1. CASE p[j] = Absent /\ q[j] = Absent
    BY <1>6, <2>1 DEF FollowIn
  <2>2. CASE p[j] # Absent /\ q[j] = p[j] /\ p[j] # t
    <3>1. p[j] \in Frame /\ p[j] # f
      BY <1>2, <1>3, <2>2
    <3> QED
      BY <1>6, <2>2, <3>1 DEF FollowIn, HangsBelow
  <2>3. CASE q[j] = p[j] /\ p[j] = t
    <3>1. j = k
      BY <1>2, <1>4, <1>5, <2>3
    <3>2. q[j + 1] = N[t][v[j]] /\ p[j + 1] = M[t][v[j]]
      BY <1>5, <1>6, <2>3 DEF FollowIn
    <3> QED
      BY <2>0, <3>1, <3>2 DEF HangsBelow
  <2>4. CASE j = k + 1 /\ q[j] = f /\ p[j] = Absent
    BY <1>6, <2>0, <2>4 DEF FollowIn, HangsBelow
  <2> QED
    BY <1>7, <2>1, <2>2, <2>3, <2>4
<1>8. same(1)
  BY <1>1 DEF IsPath
<1> HIDE DEF same
<1>9. same(5)
  <2>1. 1 \in Level /\ 2 \in Level /\ 3 \in Level /\ 4 \in Level
    BY DEF Level
  <2>2. 1 + 1 = 2 /\ 2 + 1 = 3 /\ 3 + 1 = 4 /\ 4 + 1 = 5
    OBVIOUS
  <2>3. same(2)
    BY <1>7, <1>8, <2>1, <2>2
  <2>4. same(3)
    BY <1>7, <2>3, <2>1, <2>2
  <2>5. same(4)
    BY <1>7, <2>4, <2>1, <2>2
  <2> QED
    BY <1>7, <2>5, <2>1, <2>2
<1>10. q[5] = p[5]
  BY <1>0, <1>9 DEF same
<1>11. ASSUME p[k] = t, v[k] = s PROVE q[k + 1] = f
  <2>0. \A j \in 1..3 : j = 1 \/ j = 2 \/ j = 3
    OBVIOUS
  <2>1. same(k)
    <3>1. 1 \in Level /\ 2 \in Level /\ 1 + 1 = 2 /\ 2 + 1 = 3
      BY DEF Level
    <3>2. same(2)
      BY <1>7, <1>8, <3>1
    <3>3. same(3)
      BY <1>7, <3>1, <3>2
    <3> QED
      BY <1>8, <2>0, <3>2, <3>3
  <2>2. q[k] = t
    BY <1>11, <2>1 DEF same
  <2> QED
    BY <1>0, <1>5, <1>6, <1>11, <2>2 DEF FollowIn, HangsBelow
<1> QED
  BY <1>10, <1>11 DEF p, q

-----------------------------------------------------------------------------
(* The inductive invariant of the address space: the properties, and that  *)
(* a call in progress stands in a table on the path of its page.           *)
VmmTypes == /\ root \in Entry
            /\ mem \in [Frame -> [Index -> Entry]]
            /\ lent \subseteq Frame
            /\ space \in [Pages -> Entry]
            /\ tlb \in [Pages -> Entry]
            /\ \A v \in Pages : space[v] = Absent \/ space[v] \in lent

Calls == [op : {"map", "unmap", "invlpg"}, page : Pages, target : Entry,
          level : Level, table : Frame]
WalkInv == \/ walk = Idle
           \/ /\ walk \in Calls
              /\ walk.table \in TablesAt[walk.level]
              /\ walk.table = path(walk.page)[walk.level]
              /\ walk.op = "map" => walk.target \in lent
              /\ walk.op = "invlpg" => walk.level = 4

(* A page the TLB may be wrong about is about to be invalidated. *)
TlbInv == \A v \in Pages : \/ tlb[v] \in {Absent, Translate(v)}
                           \/ walk.op = "invlpg" /\ walk.page = v

SpaceInv == VmmTypes /\ SpaceExact /\ FramesAccounted /\ WalkInv /\ TlbInv

(* FramesAccounted, of any tables and frames. *)
Accounted(o, T, l, M) == o = All(T) \cup l /\ All(T) \cap l = {} /\ IsTree(T, M)

LEMMA AccountedIs == /\ FramesAccounted <=> Accounted(owned, TablesAt, lent, mem)
                     /\ FramesAccounted' <=> Accounted(owned', TablesAt', lent', mem')
<1>1. FramesAccounted <=> Accounted(owned, TablesAt, lent, mem)
  BY DEF FramesAccounted, Accounted, Tables, All, IsTree, Upper
<1>2. FramesAccounted' <=> Accounted(owned', TablesAt', lent', mem')
  BY DEF FramesAccounted, Accounted, Tables, All, IsTree, Upper
<1> QED
  BY <1>1, <1>2

(* The tables are frames. *)
LEMMA TablesAreFrames ==
  ASSUME PmmInv, FramesAccounted
  PROVE  /\ All(TablesAt) \subseteq Frame /\ IsTree(TablesAt, mem)
         /\ \A k \in Level : TablesAt[k] \subseteq Frame
<1>1. All(TablesAt) \subseteq Frame /\ IsTree(TablesAt, mem)
  BY AccountedIs DEF Accounted, PmmInv, PmmTypes
<1> QED
  BY <1>1 DEF All

(* A step that leaves root and memory alone leaves the tables alone. *)
LEMMA SameSpace ==
  ASSUME root' = root, mem' = mem
  PROVE  /\ TablesAt' = TablesAt
         /\ \A v : PathIn(mem', root', v) = path(v)
         /\ \A v : Translate(v)' = Translate(v)
<1>1. TablesAt' = TablesAt
  <2>1. IsTables(TablesAt', mem, root) /\ IsTables(TablesAt, mem, root)
    BY TablesAtIs
  <2> QED
    BY <2>1, OneSolution
<1>2. \A v : PathIn(mem', root', v) = path(v)
  BY DEF path
<1> QED
  BY <1>1, <1>2, TranslateIs

(* What a call in progress knows. *)
LEMMA WalkStands ==
  ASSUME PmmInv, SpaceInv, walk # Idle
  PROVE  /\ walk \in Calls /\ walk.page \in Pages /\ walk.level \in Level
         /\ walk.table \in TablesAt[walk.level] /\ walk.table \in Frame
         /\ walk.table = path(walk.page)[walk.level] /\ walk.table # Absent
         /\ Slot \in Index /\ Here \in Entry
         /\ Here = path(walk.page)[walk.level + 1]
<1>1. /\ walk \in Calls /\ walk.table \in TablesAt[walk.level]
      /\ walk.table = path(walk.page)[walk.level]
  BY DEF SpaceInv, WalkInv
<1>2. walk.page \in Pages /\ walk.level \in Level /\ walk.table \in Frame
  BY <1>1 DEF Calls
<1>3. walk.table # Absent /\ Slot \in Index
  BY <1>2, VmmAssumption DEF Slot
<1>4. Here \in Entry
  BY <1>2, <1>3 DEF Here, SpaceInv, VmmTypes
<1> DEFINE p == path(walk.page)
<1>5. IsPath(p, mem, root, walk.page)
  BY PathInIs DEF path
<1> HIDE DEF p
<1>6. p[walk.level + 1] = FollowIn(mem, p[walk.level], walk.page[walk.level])
  BY <1>2, <1>5 DEF IsPath
<1>7. p[walk.level + 1] = Here
  BY <1>1, <1>3, <1>6 DEF FollowIn, Here, Slot, p
<1> QED
  BY <1>1, <1>2, <1>3, <1>4, <1>7 DEF p

(* An address space without a root, or with an empty one, maps nothing. *)
LEMMA NoTables ==
  ASSUME NEW M, NEW R, NEW T, IsTables(T, M, R), R = Absent \/ \A i \in Index : M[R][i] = Absent
  PROVE  /\ All(T) = {R} \ {Absent} /\ IsTree(T, M)
         /\ \A v \in Pages : PathIn(M, R, v)[5] = Absent
<1>1. BelowIn(M, {}) = {} /\ BelowIn(M, {R} \ {Absent}) = {}
  BY DEF BelowIn
<1>2. T[1] = {R} \ {Absent}
  BY DEF IsTables
<1>3. T[2] = {}
  <2>1. 1 \in 1..3 /\ 1 + 1 = 2
    OBVIOUS
  <2> QED
    BY <1>1, <1>2, <2>1 DEF IsTables
<1>4. T[3] = {}
  <2>1. 2 \in 1..3 /\ 2 + 1 = 3
    OBVIOUS
  <2> QED
    BY <1>1, <1>3, <2>1 DEF IsTables
<1>5. T[4] = {}
  <2>1. 3 \in 1..3 /\ 3 + 1 = 4
    OBVIOUS
  <2> QED
    BY <1>1, <1>4, <2>1 DEF IsTables
<1>6. \A k \in Level : T[k] = IF k = 1 THEN {R} \ {Absent} ELSE {}
  BY <1>2, <1>3, <1>4, <1>5 DEF Level
<1>7. All(T) = {R} \ {Absent}
  <2>1. 1 \in Level
    BY DEF Level
  <2> QED
    BY <1>6, <2>1 DEF All
<1>8. IsTree(T, M)
  BY <1>6, <1>7 DEF IsTree, Upper
<1>9. ASSUME NEW v \in Pages PROVE PathIn(M, R, v)[5] = Absent
  <2>1. v[1] \in Index
    BY VmmAssumption DEF Level
  <2>2. FollowIn(M, R, v[1]) = Absent /\ \A i : FollowIn(M, Absent, i) = Absent
    BY <2>1 DEF FollowIn
  <2> QED
    BY <2>2 DEF PathIn
<1> QED
  BY <1>7, <1>8, <1>9

(* It holds at the start. *)
LEMMA InitSpace == VmmInit => SpaceInv
<1> SUFFICES ASSUME VmmInit PROVE SpaceInv
  OBVIOUS
<1>1. VmmTypes
  <2>1. 0 \in Frame
    BY PmmAssumption DEF Frame
  <2> QED
    BY <2>1 DEF VmmInit, VmmTypes, Entry, Dirty
<1>2. All(TablesAt) = {} /\ IsTree(TablesAt, mem)
  BY NoTables, TablesAtIs DEF VmmInit
<1>3. FramesAccounted
  BY <1>2, AccountedIs DEF Accounted, VmmInit, Init
<1>4. SpaceExact /\ TlbInv
  BY DEF SpaceExact, TlbInv, Translate, Follow, VmmInit
<1> QED
  BY <1>1, <1>3, <1>4 DEF SpaceInv, WalkInv, VmmInit


(* Steps that leave the tables alone: they keep what is said of them, and  *)
(* what is left is said of the frames handed out, of the call in progress  *)
(* and of the TLB.                                                         *)
LEMMA TablesKept ==
  ASSUME PmmInv, SpaceInv, PmmInv', UNCHANGED <<root, mem, space>>,
         lent' \subseteq Frame, tlb' \in [Pages -> Entry],
         \A v \in Pages : space[v] = Absent \/ space[v] \in lent',
         owned' = All(TablesAt) \cup lent', All(TablesAt) \cap lent' = {},
         \/ walk' = Idle
         \/ /\ walk' \in Calls
            /\ walk'.table \in TablesAt[walk'.level]
            /\ walk'.table = path(walk'.page)[walk'.level]
            /\ walk'.op = "map" => walk'.target \in lent'
            /\ walk'.op = "invlpg" => walk'.level = 4,
         \A v \in Pages : \/ tlb'[v] \in {Absent, Translate(v)}
                          \/ walk'.op = "invlpg" /\ walk'.page = v
  PROVE  SpaceInv'
<1>1. /\ TablesAt' = TablesAt
      /\ \A v : PathIn(mem', root', v) = path(v)
      /\ \A v : Translate(v)' = Translate(v)
  BY SameSpace
<1>2. VmmTypes'
  BY DEF SpaceInv, VmmTypes
<1>3. SpaceExact'
  BY <1>1 DEF SpaceInv, SpaceExact
<1>4. FramesAccounted'
  <2>1. IsTree(TablesAt, mem)
    BY AccountedIs DEF SpaceInv, Accounted
  <2> QED
    BY <1>1, <2>1, AccountedIs DEF Accounted
<1>5. WalkInv'
  <2>1. \A v : path(v)' = path(v)
    BY <1>1 DEF path
  <2> QED
    BY <1>1, <2>1 DEF WalkInv
<1>6. TlbInv'
  BY <1>1 DEF TlbInv
<1> QED
  BY <1>2, <1>3, <1>4, <1>5, <1>6 DEF SpaceInv

(* The steps of other users of the allocator. *)
LEMMA LendingKeeps ==
  ASSUME PmmInv, SpaceInv, PmmInv',
         SetUp \/ Lend \/ (\E f \in Frame : GiveBack(f)) \/ UNCHANGED allvars
  PROVE  SpaceInv'
<1>1. /\ lent \subseteq Frame /\ tlb \in [Pages -> Entry] /\ WalkInv /\ TlbInv
      /\ \A v \in Pages : space[v] = Absent \/ space[v] \in lent
      /\ owned = All(TablesAt) \cup lent /\ All(TablesAt) \cap lent = {}
  BY AccountedIs DEF SpaceInv, VmmTypes, Accounted
<1>2. CASE SetUp \/ UNCHANGED allvars
  <2>1. UNCHANGED <<root, mem, space, walk, tlb, lent, owned>>
    BY <1>2 DEF SetUp, allvars, InitFromMap, ReserveRange
  <2> QED
    BY <1>1, <2>1, TablesKept DEF WalkInv, TlbInv
<1>3. CASE Lend
  <2>1. PICK f \in Frame : AllocThis(f) /\ lent' = lent \cup {f}
    BY <1>3 DEF Lend
  <2>2. owned' = owned \cup {f} /\ f \notin owned
    BY <2>1 DEF AllocThis, PmmInv, PmmTypes
  <2>3. UNCHANGED <<root, mem, space, tlb, walk>> /\ walk = Idle
    BY <1>3 DEF Lend
  <2>4. owned' = All(TablesAt) \cup lent' /\ All(TablesAt) \cap lent' = {} /\ lent' \subseteq Frame
    BY <1>1, <2>1, <2>2
  <2>5. \A v \in Pages : \/ tlb'[v] \in {Absent, Translate(v)}
                         \/ walk'.op = "invlpg" /\ walk'.page = v
    BY <1>1, <2>3 DEF TlbInv
  <2>6. \A v \in Pages : space[v] = Absent \/ space[v] \in lent'
    BY <1>1, <2>1
  <2> QED
    BY <1>1, <2>3, <2>4, <2>5, <2>6, TablesKept
<1>4. ASSUME NEW f \in Frame, GiveBack(f) PROVE SpaceInv'
  <2>1. lent' = lent \ {f} /\ owned' = owned \ {f} /\ (f \in lent \/ f \notin owned)
    BY <1>4 DEF GiveBack, FreeFrame
  <2>2. UNCHANGED <<root, mem, space, tlb, walk>> /\ walk = Idle
    BY <1>4 DEF GiveBack
  <2>3. owned' = All(TablesAt) \cup lent' /\ All(TablesAt) \cap lent' = {} /\ lent' \subseteq Frame
    BY <1>1, <2>1
  <2>4. \A v \in Pages : \/ tlb'[v] \in {Absent, Translate(v)}
                         \/ walk'.op = "invlpg" /\ walk'.page = v
    BY <1>1, <2>2 DEF TlbInv
  <2>5. \A v \in Pages : space[v] = Absent \/ space[v] \in lent'
    BY <1>1, <1>4, <2>1 DEF GiveBack
  <2> QED
    BY <1>1, <2>2, <2>3, <2>4, <2>5, TablesKept
<1> QED
  BY <1>2, <1>3, <1>4

(* The steps of a call that only read the tables, and the processor's. *)
LEMMA ReadingKeeps ==
  ASSUME PmmInv, SpaceInv, PmmInv',
         \/ \E v \in Pages : (\E p \in Frame : Map(v, p)) \/ Unmap(v) \/ Access(v)
         \/ Descend \/ NoMemory \/ MapExists \/ NotFound \/ Invalidate
  PROVE  SpaceInv'
<1>1. /\ lent \subseteq Frame /\ tlb \in [Pages -> Entry] /\ WalkInv /\ TlbInv
      /\ \A v \in Pages : space[v] = Absent \/ space[v] \in lent
      /\ owned = All(TablesAt) \cup lent /\ All(TablesAt) \cap lent = {}
  BY AccountedIs DEF SpaceInv, VmmTypes, Accounted
<1>2. Idle.op = "none"
  BY DEF Idle
<1>3. ASSUME NEW v \in Pages, NEW p \in Entry, NEW o \in {"map", "unmap"},
             o = "map" => p \in lent, Call(o, v, p)
      PROVE  SpaceInv'
  <2>1. /\ UNCHANGED <<root, mem, space, tlb, lent, owned>> /\ walk = Idle /\ root # Absent
        /\ walk' = [op |-> o, page |-> v, target |-> p, level |-> 1, table |-> root]
    BY <1>3 DEF Call, frames
  <2>2. 1 \in Level /\ root \in Frame
    BY <2>1 DEF Level, SpaceInv, VmmTypes, Entry
  <2>3. root \in TablesAt[1] /\ root = path(v)[1]
    BY <2>1, TablesAtIs, PathInIs DEF IsTables, IsPath, path
  <2>4. walk' \in Calls
    BY <1>3, <2>1, <2>2 DEF Calls
  <2>5. /\ walk'.table \in TablesAt[walk'.level]
        /\ walk'.table = path(walk'.page)[walk'.level]
        /\ walk'.op = "map" => walk'.target \in lent'
        /\ walk'.op # "invlpg"
    BY <1>3, <2>1, <2>3
  <2>6. \A u \in Pages : tlb'[u] \in {Absent, Translate(u)}
    BY <1>1, <1>2, <2>1 DEF TlbInv
  <2> QED
    BY <1>1, <2>1, <2>4, <2>5, <2>6, TablesKept
<1>4. ASSUME NEW v \in Pages, Access(v) PROVE SpaceInv'
  <2>1. /\ UNCHANGED <<root, mem, space, walk, lent, owned>>
        /\ tlb' = [tlb EXCEPT ![v] = Translate(v)]
    BY <1>4 DEF Access, frames
  <2>2. Translate(v) \in Entry
    BY DEF SpaceInv, VmmTypes, SpaceExact
  <2>3. tlb' \in [Pages -> Entry]
    BY <1>1, <2>1, <2>2
  <2>4. \A u \in Pages : \/ tlb'[u] \in {Absent, Translate(u)}
                         \/ walk'.op = "invlpg" /\ walk'.page = u
    BY <1>1, <2>1 DEF TlbInv
  <2> QED
    BY <1>1, <2>1, <2>3, <2>4, TablesKept DEF WalkInv
<1>5. CASE Descend
  <2>1. /\ walk.op # "invlpg" /\ walk # Idle /\ walk.level < 4 /\ Here # Absent
        /\ walk' = [walk EXCEPT !.level = @ + 1, !.table = Here]
        /\ UNCHANGED <<root, mem, space, tlb, lent, owned>>
    BY <1>2, <1>5 DEF Descend, Deeper, Walking, frames
  <2>2. /\ walk \in Calls /\ walk.page \in Pages /\ walk.level \in Level
        /\ walk.table \in TablesAt[walk.level] /\ walk.table \in Frame
        /\ Slot \in Index /\ Here \in Entry /\ Here = path(walk.page)[walk.level + 1]
    BY <2>1, WalkStands
  <2>3. walk.level \in 1..3 /\ walk.level + 1 \in Level /\ Here \in Frame
    BY <2>1, <2>2 DEF Level, Entry
  <2>4. Here \in TablesAt[walk.level + 1]
    <3>1. TablesAt[walk.level + 1] = BelowIn(mem, TablesAt[walk.level])
      BY <2>3, TablesAtIs DEF IsTables
    <3> QED
      BY <2>1, <2>2, <3>1 DEF BelowIn, Here
  <2>5. /\ walk' \in Calls /\ walk'.page = walk.page /\ walk'.op = walk.op
        /\ walk'.level = walk.level + 1 /\ walk'.table = Here /\ walk'.target = walk.target
    BY <2>1, <2>2, <2>3 DEF Calls
  <2>6. \A u \in Pages : tlb'[u] \in {Absent, Translate(u)}
    BY <1>1, <2>1 DEF TlbInv
  <2>7. /\ walk'.table \in TablesAt[walk'.level]
        /\ walk'.table = path(walk'.page)[walk'.level]
        /\ walk'.op = "map" => walk'.target \in lent'
        /\ walk'.op # "invlpg"
    BY <1>1, <2>1, <2>2, <2>4, <2>5 DEF WalkInv
  <2> QED
    BY <1>1, <2>1, <2>5, <2>6, <2>7, TablesKept
<1>6. CASE NoMemory \/ MapExists \/ NotFound
  <2>1. walk.op # "invlpg" /\ walk' = Idle /\ UNCHANGED <<root, mem, space, tlb, lent, owned>>
    BY <1>6 DEF NoMemory, MapExists, NotFound, Walking, frames
  <2>2. \A u \in Pages : tlb'[u] \in {Absent, Translate(u)}
    BY <1>1, <2>1 DEF TlbInv
  <2> QED
    BY <1>1, <2>1, <2>2, TablesKept
<1>7. CASE Invalidate
  <2>1. /\ walk.op = "invlpg" /\ walk' = Idle /\ UNCHANGED <<root, mem, space, lent, owned>>
        /\ tlb' = [tlb EXCEPT ![walk.page] = Absent]
    BY <1>7 DEF Invalidate, Walking, frames
  <2>2. \A u \in Pages : tlb'[u] \in {Absent, Translate(u)}
    BY <1>1, <2>1 DEF TlbInv
  <2>3. tlb' \in [Pages -> Entry]
    BY <1>1, <2>1 DEF Entry
  <2> QED
    BY <1>1, <2>1, <2>2, <2>3, TablesKept
<1>8. ASSUME NEW v \in Pages, NEW p \in Frame, Map(v, p) PROVE SpaceInv'
  BY <1>3, <1>8 DEF Map, Entry
<1>9. ASSUME NEW v \in Pages, Unmap(v) PROVE SpaceInv'
  BY <1>3, <1>9 DEF Unmap, Entry
<1> QED
  BY <1>4, <1>5, <1>6, <1>7, <1>8, <1>9


(* The root table is taken and cleared. *)
LEMMA SpaceInitKeeps == ASSUME PmmInv, SpaceInv, PmmInv', SpaceInit PROVE SpaceInv'
<1>1. PICK f \in Frame : AllocThis(f) /\ root' = f /\ mem' = [mem EXCEPT ![f] = Empty]
  BY DEF SpaceInit
<1>2. root = Absent /\ UNCHANGED <<walk, tlb, lent, space>>
  BY DEF SpaceInit
<1>3. f # Absent /\ f \in Entry
  BY VmmAssumption DEF Entry
<1>4. mem' \in [Frame -> [Index -> Entry]] /\ \A i \in Index : mem'[f][i] = Absent
  BY <1>1 DEF Empty, Entry, SpaceInv, VmmTypes
<1>5. /\ All(TablesAt) = {}
      /\ \A v \in Pages : Translate(v) = Absent
  BY <1>2, NoTables, TablesAtIs, TranslateIs DEF path
<1>6. /\ All(TablesAt') = {f} /\ IsTree(TablesAt', mem')
      /\ \A v \in Pages : Translate(v)' = Absent
  <2>1. IsTables(TablesAt', mem', root') /\ \A i \in Index : mem'[root'][i] = Absent
    BY <1>1, <1>4, TablesAtIs
  <2>2. /\ All(TablesAt') = {root'} \ {Absent} /\ IsTree(TablesAt', mem')
        /\ \A v \in Pages : PathIn(mem', root', v)[5] = Absent
    BY <2>1, NoTables
  <2> QED
    BY <1>1, <1>3, <2>2, TranslateIs
<1>7. walk = Idle
  <2>1. ASSUME walk # Idle PROVE FALSE
    BY <1>5, <2>1, WalkStands DEF All
  <2> QED
    BY <2>1
<1>8. VmmTypes'
  BY <1>1, <1>2, <1>3, <1>4 DEF SpaceInv, VmmTypes
<1>9. SpaceExact'
  BY <1>2, <1>5, <1>6 DEF SpaceInv, SpaceExact
<1>10. FramesAccounted'
  <2>1. owned = lent /\ owned' = owned \cup {f} /\ f \notin owned
    BY <1>1, <1>5, AccountedIs DEF SpaceInv, Accounted, AllocThis, PmmInv, PmmTypes
  <2> QED
    BY <1>2, <1>6, <2>1, AccountedIs DEF Accounted
<1>11. WalkInv'
  BY <1>2, <1>7 DEF WalkInv
<1>12. TlbInv'
  BY <1>2, <1>5, <1>6 DEF SpaceInv, TlbInv
<1> QED
  BY <1>8, <1>9, <1>10, <1>11, <1>12 DEF SpaceInv

(* get_or_alloc_next_table hangs a cleared table below the current one. *)
LEMMA AllocTableKeeps == ASSUME PmmInv, SpaceInv, PmmInv', AllocTable PROVE SpaceInv'
<1> DEFINE k == walk.level
           t == walk.table
           w == walk.page
<1>1. PICK f \in Frame : /\ AllocThis(f) /\ Deeper(f)
                         /\ mem' = [mem EXCEPT ![f] = Empty, ![t][Slot] = f]
  BY DEF AllocTable, vmm_zero_page
<1>2. /\ walk.op = "map" /\ k < 4 /\ Here = Absent
      /\ UNCHANGED <<root, tlb, lent, space>>
  BY DEF AllocTable, Walking
<1>3. walk # Idle
  BY <1>2 DEF Idle
<1>4. /\ walk \in Calls /\ w \in Pages /\ k \in Level /\ t \in TablesAt[k] /\ t \in Frame
      /\ t = path(w)[k] /\ Slot \in Index
  BY <1>3, WalkStands
<1>5. k \in 1..3 /\ k + 1 \in Level
  BY <1>2, <1>4 DEF Level
<1>6. All(TablesAt) \subseteq Frame /\ IsTree(TablesAt, mem)
  BY TablesAreFrames DEF SpaceInv
<1>7. /\ owned = All(TablesAt) \cup lent /\ All(TablesAt) \cap lent = {}
      /\ owned' = owned \cup {f} /\ f \notin owned
  BY <1>1, AccountedIs DEF SpaceInv, Accounted, AllocThis, PmmInv, PmmTypes
<1>8. f # Absent /\ f \in Entry /\ t # f
  BY <1>4, <1>7, VmmAssumption DEF Entry, All
<1>9. mem \in [Frame -> [Index -> Entry]]
  BY DEF SpaceInv, VmmTypes
<1>10. mem' \in [Frame -> [Index -> Entry]]
  BY <1>1, <1>4, <1>8, <1>9 DEF Empty, Entry
<1>11. HangsBelow(mem', mem, t, Slot, f)
  <2>1. \A g \in Frame : g # t /\ g # f => mem'[g] = mem[g]
    BY <1>1, <1>9
  <2>2. \A i \in Index : mem'[f][i] = Absent
    BY <1>1, <1>8, <1>9 DEF Empty
  <2>3. \A i \in Index : mem'[t][i] = IF i = Slot THEN f ELSE mem[t][i]
    BY <1>1, <1>4, <1>8, <1>9
  <2> QED
    BY <2>1, <2>2, <2>3 DEF HangsBelow
<1>12. mem[t][Slot] = Absent /\ Slot = w[k]
  BY <1>2 DEF Here, Slot
<1> DEFINE U == Hung(TablesAt, k, f)
<1> HIDE DEF k, t, w
<1>13. IsTables(TablesAt, mem, root) /\ f \notin All(TablesAt)
  BY <1>7, TablesAtIs
<1>14. IsTables(U, mem', root) /\ IsTree(U, mem') /\ All(U) = All(TablesAt) \cup {f}
  <2>1. IsTables(U, mem', root)
    BY <1>4, <1>5, <1>6, <1>8, <1>11, <1>12, <1>13, NewTable
  <2>2. IsTree(U, mem')
    BY <1>4, <1>5, <1>6, <1>8, <1>11, <1>12, <1>13, NewTable
  <2>3. All(U) = All(TablesAt) \cup {f}
    BY <1>5, HungAll
  <2> QED
    BY <2>1, <2>2, <2>3
<1>15. \A v \in Pages :
         /\ PathIn(mem', root, v)[5] = PathIn(mem, root, v)[5]
         /\ PathIn(mem, root, v)[k] = t /\ v[k] = Slot => PathIn(mem', root, v)[k + 1] = f
  BY <1>4, <1>5, <1>6, <1>7, <1>8, <1>11, <1>12, <1>13, NewTablePaths
<1>16. f \in U[k + 1]
  BY <1>5 DEF Hung
<1> HIDE DEF U
<1>17. TablesAt' = U
  <2>1. IsTables(TablesAt', mem', root)
    BY <1>2, TablesAtIs
  <2> QED
    BY <1>14, <2>1, OneSolution
<1>18. \A v \in Pages : Translate(v)' = Translate(v)
  BY <1>2, <1>15, TranslateIs DEF path
<1>19. VmmTypes'
  BY <1>2, <1>10 DEF SpaceInv, VmmTypes
<1>20. SpaceExact' /\ TlbInv'
  <2>1. walk.op # "invlpg"
    BY <1>2
  <2> QED
    BY <1>2, <1>18, <2>1 DEF SpaceInv, SpaceExact, TlbInv
<1>21. FramesAccounted'
  <2>1. Accounted(owned', U, lent', mem')
    BY <1>2, <1>7, <1>14 DEF Accounted
  <2> QED
    BY <1>17, <2>1, AccountedIs
<1>22. WalkInv'
  <2>1. /\ walk' \in Calls /\ walk'.page = w /\ walk'.op = "map"
        /\ walk'.level = k + 1 /\ walk'.table = f /\ walk'.target = walk.target
    BY <1>1, <1>2, <1>4, <1>5 DEF Calls, Deeper, k, w
  <2>2. walk.target \in lent
    BY <1>2, <1>3 DEF SpaceInv, WalkInv
  <2>3. walk'.table = PathIn(mem', root', walk'.page)[walk'.level]
    BY <1>2, <1>4, <1>12, <1>15, <2>1 DEF path
  <2> QED
    BY <1>2, <1>16, <1>17, <2>1, <2>2, <2>3 DEF WalkInv, path
<1> QED
  BY <1>19, <1>20, <1>21, <1>22 DEF SpaceInv

(* A leaf is written: the page of the call is translated anew, to x, and   *)
(* no other page is.                                                       *)
LEMMA LeafKeeps ==
  ASSUME PmmInv, SpaceInv, PmmInv', walk # Idle, walk.level = 4,
         NEW x \in lent \cup {Absent},
         mem' = [mem EXCEPT ![walk.table][Slot] = x],
         space' = [space EXCEPT ![walk.page] = x],
         UNCHANGED <<owned, root, tlb, lent>>,
         \/ walk.op = "map" /\ Here = Absent /\ walk' = Idle
         \/ walk.op = "unmap" /\ walk' = [walk EXCEPT !.op = "invlpg"]
  PROVE  SpaceInv'
<1> DEFINE t == walk.table
           w == walk.page
<1>1. /\ walk \in Calls /\ w \in Pages /\ t \in TablesAt[4] /\ t \in Frame
      /\ t = path(w)[4] /\ t # Absent /\ Slot \in Index /\ Here = path(w)[4 + 1]
  BY WalkStands
<1>2. Slot = w[4]
  BY DEF Slot
<1>3. All(TablesAt) \subseteq Frame /\ IsTree(TablesAt, mem)
  BY TablesAreFrames DEF SpaceInv
<1>4. /\ mem \in [Frame -> [Index -> Entry]] /\ space \in [Pages -> Entry] /\ x \in Entry
      /\ \A v \in Pages : space[v] = Absent \/ space[v] \in lent
  BY DEF SpaceInv, VmmTypes, Entry
<1>5. mem' \in [Frame -> [Index -> Entry]] /\ space' \in [Pages -> Entry]
  BY <1>1, <1>4
<1>6. OneEntry(mem', mem, t, w[4], x)
  BY <1>1, <1>2, <1>4 DEF OneEntry
<1>7. \A v \in Pages : space'[v] = IF v = w THEN x ELSE space[v]
  BY <1>1, <1>4
<1> HIDE DEF t, w
<1>8. IsTables(TablesAt, mem, root) /\ t = PathIn(mem, root, w)[4]
  BY <1>1, TablesAtIs DEF path
<1>9. /\ IsTables(TablesAt, mem', root) /\ IsTree(TablesAt, mem')
      /\ \A v \in Pages : \A k \in Level : PathIn(mem', root, v)[k] = PathIn(mem, root, v)[k]
      /\ \A v \in Pages : PathIn(mem', root, v)[5] = IF v = w THEN x ELSE PathIn(mem, root, v)[5]
  <2>1. OneMoved(TablesAt, mem', mem, root, w, x)
    BY <1>1, <1>3, <1>6, <1>8, LeafChange
  <2> QED
    BY <2>1 DEF OneMoved
<1>10. TablesAt' = TablesAt
  <2>1. IsTables(TablesAt', mem', root)
    BY TablesAtIs
  <2> QED
    BY <1>9, <2>1, OneSolution
<1>11. \A v \in Pages : Translate(v)' = IF v = w THEN x ELSE Translate(v)
  BY <1>9, TranslateIs DEF path
<1>12. VmmTypes'
  BY <1>4, <1>5, <1>7 DEF SpaceInv, VmmTypes
<1>13. SpaceExact'
  BY <1>7, <1>11 DEF SpaceInv, SpaceExact
<1>14. FramesAccounted'
  <2>1. Accounted(owned, TablesAt, lent, mem)
    BY AccountedIs DEF SpaceInv
  <2>2. Accounted(owned', TablesAt, lent', mem')
    BY <1>9, <2>1 DEF Accounted
  <2> QED
    BY <1>10, <2>2, AccountedIs
<1>15. CASE walk.op = "map" /\ Here = Absent /\ walk' = Idle
  <2>1. Translate(w) = Absent
    <3>1. 4 + 1 = 5
      OBVIOUS
    <3> QED
      BY <1>1, <1>15, <3>1, TranslateIs
  <2>2. TlbInv'
    <3>1. \A v \in Pages : tlb[v] \in {Absent, Translate(v)}
      BY <1>15 DEF SpaceInv, TlbInv
    <3> QED
      BY <1>11, <2>1, <3>1 DEF TlbInv
  <2> QED
    BY <1>12, <1>13, <1>14, <1>15, <2>2 DEF SpaceInv, WalkInv
<1>16. CASE walk.op = "unmap" /\ walk' = [walk EXCEPT !.op = "invlpg"]
  <2>1. /\ walk' \in Calls /\ walk'.op = "invlpg" /\ walk'.page = w
        /\ walk'.level = 4 /\ walk'.table = t
    BY <1>1, <1>16 DEF Calls, t, w
  <2>2. TlbInv'
    <3>1. \A v \in Pages : tlb[v] \in {Absent, Translate(v)}
      BY <1>16 DEF SpaceInv, TlbInv
    <3> QED
      BY <1>11, <2>1, <3>1 DEF TlbInv
  <2>3. walk'.table = PathIn(mem', root', walk'.page)[walk'.level]
    <3>1. 4 \in Level
      BY DEF Level
    <3> QED
      BY <1>1, <1>8, <1>9, <2>1, <3>1 DEF path
  <2>4. WalkInv'
    BY <1>1, <1>10, <2>1, <2>3 DEF WalkInv, path
  <2> QED
    BY <1>12, <1>13, <1>14, <2>2, <2>4 DEF SpaceInv
<1> QED
  BY <1>15, <1>16

(* Every step keeps the invariant. *)
LEMMA NextSpace == PmmInv /\ SpaceInv /\ PmmInv' /\ [VmmNext]_allvars => SpaceInv'
<1> SUFFICES ASSUME PmmInv, SpaceInv, PmmInv', [VmmNext]_allvars PROVE SpaceInv'
  OBVIOUS
<1>1. CASE SetUp \/ Lend \/ (\E f \in Frame : GiveBack(f)) \/ UNCHANGED allvars
  BY <1>1, LendingKeeps
<1>2. CASE \/ \E v \in Pages : (\E p \in Frame : Map(v, p)) \/ Unmap(v) \/ Access(v)
           \/ Descend \/ NoMemory \/ MapExists \/ NotFound \/ Invalidate
  BY <1>2, ReadingKeeps
<1>3. CASE SpaceInit
  BY <1>3, SpaceInitKeeps
<1>4. CASE AllocTable
  BY <1>4, AllocTableKeeps
<1>5. CASE MapLeaf
  <2>1. walk # Idle /\ walk.op = "map" /\ walk.level = 4 /\ Here = Absent /\ walk' = Idle
    BY <1>5 DEF MapLeaf, Walking, Idle
  <2>2. walk.target \in lent
    BY <2>1 DEF SpaceInv, WalkInv
  <2>3. /\ mem' = [mem EXCEPT ![walk.table][Slot] = walk.target]
        /\ space' = [space EXCEPT ![walk.page] = walk.target]
        /\ UNCHANGED <<owned, root, tlb, lent>>
    BY <1>5 DEF MapLeaf, frames
  <2> QED
    BY <2>1, <2>2, <2>3, LeafKeeps
<1>6. CASE ClearLeaf
  <2>1. /\ walk # Idle /\ walk.op = "unmap" /\ walk.level = 4
        /\ walk' = [walk EXCEPT !.op = "invlpg"]
    BY <1>6 DEF ClearLeaf, Walking, Idle
  <2>2. /\ mem' = [mem EXCEPT ![walk.table][Slot] = Absent]
        /\ space' = [space EXCEPT ![walk.page] = Absent]
        /\ UNCHANGED <<owned, root, tlb, lent>>
    BY <1>6 DEF ClearLeaf, frames
  <2> QED
    BY <2>1, <2>2, LeafKeeps
<1> QED
  BY <1>1, <1>2, <1>3, <1>4, <1>5, <1>6 DEF VmmNext

(* The invariant of the address space. *)
THEOREM SpaceInvariance == VmmSpec => []SpaceInv
<1> QED
  BY InitSpace, NextSpace, FrameInvariance, PTL DEF VmmSpec

(* Mapping or unmapping one page never moves another, whatever tables they *)
(* share and whatever other users of the allocator do: the tables always   *)
(* translate a page to the frame it was last mapped to.                    *)
THEOREM TranslationExact == VmmSpec => []SpaceExact
<1>1. SpaceInv => SpaceExact
  BY DEF SpaceInv
<1> QED
  BY <1>1, SpaceInvariance, PTL

(* The frames handed out are the tables, which form a tree, and what other *)
(* callers hold: vmm_map_page loses none when it runs out of memory, and   *)
(* no table is mapped, shared or given away.                               *)
THEOREM NoFrameLost == VmmSpec => []FramesAccounted
<1>1. SpaceInv => FramesAccounted
  BY DEF SpaceInv
<1> QED
  BY <1>1, SpaceInvariance, PTL

(* Whenever the processor walks the tables, between calls the TLB          *)
(* remembers nothing that vmm_unmap_page has dropped.                      *)
THEOREM TlbCoherent == VmmSpec => []TlbFresh
<1>1. SpaceInv => TlbFresh
  BY DEF SpaceInv, TlbInv, TlbFresh, Idle
<1> QED
  BY <1>1, SpaceInvariance, PTL

-----------------------------------------------------------------------------
(* The kernel heap. *)

(* The arenas lie below the 32-bit mask: no block is as large as the mask. *)
(* Requests may be.                                                        *)
ArenasBelowMask == \A arena \in Arenas : arena[2] + Align <= MaskSize

UsedIn(h) == {a \in DOMAIN h : h[a] # Junk /\ ~h[a].free}
IsHeader(h, a) == a \in DOMAIN h /\ h[a] \in Header
EndOf(h, a) == a + HeaderSize + h[a].size

(* The list l covers the memory from lo to hi, block by block, and no free *)
(* block follows a free one.                                               *)
IsTiling(lo, hi, h, l) ==
  /\ l \in Seq(Nat) /\ Len(l) >= 1 /\ l[1] = lo
  /\ \A i \in 1..Len(l) : IsHeader(h, l[i]) /\ (l[i] + HeaderSize) % Align = 0
  /\ EndOf(h, l[Len(l)]) = hi
  /\ \A i \in 1..(Len(l) - 1) : EndOf(h, l[i]) = l[i + 1]
  /\ \A i, j \in 1..Len(l) : i < j => EndOf(h, l[i]) <= l[j]
  /\ \A i \in 1..(Len(l) - 1) : ~(h[l[i]].free /\ h[l[i + 1]].free)

(* The inductive invariant: a header that says used, on the list or left   *)
(* behind in memory, is that of a block that its owner still has.          *)
OwnersKept(h, l, o) ==
  /\ UsedIn(h) = DOMAIN o
  /\ \A a \in UsedIn(h) : Roundable(o[a]) => h[a].size >= o[a]
  /\ \A a \in UsedIn(h) : \E i \in 1..Len(l) : l[i] = a

HeapInv == /\ HeapTypeOK
           /\ g_heap_bytes # 0 => g_heap_bytes + Align <= MaskSize
           /\ OwnersKept(hdr, list, live)
           /\ g_heap_bytes = 0 => hdr = <<>> /\ list = <<>>
           /\ g_heap_bytes # 0 => /\ DOMAIN hdr = 0..(g_heap_base + g_heap_bytes)
                                  /\ IsTiling(g_heap_base, g_heap_base + g_heap_bytes, hdr, list)

(* What is assumed of the sizes. *)
LEMMA HeapConstants == /\ Align \in Nat \ {0} /\ HeaderSize \in Nat \ {0} /\ MaskSize \in Nat \ {0}
                       /\ Junk \notin Header
BY HeapAssumption DEF Header

(* Rounding up to a multiple of the alignment. *)
LEMMA RoundedToAlign ==
  ASSUME NEW v \in Nat
  PROVE  LET r == ((v + Align - 1) \div Align) * Align
         IN  r \in Nat /\ v <= r /\ r < v + Align /\ r % Align = 0
<1> DEFINE q == (v + Align - 1) \div Align
<1> USE HeapConstants
<1>1. q \in Nat /\ Align * q <= v + Align - 1 /\ v + Align - 1 < Align * q + Align
  OBVIOUS
<1> HIDE DEF q
<1>2. q * Align = Align * q /\ q * Align \in Nat
  BY <1>1
<1>3. (q * Align) % Align = 0
  BY <1>1
<1>4. v <= q * Align /\ q * Align < v + Align
  BY <1>1, <1>2
<1> QED
  BY <1>2, <1>3, <1>4 DEF q

(* The rounding of kmem_alloc, for a size that does not reach the mask. *)
LEMMA RoundUpIs ==
  ASSUME NEW v \in Nat, v + Align <= MaskSize
  PROVE  RoundUp(v) \in Nat /\ v <= RoundUp(v) /\ RoundUp(v) < v + Align /\ RoundUp(v) % Align = 0
<1>1. (v + Align - 1) % MaskSize = v + Align - 1
  BY HeapConstants
<1>2. RoundUp(v) = ((v + Align - 1) \div Align) * Align
  BY <1>1 DEF RoundUp
<1> QED
  BY <1>2, RoundedToAlign

(* It gives a multiple of the alignment, also where it wraps. *)
LEMMA RoundUpAligned ==
  ASSUME NEW v \in Nat
  PROVE  RoundUp(v) \in Nat /\ RoundUp(v) % Align = 0
<1> DEFINE q == ((v + Align - 1) % MaskSize) \div Align
<1>1. q \in Nat
  <2>1. (v + Align - 1) % MaskSize \in Nat
    BY HeapConstants
  <2> QED
    BY <2>1, HeapConstants
<1> HIDE DEF q
<1>2. q * Align \in Nat /\ (q * Align) % Align = 0
  BY <1>1, HeapConstants
<1> QED
  BY <1>2 DEF RoundUp, q

(* The sum of multiples of the alignment is one. *)
LEMMA AlignedSum ==
  ASSUME NEW x \in Nat, NEW y \in Nat, x % Align = 0, y % Align = 0
  PROVE  (x + y) % Align = 0
<1> USE HeapConstants
<1>1. PICK p \in Nat : x = Align * p
  <2>1. x = Align * (x \div Align) /\ x \div Align \in Nat
    OBVIOUS
  <2> QED
    BY <2>1
<1>2. PICK q \in Nat : y = Align * q
  <2>1. y = Align * (y \div Align) /\ y \div Align \in Nat
    OBVIOUS
  <2> QED
    BY <2>1
<1>3. x + y = Align * (p + q) /\ p + q \in Nat
  BY <1>1, <1>2
<1>4. (Align * (p + q)) % Align = 0
  <2>1. \A k \in Nat : (Align * k) % Align = 0
    OBVIOUS
  <2> QED
    BY <2>1, <1>3
<1> QED
  BY <1>3, <1>4

(* Before kmem_init there is no block. *)
LEMMA InitHeap == HeapInit => HeapInv
<1> SUFFICES ASSUME HeapInit PROVE HeapInv
  OBVIOUS
<1>1. DOMAIN hdr = {} /\ DOMAIN live = {} /\ hdr = <<>> /\ list = <<>> /\ given = {}
  BY DEF HeapInit
<1>2. HeapTypeOK
  BY <1>1 DEF HeapTypeOK, HeapInit
<1>3. UsedIn(hdr) = {}
  BY <1>1 DEF UsedIn
<1> QED
  BY <1>1, <1>2, <1>3 DEF HeapInv, OwnersKept, HeapInit

(* kmem_init: one free block covers the arena from its aligned start. *)
LEMMA KmemInitKeeps ==
  ASSUME HeapInv, NEW b \in Nat, NEW n \in Nat, n + Align <= MaskSize, KmemInit(b, n)
  PROVE  HeapInv'
<1> DEFINE payload == ((b + HeaderSize + Align - 1) \div Align) * Align
           offset == payload - HeaderSize - b
           first == [size |-> n - offset - HeaderSize, free |-> TRUE]
<1> USE HeapConstants
<1>1. payload \in Nat /\ b + HeaderSize <= payload /\ payload % Align = 0
  <2>1. b + HeaderSize \in Nat
    OBVIOUS
  <2> QED
    BY <2>1, RoundedToAlign
<1>2. /\ n > offset + HeaderSize
      /\ g_heap_base' = b + offset /\ g_heap_bytes' = n - offset
      /\ hdr' = [a \in 0..(b + n) |-> IF a = b + offset THEN first ELSE Junk]
      /\ list' = <<b + offset>> /\ live' = live /\ given' = given
      /\ g_heap_bytes = 0
  BY DEF KmemInit
<1> HIDE DEF payload
<1>3. offset \in Nat /\ b + offset \in 0..(b + n) /\ b + offset + HeaderSize = payload
      /\ n - offset - HeaderSize \in Nat /\ n - offset \in Nat /\ n - offset # 0
      /\ (b + offset) + (n - offset) = b + n
  BY <1>1, <1>2
<1>4. first \in Header /\ first.free = TRUE /\ first.size = n - offset - HeaderSize
  BY <1>3 DEF Header
<1> DEFINE a0 == b + offset
<1> HIDE DEF first
<1>5. /\ hdr' \in [0..(b + n) -> {Junk} \cup Header] /\ DOMAIN hdr' = 0..(b + n)
      /\ hdr'[a0] = first /\ a0 \in 0..(b + n) /\ a0 \in Nat
  BY <1>2, <1>3, <1>4
<1>6. UsedIn(hdr') = {}
  BY <1>2, <1>4, <1>5 DEF UsedIn
<1>7. DOMAIN live = {}
  <2>1. DOMAIN hdr = {}
    BY <1>2 DEF HeapInv
  <2>2. UsedIn(hdr) = {}
    BY <2>1 DEF UsedIn
  <2> QED
    BY <2>2 DEF HeapInv, OwnersKept
<1>8. OwnersKept(hdr, list, live)'
  BY <1>2, <1>6, <1>7 DEF OwnersKept
<1>9. list' \in Seq(Nat) /\ Len(list') = 1 /\ list'[1] = a0
  BY <1>2, <1>5
<1>10. HeapTypeOK'
  BY <1>2, <1>3, <1>5, <1>9 DEF HeapTypeOK, HeapInv
<1>11. EndOf(hdr', a0) = b + n /\ IsHeader(hdr', a0) /\ (a0 + HeaderSize) % Align = 0
  BY <1>1, <1>3, <1>4, <1>5 DEF EndOf, IsHeader
<1> HIDE DEF a0
<1>12. IsTiling(a0, b + n, hdr', list')
  BY <1>9, <1>11 DEF IsTiling
<1>13. g_heap_base' = a0 /\ g_heap_base' + g_heap_bytes' = b + n /\ g_heap_bytes' # 0
  BY <1>2, <1>3 DEF a0
<1>14. g_heap_bytes' + Align <= MaskSize
  <2>1. g_heap_bytes' = n - offset /\ offset \in Nat
    BY <1>2, <1>3
  <2> HIDE DEF offset
  <2> QED
    BY <2>1
<1> QED
  BY <1>5, <1>8, <1>10, <1>12, <1>13, <1>14 DEF HeapInv

(* Headers that say the same of the listed blocks, or call fewer of them   *)
(* free, describe the same tiling.                                         *)
OnTiling(h, g, l) ==
  \A i \in 1..Len(l) : /\ IsHeader(g, l[i]) /\ EndOf(g, l[i]) = EndOf(h, l[i])
                       /\ g[l[i]].free => h[l[i]].free

LEMMA SameTiling ==
  ASSUME NEW lo, NEW hi, NEW h, NEW g, NEW l, IsTiling(lo, hi, h, l), OnTiling(h, g, l)
  PROVE  IsTiling(lo, hi, g, l)
<1>1. /\ \A i \in 1..Len(l) : EndOf(g, l[i]) = EndOf(h, l[i])
      /\ \A i \in 1..Len(l) : IsHeader(g, l[i])
      /\ \A i \in 1..Len(l) : g[l[i]].free => h[l[i]].free
  BY Zenon DEF OnTiling
<1>2. /\ l \in Seq(Nat) /\ Len(l) >= 1 /\ l[1] = lo
      /\ \A i \in 1..Len(l) : (l[i] + HeaderSize) % Align = 0
      /\ EndOf(h, l[Len(l)]) = hi
      /\ \A i \in 1..(Len(l) - 1) : EndOf(h, l[i]) = l[i + 1]
      /\ \A i, j \in 1..Len(l) : i < j => EndOf(h, l[i]) <= l[j]
      /\ \A i \in 1..(Len(l) - 1) : ~(h[l[i]].free /\ h[l[i + 1]].free)
  BY DEF IsTiling
<1>3. Len(l) \in 1..Len(l) /\ \A i \in 1..(Len(l) - 1) : i \in 1..Len(l) /\ i + 1 \in 1..Len(l)
  BY <1>2
<1>4. EndOf(g, l[Len(l)]) = hi
  BY <1>1, <1>2, <1>3
<1>5. \A i \in 1..(Len(l) - 1) : EndOf(g, l[i]) = l[i + 1]
  BY <1>1, <1>2, <1>3
<1>6. \A i, j \in 1..Len(l) : i < j => EndOf(g, l[i]) <= l[j]
  BY <1>1, <1>2, <1>3
<1>7. \A i \in 1..(Len(l) - 1) : ~(g[l[i]].free /\ g[l[i + 1]].free)
  BY <1>1, <1>2, <1>3, Zenon
<1> QED
  BY <1>1, <1>2, <1>4, <1>5, <1>6, <1>7 DEF IsTiling

(* Listed blocks have a length, and come one behind the other. *)
LEMMA TilingBounds ==
  ASSUME NEW lo, NEW hi, NEW h, NEW l, IsTiling(lo, hi, h, l)
  PROVE  /\ Len(l) \in Nat /\ Len(l) >= 1
         /\ \A j \in 1..Len(l) : /\ l[j] \in Nat /\ l[j] \in DOMAIN h /\ h[l[j]] \in Header
                                 /\ h[l[j]].size \in Nat /\ h[l[j]].free \in BOOLEAN
                                 /\ EndOf(h, l[j]) \in Nat /\ l[j] < EndOf(h, l[j])
         /\ \A j, k \in 1..Len(l) : j < k => EndOf(h, l[j]) <= l[k] /\ l[j] < l[k]
         /\ \A j, k \in 1..Len(l) : l[j] = l[k] => j = k
<1> USE HeapConstants
<1>1. /\ l \in Seq(Nat) /\ Len(l) >= 1
      /\ \A j \in 1..Len(l) : IsHeader(h, l[j])
      /\ \A j, k \in 1..Len(l) : j < k => EndOf(h, l[j]) <= l[k]
  BY DEF IsTiling
<1>2. ASSUME NEW j \in 1..Len(l)
      PROVE  /\ l[j] \in Nat /\ l[j] \in DOMAIN h /\ h[l[j]] \in Header
             /\ h[l[j]].size \in Nat /\ h[l[j]].free \in BOOLEAN
             /\ EndOf(h, l[j]) \in Nat /\ l[j] < EndOf(h, l[j])
  <2>1. l[j] \in Nat
    BY <1>1
  <2>2. l[j] \in DOMAIN h /\ h[l[j]] \in Header
    BY <1>1 DEF IsHeader
  <2>3. h[l[j]].size \in Nat /\ h[l[j]].free \in BOOLEAN
    BY <2>2 DEF Header
  <2> QED
    BY <2>1, <2>2, <2>3 DEF EndOf
<1>3. \A j, k \in 1..Len(l) : j < k => EndOf(h, l[j]) <= l[k] /\ l[j] < l[k]
  <2> SUFFICES ASSUME NEW j \in 1..Len(l), NEW k \in 1..Len(l), j < k
               PROVE  EndOf(h, l[j]) <= l[k] /\ l[j] < l[k]
    OBVIOUS
  <2>1. EndOf(h, l[j]) <= l[k]
    BY <1>1
  <2>2. l[j] \in Nat /\ l[k] \in Nat /\ EndOf(h, l[j]) \in Nat /\ l[j] < EndOf(h, l[j])
    BY <1>2
  <2> QED
    BY <2>1, <2>2
<1>4. \A j, k \in 1..Len(l) : l[j] = l[k] => j = k
  <2> SUFFICES ASSUME NEW j \in 1..Len(l), NEW k \in 1..Len(l), l[j] = l[k]
               PROVE  j = k
    OBVIOUS
  <2>1. l[j] \in Nat /\ l[k] \in Nat
    BY <1>2
  <2>2. ~(j < k) /\ ~(k < j)
    BY <2>1, <1>3
  <2> QED
    BY <2>2
<1> QED
  BY <1>1, <1>2, <1>3, <1>4

(* What an owner writes stays inside its block: no listed header is hit. *)
LEMMA FillKeeps ==
  ASSUME HeapInv, NEW a \in DOMAIN live, Fill(a)
  PROVE  HeapInv'
<1> USE HeapConstants
<1> DEFINE filled == IF live[a] <= hdr[a].size THEN live[a] ELSE hdr[a].size
<1> DEFINE hit(x) == x + HeaderSize > a + HeaderSize /\ x <= a + HeaderSize + filled - 1 /\ x # a
<1>1. /\ hdr' = [x \in DOMAIN hdr |-> IF hit(x) THEN Junk ELSE hdr[x]]
      /\ g_heap_base' = g_heap_base /\ g_heap_bytes' = g_heap_bytes
      /\ list' = list /\ live' = live /\ given' = given
  BY DEF Fill
<1>2. HeapTypeOK /\ OwnersKept(hdr, list, live)
  BY DEF HeapInv
<1>3. a \in UsedIn(hdr) /\ live[a] \in Nat
  BY <1>2 DEF OwnersKept, HeapTypeOK
<1>4. PICK k \in 1..Len(list) : list[k] = a
  BY <1>2, <1>3 DEF OwnersKept
<1>5. g_heap_bytes # 0
  <2>1. g_heap_bytes = 0 => DOMAIN hdr = {}
    BY DEF HeapInv
  <2> QED
    BY <2>1, <1>3 DEF UsedIn
<1>6. /\ IsTiling(g_heap_base, g_heap_base + g_heap_bytes, hdr, list)
      /\ DOMAIN hdr = 0..(g_heap_base + g_heap_bytes)
  BY <1>5 DEF HeapInv
<1>7. a \in Nat /\ hdr[a].size \in Nat /\ filled \in Nat /\ filled <= hdr[a].size
  <2>1. a \in Nat /\ hdr[a].size \in Nat
    BY <1>4, <1>6, TilingBounds
  <2> QED
    BY <2>1, <1>3
<1> HIDE DEF filled
<1>8. ASSUME NEW i \in 1..Len(list) PROVE hdr'[list[i]] = hdr[list[i]]
  <2>1. list[i] \in DOMAIN hdr /\ list[i] \in Nat /\ hdr[list[i]].size \in Nat
    BY <1>6, TilingBounds
  <2>2. ~hit(list[i])
    <3>1. CASE i = k
      BY <3>1, <1>4
    <3>2. CASE i < k
      <4>1. EndOf(hdr, list[i]) <= a
        BY <3>2, <1>4, <1>6 DEF IsTiling
      <4> QED
        BY <4>1, <2>1, <1>7 DEF EndOf
    <3>3. CASE k < i
      <4>1. EndOf(hdr, a) <= list[i]
        BY <3>3, <1>4, <1>6 DEF IsTiling
      <4> QED
        BY <4>1, <2>1, <1>7 DEF EndOf
    <3> QED
      BY <3>1, <3>2, <3>3
  <2> HIDE DEF hit
  <2> QED
    BY <1>1, <2>1, <2>2
<1> HIDE DEF hit
<1>9. DOMAIN hdr' = DOMAIN hdr /\ hdr' \in [DOMAIN hdr' -> {Junk} \cup Header]
  BY <1>1, <1>2 DEF HeapTypeOK
<1>10. UsedIn(hdr') = UsedIn(hdr) /\ \A x \in UsedIn(hdr) : hdr'[x] = hdr[x]
  <2>1. \A x \in UsedIn(hdr) : hdr'[x] = hdr[x]
    BY <1>2, <1>8 DEF OwnersKept
  <2>2. \A x \in DOMAIN hdr : hdr'[x] # Junk => hdr'[x] = hdr[x]
    BY <1>1
  <2> QED
    BY <2>1, <2>2, <1>9 DEF UsedIn
<1>11. HeapTypeOK'
  BY <1>1, <1>2, <1>9 DEF HeapTypeOK
<1>12. OwnersKept(hdr, list, live)'
  BY <1>1, <1>2, <1>10 DEF OwnersKept
<1>13. \A i \in 1..Len(list) : IsHeader(hdr', list[i]) /\ EndOf(hdr', list[i]) = EndOf(hdr, list[i])
  BY <1>6, <1>8, <1>9 DEF IsTiling, IsHeader, EndOf
<1>14. IsTiling(g_heap_base, g_heap_base + g_heap_bytes, hdr', list)
  <2>1. OnTiling(hdr, hdr', list)
    BY <1>8, <1>13 DEF OnTiling
  <2> QED
    BY <1>6, <2>1, SameTiling
<1> QED
  BY <1>1, <1>5, <1>9, <1>6, <1>11, <1>12, <1>14 DEF HeapInv

(* What kmem_alloc makes of a request for which it finds a block. *)
LEMMA RoundedRequest ==
  ASSUME NEW n \in Nat, RoundUp(n) + HeaderSize + Align <= MaskSize
  PROVE  /\ RoundUp(n) \in Nat /\ (Roundable(n) => n <= RoundUp(n))
         /\ RoundUp(RoundUp(n) + HeaderSize) \in Nat
         /\ RoundUp(n) + HeaderSize <= RoundUp(RoundUp(n) + HeaderSize)
         /\ RoundUp(RoundUp(n) + HeaderSize) % Align = 0
<1> USE HeapConstants
<1>1. RoundUp(n) \in Nat
  BY RoundUpAligned
<1>2. Roundable(n) => n <= RoundUp(n)
  BY RoundUpIs DEF Roundable
<1>3. RoundUp(n) + HeaderSize \in Nat
  BY <1>1
<1> QED
  BY <1>1, <1>2, <1>3, RoundUpIs

(* There are blocks only once the heap is set up. *)
LEMMA ListIsTiling ==
  ASSUME HeapInv, NEW i \in 1..Len(list)
  PROVE  /\ g_heap_bytes # 0 /\ DOMAIN hdr = 0..(g_heap_base + g_heap_bytes)
         /\ IsTiling(g_heap_base, g_heap_base + g_heap_bytes, hdr, list)
BY DEF HeapInv

(* The headers g hand out the block at a for n bytes, and l lists all that *)
(* the list m does.                                                        *)
HandsOut(g, a, n) ==
  /\ UsedIn(g) = UsedIn(hdr) \cup {a}
  /\ \A x \in UsedIn(hdr) \ {a} : g[x] = hdr[x]
  /\ Roundable(n) => g[a].size >= n
ListsAll(l, m) == \A j \in 1..Len(m) : \E k \in 1..Len(l) : l[k] = m[j]

(* A block that is handed out gets an owner, and the others keep theirs. *)
LEMMA UsedBecomes ==
  ASSUME HeapInv, NEW i \in 1..Len(list), NEW n \in Nat, NEW g, HandsOut(g, list[i], n),
         NEW l, ListsAll(l, list)
  PROVE  /\ OwnersKept(g, l, Live(list[i], n))
         /\ Live(list[i], n) \in [DOMAIN live \cup {list[i]} -> Nat]
<1>1. /\ UsedIn(hdr) = DOMAIN live /\ live \in [DOMAIN live -> Nat]
      /\ \A a \in UsedIn(hdr) : Roundable(live[a]) => hdr[a].size >= live[a]
      /\ \A a \in UsedIn(hdr) : \E j \in 1..Len(list) : list[j] = a
  BY DEF HeapInv, OwnersKept, HeapTypeOK
<1>2. Live(list[i], n) \in [DOMAIN live \cup {list[i]} -> Nat]
  BY <1>1 DEF Live
<1> USE DEF HandsOut, ListsAll
<1>3. ASSUME NEW a \in UsedIn(g)
      PROVE  /\ Roundable(Live(list[i], n)[a]) => g[a].size >= Live(list[i], n)[a]
             /\ \E k \in 1..Len(l) : l[k] = a
  <2>1. CASE a = list[i]
    BY <2>1 DEF Live
  <2>2. CASE a # list[i]
    <3>1. a \in UsedIn(hdr) /\ a \in DOMAIN live
      BY <2>2, <1>1
    <3>2. Live(list[i], n)[a] = live[a] /\ g[a] = hdr[a]
      BY <3>1, <2>2 DEF Live
    <3> QED
      BY <3>1, <3>2, <1>1
  <2> QED
    BY <2>1, <2>2
<1> QED
  BY <1>1, <1>2, <1>3 DEF OwnersKept

(* kmem_alloc that hands out a whole block. *)
LEMMA WholeKeeps ==
  ASSUME HeapInv, NEW n \in Nat, NEW i \in 1..Len(list), Free(i), Roundable(n) => Size(i) >= n,
         hdr' = [hdr EXCEPT ![list[i]].free = FALSE], list' = list,
         live' = Live(list[i], n), given' = given \cup {list[i]},
         g_heap_base' = g_heap_base, g_heap_bytes' = g_heap_bytes
  PROVE  HeapInv'
<1> DEFINE a == list[i]
<1>1. /\ g_heap_bytes # 0 /\ DOMAIN hdr = 0..(g_heap_base + g_heap_bytes)
      /\ IsTiling(g_heap_base, g_heap_base + g_heap_bytes, hdr, list)
  BY ListIsTiling
<1>2. a \in DOMAIN hdr /\ hdr[a] \in Header
  BY <1>1 DEF IsTiling, IsHeader
<1>3. HeapTypeOK
  BY DEF HeapInv
<1>4. /\ DOMAIN hdr' = DOMAIN hdr /\ hdr'[a] = [hdr[a] EXCEPT !.free = FALSE]
      /\ \A x \in DOMAIN hdr : x # a => hdr'[x] = hdr[x]
  BY <1>2
<1>5. hdr'[a] \in Header /\ hdr'[a].free = FALSE /\ hdr'[a].size = hdr[a].size
  BY <1>2, <1>4 DEF Header
<1>6. hdr' \in [DOMAIN hdr' -> {Junk} \cup Header]
  BY <1>2, <1>3, <1>5 DEF HeapTypeOK
<1>7. UsedIn(hdr') = UsedIn(hdr) \cup {a}
  BY <1>2, <1>4, <1>5, HeapConstants DEF UsedIn
<1>8. /\ \A x \in UsedIn(hdr) \ {a} : hdr'[x] = hdr[x]
      /\ Roundable(n) => hdr'[a].size >= n
  BY <1>4, <1>5 DEF UsedIn, Size
<1>9. OnTiling(hdr, hdr', list)
  <2> SUFFICES ASSUME NEW j \in 1..Len(list)
               PROVE  /\ IsHeader(hdr', list[j]) /\ EndOf(hdr', list[j]) = EndOf(hdr, list[j])
                      /\ hdr'[list[j]].free => hdr[list[j]].free
    BY DEF OnTiling
  <2>1. list[j] \in DOMAIN hdr /\ hdr[list[j]] \in Header
    BY <1>1 DEF IsTiling, IsHeader
  <2> QED
    BY <2>1, <1>4, <1>5 DEF IsHeader, EndOf
<1>10. IsTiling(g_heap_base, g_heap_base + g_heap_bytes, hdr', list)
  BY <1>1, <1>9, SameTiling
<1>11. /\ OwnersKept(hdr', list, Live(a, n))
       /\ Live(a, n) \in [DOMAIN live \cup {a} -> Nat]
  <2>1. ListsAll(list, list)
    BY DEF ListsAll
  <2>2. HandsOut(hdr', a, n)
    BY <1>7, <1>8 DEF HandsOut
  <2> QED
    BY <2>1, <2>2, UsedBecomes
<1> HIDE DEF a
<1>12. HeapTypeOK'
  BY <1>3, <1>6, <1>11 DEF HeapTypeOK, a
<1> QED
  BY <1>1, <1>4, <1>10, <1>11, <1>12 DEF HeapInv, a

(* The list m is l with x put behind its i-th address. *)
IsInserted(m, l, i, x) ==
  /\ m \in Seq(Nat) /\ Len(m) = Len(l) + 1
  /\ \A j \in 1..i : m[j] = l[j]
  /\ m[i + 1] = x
  /\ \A j \in (i + 1)..Len(l) : m[j + 1] = l[j]

(* The list after a split has the new block behind the one that was split. *)
LEMMA SplitListIs ==
  ASSUME list \in Seq(Nat), NEW i \in 1..Len(list), NEW n,
         NEW x \in Nat, x = list[i] + RoundUp(n + HeaderSize)
  PROVE  IsInserted(SplitList(i, n), list, i, x)
<1> DEFINE p == SubSeq(list, 1, i)
           s == SubSeq(list, i + 1, Len(list))
           q == p \o <<x>>
           m == q \o s
<1>1. Len(list) \in Nat /\ i \in Nat /\ i <= Len(list) /\ 1 <= i
  OBVIOUS
<1>2. p \in Seq(Nat) /\ Len(p) = i /\ \A j \in 1..i : p[j] = list[j]
  BY <1>1
<1>3. s \in Seq(Nat) /\ Len(s) = Len(list) - i /\ \A j \in 1..(Len(list) - i) : s[j] = list[i + j]
  BY <1>1
<1>4. SplitList(i, n) = m
  BY DEF SplitList
<1> HIDE DEF p, s
<1>5. q \in Seq(Nat) /\ Len(q) = i + 1 /\ (\A j \in 1..i : q[j] = p[j]) /\ q[i + 1] = x
  BY <1>1, <1>2
<1> HIDE DEF q
<1>6. /\ m \in Seq(Nat) /\ Len(m) = Len(q) + Len(s)
      /\ \A j \in 1..(Len(q) + Len(s)) : m[j] = IF j <= Len(q) THEN q[j] ELSE s[j - Len(q)]
  BY <1>3, <1>5, ConcatProperties
<1> HIDE DEF m
<1>7. Len(m) = Len(list) + 1
  BY <1>1, <1>3, <1>5, <1>6
<1>8. ASSUME NEW j \in 1..i PROVE m[j] = list[j]
  <2>1. j \in 1..(Len(q) + Len(s)) /\ j <= Len(q)
    BY <1>1, <1>3, <1>5
  <2>2. m[j] = q[j]
    BY <2>1, <1>6
  <2> QED
    BY <2>2, <1>2, <1>5
<1>9. m[i + 1] = x
  BY <1>1, <1>3, <1>5, <1>6
<1>10. ASSUME NEW j \in (i + 1)..Len(list) PROVE m[j + 1] = list[j]
  <2>1. PICK k \in 1..(Len(list) - i) : j = i + k
    BY <1>1
  <2>2. j + 1 \in 1..(Len(q) + Len(s)) /\ ~(j + 1 <= Len(q)) /\ (j + 1) - Len(q) = k
    BY <2>1, <1>1, <1>3, <1>5
  <2>3. m[j + 1] = s[(j + 1) - Len(q)]
    BY <2>2, <1>6
  <2> QED
    BY <2>1, <2>2, <2>3, <1>3
<1> QED
  BY <1>4, <1>6, <1>7, <1>8, <1>9, <1>10 DEF IsInserted

(* What a split does to the headers: block a is cut at x. *)
Cuts(h, g, a, x) ==
  /\ DOMAIN g = DOMAIN h /\ a \in DOMAIN h /\ x \in DOMAIN h /\ x # a
  /\ g[a] \in Header /\ g[a].free = FALSE /\ EndOf(g, a) = x
  /\ g[x] \in Header /\ EndOf(g, x) = EndOf(h, a)
  /\ \A y \in DOMAIN h : y # a /\ y # x => g[y] = h[y]

(* A free block that is cut in two leaves a tiling. *)
LEMMA CutTiling ==
  ASSUME NEW lo, NEW hi, NEW h, NEW g, NEW l, NEW m, NEW i \in 1..Len(l), NEW x \in Nat,
         IsTiling(lo, hi, h, l), h[l[i]].free, Cuts(h, g, l[i], x),
         x < EndOf(h, l[i]), (x + HeaderSize) % Align = 0, IsInserted(m, l, i, x)
  PROVE  IsTiling(lo, hi, g, m) /\ \A j \in 1..Len(l) : l[j] # x
<1>1. /\ l[1] = lo
      /\ \A j \in 1..Len(l) : (l[j] + HeaderSize) % Align = 0
      /\ EndOf(h, l[Len(l)]) = hi
      /\ \A j \in 1..(Len(l) - 1) : EndOf(h, l[j]) = l[j + 1]
      /\ \A j \in 1..(Len(l) - 1) : ~(h[l[j]].free /\ h[l[j + 1]].free)
  BY DEF IsTiling
<1> DEFINE L == Len(l)
<1>2. /\ L \in Nat /\ L >= 1 /\ i \in Nat /\ 1 <= i /\ i <= L
      /\ \A j \in 1..L : /\ l[j] \in Nat /\ l[j] \in DOMAIN h /\ h[l[j]] \in Header
                         /\ EndOf(h, l[j]) \in Nat /\ l[j] < EndOf(h, l[j])
      /\ \A j, k \in 1..L : j < k => EndOf(h, l[j]) <= l[k] /\ l[j] < l[k]
      /\ \A j, k \in 1..L : l[j] = l[k] => j = k
  BY TilingBounds
<1>3. /\ m \in Seq(Nat) /\ Len(m) = L + 1
      /\ \A j \in 1..i : m[j] = l[j]
      /\ m[i + 1] = x
      /\ \A j \in (i + 1)..L : m[j + 1] = l[j]
  BY DEF IsInserted
<1>4. /\ DOMAIN g = DOMAIN h /\ x \in DOMAIN h
      /\ g[l[i]] \in Header /\ g[l[i]].free = FALSE /\ EndOf(g, l[i]) = x
      /\ g[x] \in Header /\ EndOf(g, x) = EndOf(h, l[i])
      /\ \A y \in DOMAIN h : y # l[i] /\ y # x => g[y] = h[y]
  BY DEF Cuts
<1>5. l[i] < x
  <2>1. l[i] \in Nat /\ g[l[i]].size \in Nat
    BY <1>2, <1>4 DEF Header
  <2>2. l[i] < EndOf(g, l[i])
    BY <2>1, HeapConstants DEF EndOf
  <2> QED
    BY <2>2, <1>4
<1>6. ASSUME NEW j \in 1..L, j # i
      PROVE  l[j] # x /\ g[l[j]] = h[l[j]] /\ EndOf(g, l[j]) = EndOf(h, l[j])
  <2>0. l[j] \in Nat /\ l[i] \in Nat /\ EndOf(h, l[i]) \in Nat
    BY <1>2
  <2>1. l[j] # x
    <3>1. CASE j < i
      <4>1. l[j] < l[i]
        BY <3>1, <1>2
      <4> QED
        BY <4>1, <2>0, <1>5
    <3>2. CASE i < j
      <4>1. EndOf(h, l[i]) <= l[j]
        BY <3>2, <1>2
      <4> QED
        BY <4>1, <2>0
    <3> QED
      BY <3>1, <3>2, <1>2, <1>6
  <2>2. g[l[j]] = h[l[j]]
    BY <2>1, <1>2, <1>4, <1>6
  <2> QED
    BY <2>1, <2>2 DEF EndOf
<1>7. \A j \in 1..L : l[j] # x
  <2>1. l[i] # x
    BY <1>5, <1>2
  <2> QED
    BY <2>1, <1>6
<1>8. \A j \in 1..L : IsHeader(g, l[j])
  <2>1. IsHeader(g, l[i])
    BY <1>2, <1>4 DEF IsHeader
  <2>2. ASSUME NEW j \in 1..L, j # i PROVE IsHeader(g, l[j])
    <3>1. l[j] \in DOMAIN h /\ h[l[j]] \in Header /\ g[l[j]] = h[l[j]]
      BY <2>2, <1>2, <1>6
    <3> QED
      BY <3>1, <1>4 DEF IsHeader
  <2> QED
    BY <2>1, <2>2
<1>9. IsHeader(g, x)
  BY <1>4 DEF IsHeader
<1> HIDE DEF L
(* A place in m is one in l, or that of x. *)
<1>10. ASSUME NEW j \in 1..(L + 1)
       PROVE  \/ j \in 1..i /\ j \in 1..L /\ m[j] = l[j]
              \/ j = i + 1 /\ m[j] = x
              \/ \E k \in (i + 1)..L : k \in 1..L /\ j = k + 1 /\ m[j] = l[k]
  <2>1. CASE j <= i
    BY <2>1, <1>2, <1>3
  <2>2. CASE j = i + 1
    BY <2>2, <1>3
  <2>3. CASE j > i + 1
    <3>1. j - 1 \in (i + 1)..L /\ j - 1 \in 1..L /\ j = (j - 1) + 1
      BY <2>3, <1>2
    <3> QED
      BY <3>1, <1>3
  <2> QED
    BY <2>1, <2>2, <2>3, <1>2
<1>11. ASSUME NEW j \in 1..(L + 1) PROVE IsHeader(g, m[j]) /\ (m[j] + HeaderSize) % Align = 0
  <2>1. m[j] = x \/ \E k \in 1..L : m[j] = l[k]
    BY <1>10
  <2> QED
    BY <2>1, <1>1, <1>8, <1>9 DEF L
<1>12. EndOf(g, m[L + 1]) = hi
  <2>1. CASE i = L
    BY <2>1, <1>1, <1>3, <1>4 DEF L
  <2>2. CASE i # L
    <3>1. L \in (i + 1)..L /\ L \in 1..L
      BY <2>2, <1>2
    <3>2. m[L + 1] = l[L] /\ EndOf(g, l[L]) = EndOf(h, l[L])
      BY <3>1, <2>2, <1>3, <1>6
    <3> QED
      BY <3>2, <1>1 DEF L
  <2> QED
    BY <2>1, <2>2
<1>13. ASSUME NEW j \in 1..L, j + 1 \in 1..L
       PROVE  EndOf(h, l[j]) = l[j + 1] /\ ~(h[l[j]].free /\ h[l[j + 1]].free)
  <2>1. j \in 1..(L - 1)
    BY <1>2, <1>13
  <2> QED
    BY <2>1, <1>1 DEF L
<1>14. ASSUME NEW j \in 1..L
       PROVE  EndOf(g, m[j]) = m[j + 1] /\ ~(g[m[j]].free /\ g[m[j + 1]].free)
  <2>1. CASE j < i
    <3>1. j \in 1..i /\ j + 1 \in 1..i /\ j + 1 \in 1..L /\ j # i
      BY <2>1, <1>2
    <3>2. m[j] = l[j] /\ m[j + 1] = l[j + 1]
      BY <3>1, <1>3
    <3>3. EndOf(g, l[j]) = l[j + 1]
      BY <3>1, <1>6, <1>13
    <3>4. ~(g[l[j]].free /\ g[l[j + 1]].free)
      <4>1. CASE j + 1 = i
        BY <4>1, <1>4
      <4>2. CASE j + 1 # i
        <5>1. g[l[j]] = h[l[j]] /\ g[l[j + 1]] = h[l[j + 1]]
          BY <4>2, <3>1, <1>6
        <5> QED
          BY <5>1, <3>1, <1>13
      <4> QED
        BY <4>1, <4>2
    <3> QED
      BY <3>2, <3>3, <3>4
  <2>2. CASE j = i
    <3>1. m[j] = l[i] /\ m[j + 1] = x
      BY <2>2, <1>2, <1>3
    <3> QED
      BY <3>1, <1>4
  <2>3. CASE j = i + 1
    <3>1. j \in (i + 1)..L /\ i \in 1..L /\ i + 1 \in 1..L /\ i + 1 # i
      BY <2>3, <1>2
    <3>2. m[j] = x /\ m[j + 1] = l[i + 1]
      BY <2>3, <3>1, <1>3
    <3>3. EndOf(g, x) = l[i + 1] /\ ~h[l[i + 1]].free
      BY <3>1, <1>4, <1>13
    <3>4. g[l[i + 1]] = h[l[i + 1]]
      BY <3>1, <1>6
    <3> QED
      BY <3>2, <3>3, <3>4
  <2>4. CASE j > i + 1
    <3> DEFINE k == j - 1
    <3>1. /\ k \in (i + 1)..L /\ k \in 1..L /\ k + 1 \in (i + 1)..L /\ k + 1 \in 1..L
          /\ k # i /\ k + 1 # i /\ k + 1 = j
      BY <2>4, <1>2
    <3> HIDE DEF k
    <3>2. m[k + 1] = l[k] /\ m[(k + 1) + 1] = l[k + 1]
      BY <3>1, <1>3
    <3>3. g[l[k]] = h[l[k]] /\ g[l[k + 1]] = h[l[k + 1]] /\ EndOf(g, l[k]) = EndOf(h, l[k])
      BY <3>1, <1>6
    <3>4. EndOf(h, l[k]) = l[k + 1] /\ ~(h[l[k]].free /\ h[l[k + 1]].free)
      BY <3>1, <1>13
    <3>5. m[j] = l[k] /\ m[j + 1] = l[k + 1]
      BY <3>1, <3>2
    <3> QED
      BY <3>3, <3>4, <3>5
  <2> QED
    BY <2>1, <2>2, <2>3, <2>4, <1>2
<1>15. ASSUME NEW j \in 1..L, NEW k \in 1..L, j < k
       PROVE  EndOf(g, l[j]) <= l[k]
  <2>1. EndOf(h, l[j]) <= l[k] /\ EndOf(h, l[j]) \in Nat /\ l[k] \in Nat
    BY <1>15, <1>2
  <2>2. CASE j = i
    BY <2>1, <2>2, <1>4
  <2>3. CASE j # i
    BY <2>1, <2>3, <1>6
  <2> QED
    BY <2>2, <2>3
<1>16. ASSUME NEW j \in 1..L
       PROVE  /\ j <= i => EndOf(g, l[j]) <= x
              /\ i < j => EndOf(g, x) <= l[j]
  <2>1. CASE j < i
    <3>1. EndOf(g, l[j]) = EndOf(h, l[j]) /\ EndOf(h, l[j]) <= l[i]
      BY <2>1, <1>2, <1>6
    <3>2. EndOf(h, l[j]) \in Nat /\ l[i] \in Nat
      BY <1>2
    <3> QED
      BY <2>1, <3>1, <3>2, <1>2, <1>5
  <2>2. CASE j = i
    BY <2>2, <1>2, <1>4
  <2>3. CASE i < j
    BY <2>3, <1>2, <1>4
  <2> QED
    BY <2>1, <2>2, <2>3, <1>2
<1>17. ASSUME NEW j \in 1..(L + 1), NEW k \in 1..(L + 1), j < k
       PROVE  EndOf(g, m[j]) <= m[k]
  <2>1. CASE j \in 1..i /\ j \in 1..L /\ m[j] = l[j]
    <3>1. CASE k \in 1..i /\ k \in 1..L /\ m[k] = l[k]
      BY <2>1, <3>1, <1>15, <1>17
    <3>2. CASE k = i + 1 /\ m[k] = x
      BY <2>1, <3>2, <1>16
    <3>3. CASE \E t \in (i + 1)..L : t \in 1..L /\ k = t + 1 /\ m[k] = l[t]
      <4>1. PICK t \in (i + 1)..L : t \in 1..L /\ k = t + 1 /\ m[k] = l[t]
        BY <3>3
      <4>2. j < t
        BY <2>1, <4>1, <1>2
      <4> QED
        BY <2>1, <4>1, <4>2, <1>15
    <3> QED
      BY <3>1, <3>2, <3>3, <1>10
  <2>2. CASE j = i + 1 /\ m[j] = x
    <3>1. PICK t \in (i + 1)..L : t \in 1..L /\ k = t + 1 /\ m[k] = l[t]
      BY <2>2, <1>2, <1>10, <1>17
    <3>2. i < t
      BY <3>1, <1>2
    <3> QED
      BY <2>2, <3>1, <3>2, <1>16
  <2>3. CASE \E t \in (i + 1)..L : t \in 1..L /\ j = t + 1 /\ m[j] = l[t]
    <3>1. PICK t \in (i + 1)..L : t \in 1..L /\ j = t + 1 /\ m[j] = l[t]
      BY <2>3
    <3>2. PICK u \in (i + 1)..L : u \in 1..L /\ k = u + 1 /\ m[k] = l[u]
      BY <3>1, <1>2, <1>10, <1>17
    <3>3. t < u
      BY <3>1, <3>2, <1>17
    <3> QED
      BY <3>1, <3>2, <3>3, <1>15
  <2> QED
    BY <2>1, <2>2, <2>3, <1>10
<1>18. m[1] = lo
  <2>1. 1 \in 1..i
    BY <1>2
  <2> QED
    BY <2>1, <1>1, <1>3
<1>19. IsTiling(lo, hi, g, m)
  <2>1. Len(m) = L + 1 /\ Len(m) >= 1 /\ Len(m) - 1 = L /\ m \in Seq(Nat)
    BY <1>2, <1>3
  <2> QED
    BY <2>1, <1>11, <1>12, <1>14, <1>17, <1>18 DEF IsTiling
<1> QED
  BY <1>7, <1>19 DEF L

(* kmem_alloc that splits the block it hands out. *)
LEMMA SplitKeeps ==
  ASSUME HeapInv, NEW n \in Nat, NEW size \in Nat, Roundable(n) => n <= size, NEW i \in 1..Len(list),
         Free(i), Splits(i, size),
         RoundUp(size + HeaderSize) \in Nat, size + HeaderSize <= RoundUp(size + HeaderSize),
         RoundUp(size + HeaderSize) % Align = 0,
         hdr' = SplitHeaders(i, size), list' = SplitList(i, size),
         live' = Live(list[i], n), given' = given \cup {list[i]},
         g_heap_base' = g_heap_base, g_heap_bytes' = g_heap_bytes
  PROVE  HeapInv'
<1> USE HeapConstants
<1> DEFINE a == list[i]
           needed == RoundUp(size + HeaderSize)
           x == a + needed
           lo == g_heap_base
           hi == g_heap_base + g_heap_bytes
           low == [size |-> needed - HeaderSize, free |-> FALSE]
           high == [size |-> hdr[a].size - needed, free |-> TRUE]
<1>1. /\ g_heap_bytes # 0 /\ DOMAIN hdr = 0..hi /\ IsTiling(lo, hi, hdr, list)
  BY ListIsTiling
<1>2. HeapTypeOK
  BY DEF HeapInv
<1>3. /\ a \in Nat /\ a \in DOMAIN hdr /\ hdr[a] \in Header /\ hdr[a].size \in Nat
      /\ EndOf(hdr, a) \in Nat
  BY <1>1, TilingBounds
<1>4. hdr[a].free /\ hdr[a].size >= needed + HeaderSize + Align
  BY DEF Free, Splits, Size
<1>5. hdr' = [hdr EXCEPT ![a] = low, ![x] = high]
  BY DEF SplitHeaders, Size
<1>6. needed \in Nat /\ size + HeaderSize <= needed /\ needed % Align = 0
  OBVIOUS
<1> HIDE DEF needed
<1>7. hi \in Nat /\ EndOf(hdr, a) <= hi
  <2>1. hi \in Nat
    BY <1>2 DEF HeapTypeOK
  <2>2. Len(list) \in 1..Len(list) /\ Len(list) \in Nat
    BY <1>1, TilingBounds
  <2>3. CASE i = Len(list)
    BY <2>1, <2>3, <1>1, <1>3 DEF IsTiling
  <2>4. CASE i # Len(list)
    <3>1. i < Len(list)
      BY <2>2, <2>4
    <3>2. EndOf(hdr, a) <= list[Len(list)] /\ list[Len(list)] < EndOf(hdr, list[Len(list)])
          /\ list[Len(list)] \in Nat
      BY <3>1, <2>2, <1>1, TilingBounds
    <3>3. EndOf(hdr, list[Len(list)]) = hi
      BY <1>1 DEF IsTiling
    <3> QED
      BY <2>1, <3>2, <3>3, <1>3
  <2> QED
    BY <2>1, <2>3, <2>4
<1>8. x \in Nat /\ x # a /\ x < EndOf(hdr, a) /\ x \in DOMAIN hdr
  <2>1. x \in Nat /\ x # a
    BY <1>3, <1>6
  <2>2. x < EndOf(hdr, a)
    <3>1. ASSUME NEW b \in Nat, NEW s \in Nat, s >= needed + HeaderSize + Align
          PROVE  b + needed < b + HeaderSize + s
      BY <1>6, <3>1
    <3> QED
      BY <3>1, <1>3, <1>4 DEF EndOf
  <2> QED
    BY <2>1, <2>2, <1>1, <1>3, <1>7
<1>9. /\ low \in Header /\ low.free = FALSE /\ low.size = needed - HeaderSize
      /\ needed - HeaderSize \in Nat
  BY <1>6 DEF Header
<1>10. /\ high \in Header /\ high.free = TRUE /\ high.size = hdr[a].size - needed
       /\ hdr[a].size - needed \in Nat
  <2>1. hdr[a].size - needed \in Nat
    BY <1>3, <1>4, <1>6
  <2> QED
    BY <2>1 DEF Header
<1> HIDE DEF low, high, x
<1>11. /\ DOMAIN hdr' = DOMAIN hdr /\ hdr'[a] = low /\ hdr'[x] = high
       /\ \A y \in DOMAIN hdr : y # a /\ y # x => hdr'[y] = hdr[y]
  BY <1>3, <1>5, <1>8
<1>12. EndOf(hdr', a) = x /\ EndOf(hdr', x) = EndOf(hdr, a)
  <2>1. ASSUME NEW b \in Nat, NEW s \in Nat
        PROVE  /\ b + HeaderSize + (needed - HeaderSize) = b + needed
               /\ (b + needed) + HeaderSize + (s - needed) = b + HeaderSize + s
    BY <1>6
  <2>2. EndOf(hdr', a) = a + HeaderSize + (needed - HeaderSize)
    BY <1>9, <1>11 DEF EndOf
  <2>3. EndOf(hdr', x) = (a + needed) + HeaderSize + (hdr[a].size - needed)
    BY <1>10, <1>11 DEF EndOf, x
  <2>4. EndOf(hdr, a) = a + HeaderSize + hdr[a].size
    BY DEF EndOf
  <2> QED
    BY <2>1, <2>2, <2>3, <2>4, <1>3 DEF x
<1>13. Cuts(hdr, hdr', a, x)
  BY <1>3, <1>8, <1>9, <1>10, <1>11, <1>12 DEF Cuts
<1>14. IsInserted(list', list, i, x)
  BY <1>1, <1>2, <1>8, SplitListIs DEF HeapTypeOK, x, needed
<1>15. (x + HeaderSize) % Align = 0
  <2>1. (a + HeaderSize) % Align = 0
    BY <1>1 DEF IsTiling
  <2>2. a + HeaderSize \in Nat
    BY <1>3
  <2>3. ((a + HeaderSize) + needed) % Align = 0
    BY <2>1, <2>2, <1>6, AlignedSum
  <2>4. (a + HeaderSize) + needed = x + HeaderSize
    BY <1>3, <1>6 DEF x
  <2> QED
    BY <2>3, <2>4
<1>16. IsTiling(lo, hi, hdr', list') /\ \A j \in 1..Len(list) : list[j] # x
  <2> HIDE DEF lo, hi
  <2> QED
    BY <1>1, <1>4, <1>8, <1>13, <1>14, <1>15, CutTiling
<1>17. hdr' \in [DOMAIN hdr' -> {Junk} \cup Header]
  <2>1. hdr \in [DOMAIN hdr -> {Junk} \cup Header]
    BY <1>2 DEF HeapTypeOK
  <2> QED
    BY <2>1, <1>5, <1>9, <1>10, <1>11
<1>18. HandsOut(hdr', a, n)
  <2>1. x \notin UsedIn(hdr)
    BY <1>16 DEF HeapInv, OwnersKept
  <2>2. UsedIn(hdr') = UsedIn(hdr) \cup {a}
    <3>1. a \in UsedIn(hdr') /\ x \notin UsedIn(hdr')
      BY <1>3, <1>9, <1>10, <1>11 DEF UsedIn
    <3>2. \A y \in DOMAIN hdr : y # a /\ y # x => (y \in UsedIn(hdr') <=> y \in UsedIn(hdr))
      BY <1>11 DEF UsedIn
    <3>3. UsedIn(hdr) \subseteq DOMAIN hdr /\ UsedIn(hdr') \subseteq DOMAIN hdr
      BY <1>11 DEF UsedIn
    <3> QED
      BY <2>1, <3>1, <3>2, <3>3
  <2>3. \A y \in UsedIn(hdr) \ {a} : hdr'[y] = hdr[y]
    BY <2>1, <1>11 DEF UsedIn
  <2>4. Roundable(n) => hdr'[a].size >= n
    BY <1>6, <1>9, <1>11
  <2> QED
    BY <2>2, <2>3, <2>4 DEF HandsOut
<1>19. ListsAll(list', list)
  <2> SUFFICES ASSUME NEW j \in 1..Len(list) PROVE \E k \in 1..Len(list') : list'[k] = list[j]
    BY DEF ListsAll
  <2>0. Len(list) \in Nat /\ Len(list') = Len(list) + 1
    BY <1>1, <1>14, TilingBounds DEF IsInserted
  <2>1. CASE j <= i
    <3>1. j \in 1..Len(list') /\ j \in 1..i
      BY <2>0, <2>1
    <3> QED
      BY <3>1, <1>14 DEF IsInserted
  <2>2. CASE j > i
    <3>1. j + 1 \in 1..Len(list') /\ j \in (i + 1)..Len(list)
      BY <2>0, <2>2
    <3> QED
      BY <3>1, <1>14 DEF IsInserted
  <2> QED
    BY <2>1, <2>2, <2>0
<1>20. /\ OwnersKept(hdr', list', Live(a, n))
       /\ Live(a, n) \in [DOMAIN live \cup {a} -> Nat]
  BY <1>18, <1>19, UsedBecomes
<1>21. HeapTypeOK'
  <2>1. list' \in Seq(Nat)
    BY <1>14 DEF IsInserted
  <2>2. live' \in [DOMAIN live' -> Nat] /\ DOMAIN live' \subseteq given'
    BY <1>2, <1>20 DEF HeapTypeOK
  <2> QED
    BY <2>1, <2>2, <1>2, <1>17 DEF HeapTypeOK
<1>22. OwnersKept(hdr, list, live)'
  BY <1>20
<1> QED
  BY <1>1, <1>11, <1>16, <1>21, <1>22 DEF HeapInv

(* A rounded request that a block of the heap fits. *)
LEMMA BlockBelowMask ==
  ASSUME HeapInv, NEW i \in 1..Len(list), NEW size \in Nat, Size(i) >= size
  PROVE  size + HeaderSize + Align <= MaskSize
<1> DEFINE a == list[i]
           hi == g_heap_base + g_heap_bytes
<1> USE HeapConstants
<1>1. /\ g_heap_bytes # 0 /\ IsTiling(g_heap_base, hi, hdr, list)
      /\ g_heap_bytes \in Nat /\ g_heap_base \in Nat /\ g_heap_bytes + Align <= MaskSize
  BY ListIsTiling DEF HeapInv, HeapTypeOK
<1>2. a \in Nat /\ hdr[a].size \in Nat /\ EndOf(hdr, a) \in Nat
  BY <1>1, TilingBounds
<1>3. EndOf(hdr, a) <= hi
  <2>1. Len(list) \in 1..Len(list) /\ Len(list) \in Nat
    BY <1>1, TilingBounds
  <2>2. CASE i = Len(list)
    BY <2>2, <1>1, <1>2 DEF IsTiling
  <2>3. CASE i # Len(list)
    <3>1. i < Len(list)
      BY <2>1, <2>3
    <3>2. EndOf(hdr, a) <= list[Len(list)] /\ list[Len(list)] < EndOf(hdr, list[Len(list)])
          /\ list[Len(list)] \in Nat
      BY <3>1, <2>1, <1>1, TilingBounds
    <3>3. EndOf(hdr, list[Len(list)]) = hi
      BY <1>1 DEF IsTiling
    <3> QED
      BY <3>2, <3>3, <1>1, <1>2
  <2> QED
    BY <2>2, <2>3
<1>4. g_heap_base <= a
  <2>1. CASE i = 1
    BY <2>1, <1>1 DEF IsTiling
  <2>2. CASE i # 1
    <3>1. 1 \in 1..Len(list) /\ 1 < i
      BY <2>2, <1>1, TilingBounds
    <3>2. EndOf(hdr, list[1]) <= a /\ list[1] < EndOf(hdr, list[1]) /\ list[1] = g_heap_base
          /\ EndOf(hdr, list[1]) \in Nat
      BY <3>1, <1>1, TilingBounds DEF IsTiling
    <3> QED
      BY <3>2, <1>1, <1>2
  <2> QED
    BY <2>1, <2>2
<1>5. hdr[a].size >= size
  BY DEF Size
<1> QED
  BY <1>1, <1>2, <1>3, <1>4, <1>5 DEF EndOf

(* kmem_alloc *)
LEMMA KmemAllocKeeps ==
  ASSUME HeapInv, NEW n \in Requests, Alloc(n)
  PROVE  HeapInv'
<1> DEFINE size == RoundUp(n)
<1>2. n \in Nat /\ size \in Nat
  BY HeapAssumption, RoundUpAligned
<1>3. PICK i \in 1..Len(list) :
        /\ IsFirstFit(i, size)
        /\ IF Splits(i, size)
             THEN hdr' = SplitHeaders(i, size) /\ list' = SplitList(i, size)
             ELSE hdr' = [hdr EXCEPT ![list[i]].free = FALSE] /\ list' = list
        /\ live' = Live(list[i], n)
        /\ given' = given \cup {list[i]}
        /\ g_heap_base' = g_heap_base /\ g_heap_bytes' = g_heap_bytes
  BY DEF Alloc
<1> HIDE DEF size
<1>4. Free(i) /\ Size(i) >= size
  BY <1>3 DEF IsFirstFit, BlockFits
<1>1. /\ (Roundable(n) => n <= size) /\ RoundUp(size + HeaderSize) \in Nat
      /\ size + HeaderSize <= RoundUp(size + HeaderSize)
      /\ RoundUp(size + HeaderSize) % Align = 0
  <2>1. size + HeaderSize + Align <= MaskSize
    BY <1>2, <1>4, BlockBelowMask
  <2> QED
    BY <2>1, <1>2, RoundedRequest DEF size
<1>5. CASE Splits(i, size)
  BY <1>1, <1>2, <1>3, <1>4, <1>5, SplitKeeps
<1>6. CASE ~Splits(i, size)
  <2>1. Roundable(n) => Size(i) >= n
    <3>1. Size(i) \in Nat
      BY ListIsTiling, TilingBounds DEF Size
    <3> QED
      BY <3>1, <1>1, <1>2, <1>4
  <2> QED
    BY <2>1, <1>2, <1>3, <1>4, <1>6, WholeKeeps
<1> QED
  BY <1>5, <1>6

(* The blocks that the walk of kmem_free_checked over the headers h merges *)
(* away are the r blocks from the m-th on.                                 *)
IsRun(h, m, r) ==
  /\ m \in Nat /\ r \in Nat /\ 1 <= m /\ m + r <= Len(list) + 1
  /\ r # 0 => m > 1
  /\ \A i \in 1..Len(list) : Survives(h, i) <=> (i < m \/ i >= m + r)

(* Where the j-th survivor was on the list. *)
Shift(m, r, j) == IF j < m THEN j ELSE j + r
PickList(m, r, n) == [j \in 1..n |-> list[Shift(m, r, j)]]

(* The list without the run, up to its n-th block. *)
LEMMA PickListIs ==
  ASSUME list \in Seq(Nat), NEW m \in Nat, NEW r \in Nat, 1 <= m,
         NEW n \in Nat, \A j \in 1..n : Shift(m, r, j) \in 1..Len(list)
  PROVE  /\ PickList(m, r, n) \in Seq(Nat) /\ Len(PickList(m, r, n)) = n
         /\ \A j \in 1..n : PickList(m, r, n)[j] = list[Shift(m, r, j)]
<1>1. \A j \in 1..n : list[Shift(m, r, j)] \in Nat
  BY ElementOfSeq
<1>2. PickList(m, r, n) \in [1..n -> Nat]
  BY <1>1 DEF PickList
<1>3. PickList(m, r, n) \in Seq(Nat) /\ Len(PickList(m, r, n)) = n
  BY <1>2
<1> QED
  BY <1>3 DEF PickList

(* It grows by the next block that survives. *)
LEMMA PickListGrows ==
  ASSUME list \in Seq(Nat), NEW m \in Nat, NEW r \in Nat, 1 <= m,
         NEW n \in Nat, \A j \in 1..(n + 1) : Shift(m, r, j) \in 1..Len(list),
         NEW i, i = Shift(m, r, n + 1)
  PROVE  Append(PickList(m, r, n), list[i]) = PickList(m, r, n + 1)
<1> DEFINE p == PickList(m, r, n)
           q == PickList(m, r, n + 1)
<1>1. \A j \in 1..n : j \in 1..(n + 1)
  OBVIOUS
<1>2. p \in Seq(Nat) /\ Len(p) = n /\ \A j \in 1..n : p[j] = list[Shift(m, r, j)]
  BY <1>1, PickListIs
<1>3. q \in Seq(Nat) /\ Len(q) = n + 1 /\ \A j \in 1..(n + 1) : q[j] = list[Shift(m, r, j)]
  <2>1. n + 1 \in Nat
    OBVIOUS
  <2> QED
    BY <2>1, PickListIs
<1>4. list[i] \in Nat
  BY ElementOfSeq
<1> HIDE DEF p, q
<1>5. /\ Append(p, list[i]) \in Seq(Nat) /\ Len(Append(p, list[i])) = n + 1
      /\ \A j \in 1..n : Append(p, list[i])[j] = p[j]
      /\ Append(p, list[i])[n + 1] = list[i]
  BY <1>2, <1>4, AppendProperties
<1>6. ASSUME NEW j \in 1..(n + 1) PROVE Append(p, list[i])[j] = q[j]
  <2>1. CASE j = n + 1
    BY <2>1, <1>3, <1>5
  <2>2. CASE j # n + 1
    <3>1. j \in 1..n
      BY <2>2
    <3> QED
      BY <3>1, <1>2, <1>3, <1>5
  <2> QED
    BY <2>1, <2>2
<1>7. Append(p, list[i]) = q
  BY <1>3, <1>5, <1>6, SeqEqual
<1> QED
  BY <1>7 DEF p, q

(* The list of the survivors leaves out the run. *)
LEMMA SurvivorsIs ==
  ASSUME list \in Seq(Nat), NEW h, NEW m, NEW r, IsRun(h, m, r)
  PROVE  Survivors(h) = PickList(m, r, Len(list) - r)
<1> DEFINE L == Len(list)
           body(f) == [i \in 0..L |-> IF i = 0 THEN <<>>
                                      ELSE IF Survives(h, i) THEN Append(f[i - 1], list[i])
                                      ELSE f[i - 1]]
           K == CHOOSE f : f = body(f)
           N(i) == IF i < m THEN i ELSE IF i < m + r THEN m - 1 ELSE i - r
           W == [i \in 0..L |-> PickList(m, r, N(i))]
<1>1. Survivors(h) = K[L]
  BY DEF Survivors
<1>2. /\ L \in Nat /\ m \in Nat /\ r \in Nat /\ 1 <= m /\ m + r <= L + 1
      /\ \A i \in 1..L : Survives(h, i) <=> (i < m \/ i >= m + r)
  BY DEF IsRun
<1>3. \A i \in 0..L : N(i) \in Nat /\ \A j \in 1..N(i) : Shift(m, r, j) \in 1..L
  BY <1>2 DEF Shift
<1>4. PickList(m, r, 0) = <<>>
  BY DEF PickList
<1>5. ASSUME NEW i \in 1..L
      PROVE  W[i] = IF Survives(h, i) THEN Append(W[i - 1], list[i]) ELSE W[i - 1]
  <2>0. i \in 0..L /\ i - 1 \in 0..L /\ i \in Nat
    BY <1>2
  <2>1. CASE i < m \/ i >= m + r
    <3>1. N(i) = N(i - 1) + 1 /\ i = Shift(m, r, N(i)) /\ N(i - 1) \in Nat
      BY <2>0, <2>1, <1>2 DEF Shift
    <3>2. \A j \in 1..(N(i - 1) + 1) : Shift(m, r, j) \in 1..L
      BY <2>0, <3>1, <1>3
    <3>3. Append(PickList(m, r, N(i - 1)), list[i]) = PickList(m, r, N(i - 1) + 1)
      <4> DEFINE c == N(i - 1)
      <4>1. c \in Nat /\ i = Shift(m, r, c + 1) /\ \A j \in 1..(c + 1) : Shift(m, r, j) \in 1..Len(list)
        BY <3>1, <3>2
      <4> HIDE DEF N, c
      <4>2. Append(PickList(m, r, c), list[i]) = PickList(m, r, c + 1)
        BY <4>1, <1>2, PickListGrows
      <4> QED
        BY <4>2 DEF c
    <3>4. W[i] = PickList(m, r, N(i)) /\ W[i - 1] = PickList(m, r, N(i - 1))
      BY <2>0
    <3>5. Survives(h, i)
      BY <2>1, <1>2
    <3> HIDE DEF W, N
    <3> QED
      BY <3>1, <3>3, <3>4, <3>5
  <2>2. CASE ~(i < m \/ i >= m + r)
    <3>1. N(i) = N(i - 1)
      BY <2>0, <2>2, <1>2
    <3>2. W[i] = W[i - 1]
      BY <2>0, <3>1
    <3>3. ~Survives(h, i)
      BY <2>2, <1>2
    <3> HIDE DEF W, N
    <3> QED
      BY <3>2, <3>3
  <2> QED
    BY <2>1, <2>2
<1>6. W[0] = <<>> /\ DOMAIN W = 0..L
  BY <1>2, <1>4
<1>7. W[L] = PickList(m, r, L - r)
  <2>1. N(L) = L - r /\ L \in 0..L
    BY <1>2
  <2> QED
    BY <2>1
<1>8. W = body(W)
  <2>1. W = [i \in 0..L |-> W[i]]
    OBVIOUS
  <2> HIDE DEF W
  <2>2. \A i \in 0..L : W[i] = IF i = 0 THEN <<>>
                               ELSE IF Survives(h, i) THEN Append(W[i - 1], list[i])
                               ELSE W[i - 1]
    <3>1. \A i \in 0..L : i # 0 => i \in 1..L
      BY <1>2
    <3> QED
      BY <3>1, <1>5, <1>6
  <2>3. [i \in 0..L |-> W[i]] = body(W)
    BY <2>2
  <2> QED
    BY <2>1, <2>3
<1>9. K = body(K)
  <2> HIDE DEF W, body
  <2> QED
    BY <1>8
<1>10. /\ K[0] = <<>>
       /\ \A i \in 1..L : K[i] = IF Survives(h, i) THEN Append(K[i - 1], list[i]) ELSE K[i - 1]
  <2> HIDE DEF K
  <2>1. \A i \in 0..L : K[i] = IF i = 0 THEN <<>>
                               ELSE IF Survives(h, i) THEN Append(K[i - 1], list[i])
                               ELSE K[i - 1]
    BY <1>9
  <2>2. 0 \in 0..L /\ \A i \in 1..L : i \in 0..L /\ i # 0
    BY <1>2
  <2> QED
    BY <2>1, <2>2
<1> DEFINE Bad == {i \in 0..L : K[i] # W[i]}
<1>11. Bad = {}
  <2> SUFFICES ASSUME Bad # {} PROVE FALSE
    OBVIOUS
  <2> HIDE DEF K, W
  <2>1. Bad \subseteq Nat
    BY <1>2
  <2>2. PICK k \in Bad : \A j \in Bad : k <= j
    BY <2>1, LeastNat
  <2>3. k \in 0..L /\ K[k] # W[k]
    OBVIOUS
  <2>4. k # 0
    BY <2>3, <1>6, <1>10
  <2>5. k \in 1..L /\ k - 1 \in 0..L /\ k - 1 < k
    BY <2>3, <2>4, <1>2
  <2>6. k - 1 \notin Bad
    BY <2>2, <2>3, <2>5
  <2>7. K[k - 1] = W[k - 1]
    BY <2>5, <2>6
  <2> QED
    BY <2>3, <2>5, <2>7, <1>5, <1>10
<1>12. K[L] = W[L]
  <2>1. L \in 0..L
    BY <1>2
  <2> HIDE DEF K, W
  <2> QED
    BY <2>1, <1>11
<1> QED
  BY <1>1, <1>7, <1>12

(* The headers h of the listed blocks have the sizes of hdr. *)
SameSizes(h) ==
  \A i \in 1..Len(list) : IsHeader(h, list[i]) /\ EndOf(h, list[i]) = EndOf(hdr, list[i])

(* The last block that is merged into block i. *)
LastOf(m, r, i) == IF m - 1 <= i /\ i < m + r THEN m + r - 1 ELSE i

(* A block swallows its run: it ends where the last block of the run did. *)
LEMMA RunSizeIs ==
  ASSUME NEW lo, NEW hi, IsTiling(lo, hi, hdr, list), NEW h, SameSizes(h),
         NEW m, NEW r, IsRun(h, m, r), NEW i0 \in 1..Len(list)
  PROVE  RunSize(h)[i0] = EndOf(hdr, list[LastOf(m, r, i0)]) - list[i0] - HeaderSize
<1> DEFINE L == Len(list)
           more(i) == i < L /\ h[list[i]].free /\ h[list[i + 1]].free
           body(f) == [i \in 1..L |->
                         h[list[i]].size + (IF i < L /\ h[list[i]].free /\ h[list[i + 1]].free
                                              THEN HeaderSize + f[i + 1] ELSE 0)]
           R == CHOOSE f : f = body(f)
           end(i) == EndOf(hdr, list[i])
           V == [i \in 1..L |-> end(LastOf(m, r, i)) - list[i] - HeaderSize]
<1>1. RunSize(h) = R
  BY DEF RunSize
<1>2. /\ L \in Nat /\ m \in Nat /\ r \in Nat /\ 1 <= m /\ m + r <= L + 1 /\ (r # 0 => m > 1)
      /\ \A i \in 1..L : Survives(h, i) <=> (i < m \/ i >= m + r)
  BY TilingBounds DEF IsRun
<1>3. \A i \in 1..L : list[i] \in Nat /\ end(i) \in Nat
  BY TilingBounds
<1>4. ASSUME NEW i \in 1..L
      PROVE  h[list[i]].size = end(i) - list[i] - HeaderSize
  <2>1. h[list[i]] \in Header /\ EndOf(h, list[i]) = end(i)
    BY DEF SameSizes, IsHeader
  <2>2. h[list[i]].size \in Nat /\ end(i) = list[i] + HeaderSize + h[list[i]].size
    BY <2>1 DEF Header, EndOf
  <2> HIDE DEF end
  <2> QED
    BY <2>2, <1>3, HeapConstants
<1>5. ASSUME NEW i \in 1..L, i < L PROVE end(i) = list[i + 1] /\ i + 1 \in 1..L
  <2>1. i \in 1..(Len(list) - 1)
    BY <1>2, <1>5
  <2> QED
    BY <2>1 DEF IsTiling
<1>6. ASSUME NEW i \in 1..L PROVE more(i) <=> (m - 1 <= i /\ i < m + r - 1)
  <2>1. CASE i < L
    <3>1. i + 1 \in 1..L /\ i + 1 # 1 /\ (i + 1) - 1 = i
      BY <2>1, <1>2
    <3>2. Survives(h, i + 1) <=> ~h[list[i + 1]].free \/ ~h[list[i]].free
      BY <3>1 DEF Survives
    <3>3. Survives(h, i + 1) <=> (i + 1 < m \/ i + 1 >= m + r)
      BY <3>1, <1>2
    <3>4. more(i) <=> ~Survives(h, i + 1)
      BY <2>1, <3>2
    <3> HIDE DEF more
    <3> QED
      BY <3>3, <3>4, <1>2
  <2>2. CASE i >= L
    BY <2>2, <1>2
  <2> QED
    BY <2>1, <2>2, <1>2
<1>7. ASSUME NEW i \in 1..L PROVE LastOf(m, r, i) \in 1..L
  BY <1>2 DEF LastOf
<1>8. ASSUME NEW i \in 1..L
      PROVE  V[i] = h[list[i]].size + (IF more(i) THEN HeaderSize + V[i + 1] ELSE 0)
  <2>1. CASE more(i)
    <3>1. m - 1 <= i /\ i < m + r - 1 /\ i < L
      BY <2>1, <1>6
    <3>2. i + 1 \in 1..L /\ end(i) = list[i + 1]
      BY <3>1, <1>5
    <3>3. LastOf(m, r, i) = m + r - 1 /\ LastOf(m, r, i + 1) = m + r - 1 /\ m + r - 1 \in 1..L
      BY <3>1, <3>2, <1>2 DEF LastOf
    <3> DEFINE e == end(m + r - 1)
    <3>4. e \in Nat /\ list[i] \in Nat /\ list[i + 1] \in Nat
      BY <3>2, <3>3, <1>3
    <3>5. V[i] = e - list[i] - HeaderSize /\ V[i + 1] = e - list[i + 1] - HeaderSize
      BY <3>2, <3>3
    <3>6. h[list[i]].size = list[i + 1] - list[i] - HeaderSize
      BY <3>2, <1>4
    <3> HIDE DEF V, e, more
    <3>7. V[i] = h[list[i]].size + (HeaderSize + V[i + 1])
      BY <3>4, <3>5, <3>6, HeapConstants
    <3> QED
      BY <2>1, <3>7
  <2>2. CASE ~more(i)
    <3>1. ~(m - 1 <= i /\ i < m + r - 1)
      BY <2>2, <1>6
    <3>2. LastOf(m, r, i) = i
      BY <3>1, <1>2 DEF LastOf
    <3>3. V[i] = end(i) - list[i] - HeaderSize
      BY <3>2
    <3> HIDE DEF V, more, end
    <3>4. V[i] = h[list[i]].size /\ h[list[i]].size + 0 = h[list[i]].size
      BY <3>3, <1>3, <1>4, HeapConstants
    <3> QED
      BY <2>2, <3>4
  <2> QED
    BY <2>1, <2>2
<1>9. V = body(V)
  <2>1. V = [i \in 1..L |-> V[i]]
    OBVIOUS
  <2> HIDE DEF V
  <2>2. [i \in 1..L |-> V[i]] = body(V)
    BY <1>8
  <2> QED
    BY <2>1, <2>2
<1>10. R = body(R)
  <2> HIDE DEF V, body
  <2> QED
    BY <1>9
<1>11. \A i \in 1..L : R[i] = h[list[i]].size + (IF more(i) THEN HeaderSize + R[i + 1] ELSE 0)
  <2> HIDE DEF R
  <2> QED
    BY <1>10
<1> DEFINE Bad == {i \in 1..L : R[i] # V[i]}
           Dist == {L - i : i \in Bad}
<1>12. Bad = {}
  <2> SUFFICES ASSUME Bad # {} PROVE FALSE
    OBVIOUS
  <2> HIDE DEF R, V, more
  <2>1. Dist \subseteq Nat /\ Dist # {}
    BY <1>2
  <2>2. PICK d \in Dist : \A j \in Dist : d <= j
    BY <2>1, LeastNat
  <2>3. PICK k \in Bad : d = L - k
    OBVIOUS
  <2>4. k \in 1..L /\ R[k] # V[k]
    OBVIOUS
  <2>5. k + 1 \notin Bad
    <3>1. k + 1 \in Bad => L - k <= L - (k + 1)
      BY <2>2, <2>3
    <3> QED
      BY <3>1, <2>4, <1>2
  <2>6. CASE more(k)
    <3>1. k + 1 \in 1..L
      BY <2>4, <2>6, <1>5 DEF more
    <3>2. R[k + 1] = V[k + 1]
      BY <3>1, <2>5
    <3> QED
      BY <2>4, <2>6, <3>2, <1>8, <1>11
  <2>7. CASE ~more(k)
    BY <2>4, <2>7, <1>8, <1>11
  <2> QED
    BY <2>6, <2>7
<1>13. R[i0] = V[i0]
  <2> HIDE DEF R, V
  <2> QED
    BY <1>12
<1>14. V[i0] = EndOf(hdr, list[LastOf(m, r, i0)]) - list[i0] - HeaderSize
  OBVIOUS
<1> HIDE DEF R, V
<1> QED
  BY <1>1, <1>13, <1>14

(* A free adds one free block, so the blocks that are merged away are that *)
(* block, the next one, or both.                                           *)
LEMMA RunExists ==
  ASSUME NEW lo, NEW hi, IsTiling(lo, hi, hdr, list), NEW h, NEW k \in 1..Len(list),
         \A j \in 1..Len(list) : j # k => h[list[j]] = hdr[list[j]]
  PROVE  \E m, r : IsRun(h, m, r)
<1> DEFINE L == Len(list)
           gone(i) == i \in 1..L /\ ~Survives(h, i)
<1>1. L \in Nat /\ k \in 1..L /\ k \in Nat /\ 1 <= k /\ k <= L
  BY TilingBounds
<1>2. ASSUME NEW i \in 1..L, ~Survives(h, i) PROVE i # 1 /\ (i = k \/ i = k + 1)
  <2>1. i # 1 /\ h[list[i]].free /\ h[list[i - 1]].free
    BY <1>2 DEF Survives
  <2>2. i - 1 \in 1..L /\ i - 1 \in 1..(Len(list) - 1) /\ (i - 1) + 1 = i
    BY <2>1, <1>1
  <2>3. ~(hdr[list[i - 1]].free /\ hdr[list[(i - 1) + 1]].free)
    BY <2>2 DEF IsTiling
  <2>4. ~(i # k /\ i - 1 # k)
    BY <2>1, <2>2, <2>3
  <2> QED
    BY <2>1, <2>4, <1>1
<1>3. \A i \in 1..L : ~gone(i) <=> Survives(h, i)
  OBVIOUS
<1>4. CASE gone(k) /\ gone(k + 1)
  <2>1. k > 1 /\ k + 2 <= L + 1
    BY <1>1, <1>2, <1>4
  <2>2. ASSUME NEW i \in 1..L PROVE Survives(h, i) <=> (i < k \/ i >= k + 2)
    <3>1. i = k \/ i = k + 1 => ~Survives(h, i)
      BY <1>4
    <3> QED
      BY <3>1, <1>1, <1>2
  <2>3. IsRun(h, k, 2)
    BY <1>1, <2>1, <2>2 DEF IsRun
  <2> QED
    BY <2>3
<1>5. CASE gone(k) /\ ~gone(k + 1)
  <2>1. k > 1
    BY <1>1, <1>2, <1>5
  <2>2. ASSUME NEW i \in 1..L PROVE Survives(h, i) <=> (i < k \/ i >= k + 1)
    <3>1. (i = k => ~Survives(h, i)) /\ (i = k + 1 => Survives(h, i))
      BY <1>5
    <3> QED
      BY <3>1, <1>1, <1>2
  <2>3. IsRun(h, k, 1)
    BY <1>1, <2>1, <2>2 DEF IsRun
  <2> QED
    BY <2>3
<1>6. CASE ~gone(k) /\ gone(k + 1)
  <2>1. k + 1 > 1 /\ (k + 1) + 1 <= L + 1
    BY <1>1, <1>6
  <2>2. ASSUME NEW i \in 1..L PROVE Survives(h, i) <=> (i < k + 1 \/ i >= (k + 1) + 1)
    <3>1. (i = k => Survives(h, i)) /\ (i = k + 1 => ~Survives(h, i))
      BY <1>6
    <3> QED
      BY <3>1, <1>1, <1>2
  <2>3. IsRun(h, k + 1, 1)
    BY <1>1, <2>1, <2>2 DEF IsRun
  <2> QED
    BY <2>3
<1>7. CASE ~gone(k) /\ ~gone(k + 1)
  <2>1. ASSUME NEW i \in 1..L PROVE Survives(h, i) /\ i < L + 1
    <3>1. i = k \/ i = k + 1 => Survives(h, i)
      BY <1>7
    <3> QED
      BY <3>1, <1>1, <1>2
  <2>2. IsRun(h, L + 1, 0)
    BY <1>1, <2>1 DEF IsRun
  <2> QED
    BY <2>2
<1> QED
  BY <1>4, <1>5, <1>6, <1>7

(* The headers g extend each surviving block over its run. *)
Merges(h, g, m, r) ==
  \A i \in 1..Len(list) :
    Survives(h, i) => /\ IsHeader(g, list[i]) /\ g[list[i]].free = h[list[i]].free
                      /\ EndOf(g, list[i]) = EndOf(hdr, list[LastOf(m, r, i)])

(* Coalescing leaves a tiling in which no free block follows a free one. *)
LEMMA MergedTiling ==
  ASSUME NEW lo, NEW hi, IsTiling(lo, hi, hdr, list), NEW h, SameSizes(h),
         NEW m, NEW r, IsRun(h, m, r), NEW g, Merges(h, g, m, r),
         NEW s, s = PickList(m, r, Len(list) - r)
  PROVE  /\ IsTiling(lo, hi, g, s)
         /\ \A i \in 1..Len(list) : Survives(h, i) => \E j \in 1..Len(s) : s[j] = list[i]
<1> DEFINE L == Len(list)
           M == L - r
           sh(j) == Shift(m, r, j)
           la(j) == LastOf(m, r, sh(j))
<1>1. /\ L \in Nat /\ m \in Nat /\ r \in Nat /\ 1 <= m /\ m + r <= L + 1 /\ (r # 0 => m > 1)
      /\ \A i \in 1..L : Survives(h, i) <=> (i < m \/ i >= m + r)
      /\ L >= 1 /\ list \in Seq(Nat)
  BY TilingBounds DEF IsRun, IsTiling
<1>2. /\ list[1] = lo /\ EndOf(hdr, list[L]) = hi
      /\ \A i \in 1..(L - 1) : EndOf(hdr, list[i]) = list[i + 1]
      /\ \A i, j \in 1..L : i < j => EndOf(hdr, list[i]) <= list[j]
      /\ \A i \in 1..L : (list[i] + HeaderSize) % Align = 0
  BY DEF IsTiling
<1>3. M \in Nat /\ M >= 1
  BY <1>1
<1>4. ASSUME NEW j \in 1..M
      PROVE  /\ sh(j) \in 1..L /\ la(j) \in 1..L /\ Survives(h, sh(j))
             /\ j < M => la(j) + 1 = sh(j + 1) /\ j + 1 \in 1..M
             /\ j = M => la(j) = L
  <2>1. sh(j) \in 1..L /\ (sh(j) < m \/ sh(j) >= m + r)
    BY <1>1 DEF Shift
  <2>2. la(j) \in 1..L
    BY <1>1 DEF Shift, LastOf
  <2>3. j < M => la(j) + 1 = sh(j + 1) /\ j + 1 \in 1..M
    BY <1>1, <1>3 DEF Shift, LastOf
  <2>4. j = M => la(j) = L
    BY <1>1, <1>3 DEF Shift, LastOf
  <2> QED
    BY <2>1, <2>2, <2>3, <2>4, <1>1
<1>5. ASSUME NEW j \in 1..M, NEW k \in 1..M, j < k PROVE la(j) < sh(k)
  BY <1>1, <1>5 DEF Shift, LastOf
<1>6. /\ s \in Seq(Nat) /\ Len(s) = M
      /\ \A j \in 1..M : s[j] = list[sh(j)]
  <2>1. \A j \in 1..M : Shift(m, r, j) \in 1..Len(list)
    BY <1>4
  <2> QED
    BY <2>1, <1>1, <1>3, PickListIs
<1> HIDE DEF M, sh, la
<1>7. ASSUME NEW j \in 1..M
      PROVE  /\ IsHeader(g, s[j]) /\ g[s[j]].free = h[list[sh(j)]].free
             /\ EndOf(g, s[j]) = EndOf(hdr, list[la(j)])
             /\ (s[j] + HeaderSize) % Align = 0
  <2>1. sh(j) \in 1..L /\ Survives(h, sh(j)) /\ s[j] = list[sh(j)]
    BY <1>4, <1>6
  <2>2. /\ IsHeader(g, list[sh(j)]) /\ g[list[sh(j)]].free = h[list[sh(j)]].free
        /\ EndOf(g, list[sh(j)]) = EndOf(hdr, list[LastOf(m, r, sh(j))])
    BY <2>1 DEF Merges
  <2> QED
    BY <2>1, <2>2, <1>2 DEF la
<1>8. EndOf(g, s[M]) = hi
  <2>1. M \in 1..M
    BY <1>3
  <2> QED
    BY <2>1, <1>2, <1>4, <1>7
<1>9. ASSUME NEW j \in 1..(M - 1) PROVE EndOf(g, s[j]) = s[j + 1]
  <2>1. j \in 1..M /\ j < M
    BY <1>3
  <2>2. la(j) + 1 = sh(j + 1) /\ j + 1 \in 1..M /\ la(j) \in 1..L
    BY <2>1, <1>4
  <2>3. sh(j + 1) \in 1..L /\ s[j + 1] = list[sh(j + 1)]
    BY <2>2, <1>4, <1>6
  <2>4. la(j) \in 1..(L - 1)
    BY <2>2, <2>3, <1>1
  <2>5. EndOf(hdr, list[la(j)]) = list[la(j) + 1]
    BY <2>4, <1>2
  <2> QED
    BY <2>1, <2>2, <2>3, <2>5, <1>7
<1>10. ASSUME NEW j \in 1..M, NEW k \in 1..M, j < k PROVE EndOf(g, s[j]) <= s[k]
  <2>1. la(j) \in 1..L /\ sh(k) \in 1..L /\ la(j) < sh(k) /\ s[k] = list[sh(k)]
    BY <1>4, <1>5, <1>6, <1>10
  <2>2. EndOf(hdr, list[la(j)]) <= list[sh(k)]
    BY <2>1, <1>2
  <2> QED
    BY <2>1, <2>2, <1>7
<1>11. ASSUME NEW j \in 1..(M - 1) PROVE ~(g[s[j]].free /\ g[s[j + 1]].free)
  <2>1. j \in 1..M /\ j < M
    BY <1>3
  <2>2. /\ la(j) + 1 = sh(j + 1) /\ j + 1 \in 1..M /\ la(j) \in 1..L /\ sh(j) \in 1..L
        /\ sh(j + 1) \in 1..L /\ Survives(h, sh(j + 1))
    BY <2>1, <1>4
  <2>3. sh(j + 1) # 1 /\ sh(j + 1) - 1 = la(j)
    BY <2>2
  <2>4. ~h[list[sh(j + 1)]].free \/ ~h[list[la(j)]].free
    BY <2>2, <2>3 DEF Survives
  <2>5. g[s[j]].free = h[list[sh(j)]].free /\ g[s[j + 1]].free = h[list[sh(j + 1)]].free
    BY <2>1, <2>2, <1>7
  <2>6. CASE la(j) = sh(j)
    BY <2>4, <2>5, <2>6
  <2>7. CASE la(j) # sh(j)
    <3>1. m <= la(j) /\ la(j) < m + r
      BY <2>2, <2>7, <1>1, <2>1 DEF la, LastOf, sh, Shift
    <3>2. ~Survives(h, la(j))
      BY <3>1, <2>2, <1>1
    <3>3. h[list[la(j)]].free
      BY <3>2 DEF Survives
    <3> QED
      BY <3>3, <2>4, <2>5
  <2> QED
    BY <2>6, <2>7
<1>12. s[1] = lo
  <2>1. 1 \in 1..M /\ sh(1) = 1
    BY <1>1, <1>3 DEF sh, Shift
  <2> QED
    BY <2>1, <1>2, <1>6
<1>13. IsTiling(lo, hi, g, s)
  BY <1>3, <1>6, <1>7, <1>8, <1>9, <1>10, <1>11, <1>12 DEF IsTiling
<1>14. ASSUME NEW i \in 1..L, Survives(h, i) PROVE \E j \in 1..Len(s) : s[j] = list[i]
  <2>1. i < m \/ i >= m + r
    BY <1>1, <1>14
  <2>2. CASE i < m
    <3>1. i \in 1..M /\ sh(i) = i
      BY <2>2, <1>1 DEF sh, Shift, M
    <3> QED
      BY <3>1, <1>6
  <2>3. CASE i >= m + r
    <3>1. i - r \in 1..M /\ sh(i - r) = i
      BY <2>3, <1>1 DEF sh, Shift, M
    <3> QED
      BY <3>1, <1>6
  <2> QED
    BY <2>1, <2>2, <2>3
<1> QED
  BY <1>13, <1>14

(* The header of a surviving block after coalescing, and all others. *)
LEMMA CoalescedIs ==
  ASSUME NEW lo, NEW hi, IsTiling(lo, hi, hdr, list), NEW h, SameSizes(h),
         NEW m, NEW r, IsRun(h, m, r), NEW i \in 1..Len(list), Survives(h, i)
  PROVE  /\ Coalesced(h)[list[i]] \in Header
         /\ Coalesced(h)[list[i]].free = h[list[i]].free
         /\ Coalesced(h)[list[i]].size >= h[list[i]].size
         /\ EndOf(Coalesced(h), list[i]) = EndOf(hdr, list[LastOf(m, r, i)])
<1> DEFINE a == list[i]
           size == RunSize(h)[i]
           b == LastOf(m, r, i)
<1>1. (CHOOSE j \in 1..Len(list) : list[j] = a) = i
  BY TilingBounds
<1>2. a \in DOMAIN h /\ h[a] \in Header /\ EndOf(h, a) = EndOf(hdr, a)
  BY DEF SameSizes, IsHeader
<1>3. Coalesced(h)[a] = [h[a] EXCEPT !.size = size]
  BY <1>1, <1>2 DEF Coalesced
<1>4. size = EndOf(hdr, list[b]) - a - HeaderSize
  BY RunSizeIs
<1>5. /\ Len(list) \in Nat /\ m \in Nat /\ r \in Nat /\ 1 <= m /\ m + r <= Len(list) + 1
  BY TilingBounds DEF IsRun
<1>6. b \in 1..Len(list) /\ i <= b
  BY <1>5 DEF LastOf
<1>7. a \in Nat /\ EndOf(hdr, a) \in Nat /\ EndOf(hdr, list[b]) \in Nat /\ EndOf(hdr, a) <= EndOf(hdr, list[b])
  <2>1. a \in Nat /\ EndOf(hdr, a) \in Nat /\ EndOf(hdr, list[b]) \in Nat
    BY <1>6, TilingBounds
  <2>2. CASE i = b
    BY <2>1, <2>2
  <2>3. CASE i < b
    <3>1. EndOf(hdr, a) <= list[b] /\ list[b] < EndOf(hdr, list[b]) /\ list[b] \in Nat
      BY <2>3, <1>6, TilingBounds
    <3> QED
      BY <3>1, <2>1
  <2> QED
    BY <2>1, <2>2, <2>3, <1>6, <1>5
<1>8. h[a].size \in Nat /\ h[a].free \in BOOLEAN /\ EndOf(hdr, a) = a + HeaderSize + h[a].size
  BY <1>2 DEF Header, EndOf
<1> HIDE DEF a, size, b
<1>9. size \in Nat /\ size >= h[a].size /\ a + HeaderSize + size = EndOf(hdr, list[b])
  BY <1>4, <1>7, <1>8, HeapConstants
<1>10. /\ Coalesced(h)[a] \in Header /\ Coalesced(h)[a].free = h[a].free
       /\ Coalesced(h)[a].size = size
  BY <1>2, <1>3, <1>9 DEF Header
<1> QED
  BY <1>9, <1>10 DEF EndOf, a, b

(* kmem_free_checked: whoever calls it, a header that still says used is   *)
(* that of a listed block with an owner.                                   *)
LEMMA KmemFreeKeeps ==
  ASSUME HeapInv, NEW a, FreeChecked(a)
  PROVE  HeapInv'
<1> DEFINE h == [hdr EXCEPT ![a].free = TRUE]
           lo == g_heap_base
           hi == g_heap_base + g_heap_bytes
<1>1. /\ a \in UsedIn(hdr)
      /\ hdr' = Coalesced(h) /\ list' = Survivors(h)
      /\ live' = [x \in DOMAIN live \ {a} |-> live[x]]
      /\ g_heap_base' = g_heap_base /\ g_heap_bytes' = g_heap_bytes /\ given' = given
  BY DEF FreeChecked, Accepts, UsedIn
<1>2. HeapTypeOK /\ OwnersKept(hdr, list, live)
  BY DEF HeapInv
<1>3. PICK k \in 1..Len(list) : list[k] = a
  BY <1>1, <1>2 DEF OwnersKept
<1>4. g_heap_bytes # 0 /\ DOMAIN hdr = 0..hi /\ IsTiling(lo, hi, hdr, list)
  BY ListIsTiling
<1>5. a \in DOMAIN hdr /\ hdr[a] \in Header
  BY <1>3, <1>4, TilingBounds
<1>6. /\ DOMAIN h = DOMAIN hdr /\ h[a] = [hdr[a] EXCEPT !.free = TRUE]
      /\ \A x \in DOMAIN hdr : x # a => h[x] = hdr[x]
  BY <1>5
<1>7. h[a] \in Header /\ h[a].free = TRUE /\ h[a].size = hdr[a].size
  BY <1>5, <1>6 DEF Header
<1> HIDE DEF h, lo, hi
<1>8. \A x \in DOMAIN hdr : h[x] = Junk \/ h[x] \in Header
  <2>1. \A x \in DOMAIN hdr : hdr[x] = Junk \/ hdr[x] \in Header
    BY <1>2 DEF HeapTypeOK
  <2> QED
    BY <2>1, <1>6, <1>7
<1>9. UsedIn(h) = UsedIn(hdr) \ {a} /\ \A x \in UsedIn(h) : h[x] = hdr[x]
  BY <1>6, <1>7 DEF UsedIn
<1>10. \A j \in 1..Len(list) : j # k => list[j] # a /\ h[list[j]] = hdr[list[j]]
  <2>1. \A i, j \in 1..Len(list) : list[i] = list[j] => i = j
    BY <1>4, TilingBounds
  <2>2. \A j \in 1..Len(list) : list[j] \in DOMAIN hdr
    BY <1>4, TilingBounds
  <2> QED
    BY <2>1, <2>2, <1>3, <1>6
<1>11. SameSizes(h)
  <2> SUFFICES ASSUME NEW j \in 1..Len(list)
               PROVE  IsHeader(h, list[j]) /\ EndOf(h, list[j]) = EndOf(hdr, list[j])
    BY DEF SameSizes
  <2>1. list[j] \in DOMAIN hdr /\ hdr[list[j]] \in Header
    BY <1>4, TilingBounds
  <2>2. h[list[j]] \in Header /\ h[list[j]].size = hdr[list[j]].size
    BY <2>1, <1>3, <1>7, <1>10
  <2> QED
    BY <2>1, <2>2, <1>6 DEF IsHeader, EndOf
<1>12. PICK m, r : IsRun(h, m, r)
  BY <1>4, <1>10, RunExists
<1> DEFINE g == Coalesced(h)
           s == PickList(m, r, Len(list) - r)
<1>13. DOMAIN g = DOMAIN hdr
  BY <1>6 DEF Coalesced
<1>14. ASSUME NEW i \in 1..Len(list), Survives(h, i)
       PROVE  /\ g[list[i]] \in Header /\ g[list[i]].free = h[list[i]].free
              /\ g[list[i]].size >= h[list[i]].size
              /\ EndOf(g, list[i]) = EndOf(hdr, list[LastOf(m, r, i)])
  BY <1>4, <1>11, <1>12, <1>14, CoalescedIs
<1>15. ASSUME NEW x \in DOMAIN hdr, \A i \in 1..Len(list) : Survives(h, i) => list[i] # x
       PROVE  g[x] = h[x]
  BY <1>6, <1>15 DEF Coalesced
<1> HIDE DEF g
<1>16. Merges(h, g, m, r)
  <2>1. \A i \in 1..Len(list) : list[i] \in DOMAIN hdr
    BY <1>4, TilingBounds
  <2> QED
    BY <2>1, <1>13, <1>14 DEF Merges, IsHeader
<1>17. Survivors(h) = s
  BY <1>2, <1>12, SurvivorsIs DEF HeapTypeOK
<1> HIDE DEF s
<1>18. /\ IsTiling(lo, hi, g, s)
       /\ \A i \in 1..Len(list) : Survives(h, i) => \E j \in 1..Len(s) : s[j] = list[i]
  BY <1>4, <1>11, <1>12, <1>16, MergedTiling DEF s
<1>19. ASSUME NEW x \in DOMAIN hdr
       PROVE  /\ g[x] = Junk \/ g[x] \in Header
              /\ x \in UsedIn(g) <=> x \in UsedIn(h)
  <2>1. CASE \E i \in 1..Len(list) : Survives(h, i) /\ list[i] = x
    <3>1. PICK i \in 1..Len(list) : Survives(h, i) /\ list[i] = x
      BY <2>1
    <3>2. g[x] \in Header /\ g[x].free = h[x].free
      BY <3>1, <1>14
    <3>3. h[x] \in Header
      BY <3>1, <1>11 DEF SameSizes, IsHeader
    <3> QED
      BY <3>2, <3>3, <1>6, <1>13, HeapConstants DEF UsedIn
  <2>2. CASE ~\E i \in 1..Len(list) : Survives(h, i) /\ list[i] = x
    <3>1. g[x] = h[x]
      BY <2>2, <1>15
    <3> QED
      BY <3>1, <1>6, <1>8, <1>13 DEF UsedIn
  <2> QED
    BY <2>1, <2>2
<1>20. UsedIn(g) = UsedIn(hdr) \ {a}
  <2>1. UsedIn(g) \subseteq DOMAIN hdr /\ UsedIn(h) \subseteq DOMAIN hdr
    BY <1>6, <1>13 DEF UsedIn
  <2> QED
    BY <2>1, <1>9, <1>19
<1>21. ASSUME NEW x \in UsedIn(g)
       PROVE  /\ Roundable(live'[x]) => g[x].size >= live'[x]
              /\ \E j \in 1..Len(s) : s[j] = x
  <2>1. x \in UsedIn(hdr) /\ x # a /\ x \in UsedIn(h) /\ h[x] = hdr[x]
    BY <1>9, <1>20
  <2>2. PICK i \in 1..Len(list) : list[i] = x
    BY <2>1, <1>2 DEF OwnersKept
  <2>3. Survives(h, i)
    BY <2>1, <2>2 DEF UsedIn, Survives
  <2>4. g[x].size >= hdr[x].size /\ g[x].size \in Nat /\ hdr[x].size \in Nat
    <3>1. g[x] \in Header /\ g[x].size >= h[x].size
      BY <2>2, <2>3, <1>14
    <3>2. hdr[x] \in Header
      BY <2>2, <1>4, TilingBounds
    <3> QED
      BY <2>1, <3>1, <3>2 DEF Header
  <2>5. live'[x] = live[x] /\ live[x] \in Nat /\ (Roundable(live[x]) => hdr[x].size >= live[x])
    BY <2>1, <1>1, <1>2 DEF OwnersKept, HeapTypeOK
  <2>6. Roundable(live'[x]) => g[x].size >= live'[x]
    BY <2>4, <2>5
  <2> QED
    BY <2>2, <2>3, <2>6, <1>18
<1>22. DOMAIN live' = DOMAIN live \ {a} /\ UsedIn(hdr) = DOMAIN live
  BY <1>1, <1>2 DEF OwnersKept
<1>23. OwnersKept(g, s, live')
  BY <1>20, <1>21, <1>22 DEF OwnersKept
<1>24. hdr' = g /\ list' = s
  BY <1>1, <1>17 DEF g
<1>25. HeapTypeOK'
  <2>1. g \in [DOMAIN g -> {Junk} \cup Header]
    <3>1. g = [x \in DOMAIN g |-> g[x]]
      BY DEF g, Coalesced
    <3> QED
      BY <3>1, <1>13, <1>19
  <2>2. s \in Seq(Nat)
    BY <1>18 DEF IsTiling
  <2>3. live' \in [DOMAIN live' -> Nat] /\ DOMAIN live' \subseteq given'
    BY <1>1, <1>2 DEF HeapTypeOK
  <2> QED
    BY <2>1, <2>2, <2>3, <1>1, <1>2, <1>24 DEF HeapTypeOK
<1>26. OwnersKept(hdr, list, live)'
  BY <1>23, <1>24
<1>27. IsTiling(g_heap_base, g_heap_base + g_heap_bytes, hdr', list')
  BY <1>18, <1>24 DEF lo, hi
<1>28. DOMAIN hdr' = 0..(g_heap_base + g_heap_bytes)
  BY <1>4, <1>13, <1>24 DEF hi
<1> QED
  BY <1>1, <1>4, <1>25, <1>26, <1>27, <1>28 DEF HeapInv

(* Every call keeps the invariant. *)
LEMMA NextHeap == ArenasBelowMask /\ HeapInv /\ [HeapNext]_heapVars => HeapInv'
<1> SUFFICES ASSUME ArenasBelowMask, HeapInv, [HeapNext]_heapVars PROVE HeapInv'
  OBVIOUS
<1>1. CASE UNCHANGED heapVars
  BY <1>1 DEF heapVars, HeapInv, HeapTypeOK
<1>2. ASSUME NEW arena \in Arenas, KmemInit(arena[1], arena[2]) PROVE HeapInv'
  <2>1. arena[1] \in Nat /\ arena[2] \in Nat /\ arena[2] + Align <= MaskSize
    BY HeapAssumption DEF ArenasBelowMask
  <2> QED
    BY <1>2, <2>1, KmemInitKeeps
<1>3. ASSUME NEW n \in Requests, Alloc(n) PROVE HeapInv'
  BY <1>3, KmemAllocKeeps
<1>4. ASSUME NEW a \in DOMAIN live, Fill(a) PROVE HeapInv'
  BY <1>4, FillKeeps
<1>5. ASSUME NEW a \in given, FreeChecked(a) PROVE HeapInv'
  BY <1>5, KmemFreeKeeps
<1> QED
  BY <1>1, <1>2, <1>3, <1>4, <1>5 DEF HeapNext

(* The heap's invariant, for any arenas below the 32-bit mask, any         *)
(* requests, header size and alignment.                                    *)
THEOREM HeapInvariance == ASSUME ArenasBelowMask PROVE HeapSpec => []HeapInv
BY InitHeap, NextHeap, PTL DEF HeapSpec

(* The block list covers the arena without gap or overlap, with aligned    *)
(* payloads and no two free neighbours, through every split and merge and  *)
(* for requests of any size, in an arena below the 32-bit mask.            *)
THEOREM Tiling == ASSUME ArenasBelowMask PROVE HeapSpec => []BlocksTile
<1>1. HeapInv => BlocksTile
  <2> SUFFICES ASSUME HeapInv, g_heap_bytes # 0
               PROVE  /\ list[1] = g_heap_base
                      /\ \A i \in 1..Len(list) :
                           /\ hdr[list[i]] # Junk
                           /\ (list[i] + HeaderSize) % Align = 0
                           /\ list[i] + HeaderSize + Size(i) =
                                IF i = Len(list) THEN g_heap_base + g_heap_bytes ELSE list[i + 1]
                      /\ \A i \in 1..(Len(list) - 1) : ~(Free(i) /\ Free(i + 1))
    BY DEF BlocksTile
  <2>1. IsTiling(g_heap_base, g_heap_base + g_heap_bytes, hdr, list)
    BY DEF HeapInv
  <2>2. ASSUME NEW i \in 1..Len(list)
        PROVE  /\ hdr[list[i]] # Junk
               /\ (list[i] + HeaderSize) % Align = 0
               /\ list[i] + HeaderSize + Size(i) =
                    IF i = Len(list) THEN g_heap_base + g_heap_bytes ELSE list[i + 1]
    <3>1. hdr[list[i]] # Junk
      BY <2>1, TilingBounds, HeapConstants
    <3>2. (list[i] + HeaderSize) % Align = 0
      BY <2>1 DEF IsTiling
    <3>3. EndOf(hdr, list[i]) = IF i = Len(list) THEN g_heap_base + g_heap_bytes ELSE list[i + 1]
      <4>1. i # Len(list) => i \in 1..(Len(list) - 1)
        BY <2>1, TilingBounds
      <4> QED
        BY <2>1, <4>1 DEF IsTiling
    <3> QED
      BY <3>1, <3>2, <3>3 DEF EndOf, Size
  <2>3. list[1] = g_heap_base /\ \A i \in 1..(Len(list) - 1) : ~(Free(i) /\ Free(i + 1))
    BY <2>1 DEF IsTiling, Free
  <2> QED
    BY <2>2, <2>3
<1> QED
  BY <1>1, HeapInvariance, PTL

(* The used blocks of the list are those whose owners have not freed them, *)
(* whatever they asked for and whatever stale pointers are freed again,    *)
(* and a block is as large as was asked for if rounding the request does   *)
(* not wrap at the 32-bit mask.  The arena lies below that mask.           *)
THEOREM Owners == ASSUME ArenasBelowMask PROVE HeapSpec => []UsedIffOwned
<1>1. HeapInv => UsedIffOwned
  <2> SUFFICES ASSUME HeapInv PROVE UsedIffOwned
    OBVIOUS
  <2>1. OwnersKept(hdr, list, live)
    BY DEF HeapInv
  <2>2. ASSUME NEW i \in 1..Len(list) PROVE list[i] \in UsedIn(hdr) <=> ~Free(i)
    <3>1. list[i] \in DOMAIN hdr /\ hdr[list[i]] \in Header
      BY ListIsTiling, TilingBounds
    <3> QED
      BY <3>1, HeapConstants DEF UsedIn, Free
  <2>3. {list[i] : i \in {j \in 1..Len(list) : ~Free(j)}} = UsedIn(hdr)
    <3>1. ASSUME NEW a \in UsedIn(hdr) PROVE \E i \in 1..Len(list) : ~Free(i) /\ list[i] = a
      BY <2>1, <2>2 DEF OwnersKept
    <3> QED
      BY <2>2, <3>1
  <2>4. LargeEnough
    BY <2>1 DEF LargeEnough, OwnersKept, UsedIn
  <2> QED
    BY <2>1, <2>3, <2>4 DEF UsedIffOwned, OwnersKept
<1> QED
  BY <1>1, HeapInvariance, PTL
=============================================================================
