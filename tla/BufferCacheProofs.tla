------------------------- MODULE BufferCacheProofs -------------------------
(***************************************************************************)
(* The buffer cache of kernel/block/bcache.c is coherent and implements a  *)
(* write-back store, for any devices, sizes, contents and number of        *)
(* entries, with drivers that may fail any request and callers that go     *)
(* round the cache.                                                        *)
(***************************************************************************)
EXTENDS BufferCache, TLAPS

(* CacheCoherent, Find and what the store is mapped to, of any entries E,  *)
(* contents D of the devices and bypassed blocks B.                        *)
Unique(E) == \A i, j \in Index : E[i].valid /\ E[j].valid /\ E[i].block = E[j].block => i = j
CleanAgrees(E, D, B) ==
  \A i \in Index : E[i].valid /\ ~E[i].dirty
    => E[i].block \in OnDevice /\ (D[E[i].block] = E[i].data \/ E[i].block \in B)
Named(E) == \A i \in Index : E[i].valid <=> E[i].block # NoBlock
Coherent(E, D, B) == /\ D \in [OnDevice -> Value]
                     /\ E \in [Index -> Entry]
                     /\ Named(E)
                     /\ Unique(E)
                     /\ CleanAgrees(E, D, B)
FindIn(E, b) == {i \in Index : E[i].valid /\ E[i].block = b}
HeldIn(D) == [b \in Blocks |-> IF b \in OnDevice THEN D[b] ELSE NoData]
SeenIn(E, D) == [b \in Blocks |-> IF FindIn(E, b) = {} THEN HeldIn(D)[b]
                                  ELSE E[CHOOSE i \in FindIn(E, b) : TRUE].data]
UnwrittenIn(E) == {b \in Blocks : \E i \in FindIn(E, b) : E[i].dirty}

(* The inductive invariant: an entry also names a block just when it is    *)
(* valid.                                                                  *)
CacheInv == TypeOK /\ CacheCoherent /\ Named(entries)

(* The definitions above are the model's. *)
LEMMA SameNames ==
  /\ CacheInv => Coherent(entries, disk, bypassed)
  /\ Held = HeldIn(disk)
  /\ Seen = SeenIn(entries, disk)
  /\ Unwritten = UnwrittenIn(entries)
  /\ \A b : Find(b) = FindIn(entries, b)
<1>1. CacheInv => Coherent(entries, disk, bypassed)
  BY DEF CacheInv, TypeOK, CacheCoherent, Coherent, Unique, CleanAgrees
<1>2. Held = HeldIn(disk) /\ \A b : Find(b) = FindIn(entries, b)
  BY DEF Held, HeldIn, Find, FindIn
<1> QED
  BY <1>1, <1>2 DEF Seen, SeenIn, Unwritten, UnwrittenIn, Find, FindIn

(* The same after a step. *)
LEMMA SameNamesPrime ==
  /\ Coherent(entries', disk', bypassed') => CacheCoherent' /\ Named(entries)'
  /\ Held' = HeldIn(disk')
  /\ Seen' = SeenIn(entries', disk')
  /\ Unwritten' = UnwrittenIn(entries')
<1>1. Coherent(entries', disk', bypassed') => CacheCoherent' /\ Named(entries)'
  BY DEF CacheCoherent, Coherent, Unique, CleanAgrees, Named
<1>2. Held' = HeldIn(disk') /\ \A b : Find(b)' = FindIn(entries', b)
  BY DEF Held, HeldIn, Find, FindIn
<1> QED
  BY <1>1, <1>2 DEF Seen, SeenIn, Unwritten, UnwrittenIn, Find, FindIn

(* What callers see of a block: its entry, which is the only one, or the   *)
(* device.                                                                 *)
LEMMA SeenFacts ==
  ASSUME NEW E, NEW D, NEW B, Coherent(E, D, B)
  PROVE  /\ \A i \in Index : E[i].valid /\ E[i].block \in Blocks
              => /\ SeenIn(E, D)[E[i].block] = E[i].data
                 /\ E[i].block \in UnwrittenIn(E) <=> E[i].dirty
         /\ \A b \in Blocks : (\A i \in Index : ~(E[i].valid /\ E[i].block = b))
              => SeenIn(E, D)[b] = HeldIn(D)[b] /\ b \notin UnwrittenIn(E)
         /\ \A b \in Blocks : HeldIn(D)[b] = IF b \in OnDevice THEN D[b] ELSE NoData
         /\ \A b \in OnDevice : b \in Blocks /\ D[b] \in Value /\ D[b] # NoData
         /\ SeenIn(E, D) \in [Blocks -> Value \cup {NoData}]
         /\ HeldIn(D) \in [Blocks -> Value \cup {NoData}]
<1>0. /\ \A b \in Blocks : HeldIn(D)[b] = IF b \in OnDevice THEN D[b] ELSE NoData
      /\ \A b \in OnDevice : b \in Blocks /\ D[b] \in Value /\ D[b] # NoData
  BY BufferCacheAssumption DEF HeldIn, OnDevice, Coherent
<1>1. ASSUME NEW b \in Blocks, NEW i \in Index, E[i].valid, E[i].block = b
      PROVE  SeenIn(E, D)[b] = E[i].data /\ (b \in UnwrittenIn(E) <=> E[i].dirty)
  <2>1. i \in FindIn(E, b)
    BY <1>1 DEF FindIn
  <2>2. \A c \in FindIn(E, b) : c = i
    BY <1>1 DEF FindIn, Coherent, Unique
  <2>3. (CHOOSE j \in FindIn(E, b) : TRUE) = i
    BY <2>1, <2>2
  <2>4. SeenIn(E, D)[b] = E[i].data
    BY <2>1, <2>3 DEF SeenIn
  <2>5. b \in UnwrittenIn(E) <=> E[i].dirty
    BY <2>1, <2>2 DEF UnwrittenIn
  <2> QED
    BY <2>4, <2>5
<1>2. ASSUME NEW b \in Blocks, \A i \in Index : ~(E[i].valid /\ E[i].block = b)
      PROVE  SeenIn(E, D)[b] = HeldIn(D)[b] /\ b \notin UnwrittenIn(E)
  <2>1. FindIn(E, b) = {}
    BY <1>2 DEF FindIn
  <2> QED
    BY <2>1 DEF SeenIn, UnwrittenIn
<1>3. ASSUME NEW b \in Blocks PROVE HeldIn(D)[b] \in Value \cup {NoData}
  BY <1>0
<1>4. ASSUME NEW b \in Blocks PROVE SeenIn(E, D)[b] \in Value \cup {NoData}
  BY <1>1, <1>2, <1>3 DEF Coherent, Entry
<1>5. /\ SeenIn(E, D) = [b \in Blocks |-> SeenIn(E, D)[b]]
      /\ HeldIn(D) = [b \in Blocks |-> HeldIn(D)[b]]
  BY DEF SeenIn, HeldIn
<1>6. SeenIn(E, D) \in [Blocks -> Value \cup {NoData}] /\ HeldIn(D) \in [Blocks -> Value \cup {NoData}]
  BY <1>3, <1>4, <1>5
<1> QED
  BY <1>0, <1>1, <1>2, <1>6

(* The state in which the step starts. *)
LEMMA Before ==
  ASSUME CacheInv
  PROVE  /\ TypeOK /\ Coherent(entries, disk, bypassed)
         /\ \A i \in Index : entries[i].valid => entries[i].block \in Blocks
         /\ \A i \in Index : entries[i].valid /\ entries[i].block \in Blocks
              => /\ Seen[entries[i].block] = entries[i].data
                 /\ entries[i].block \in Unwritten <=> entries[i].dirty
         /\ \A b \in Blocks : (\A i \in Index : ~(entries[i].valid /\ entries[i].block = b))
              => Seen[b] = Held[b] /\ b \notin Unwritten
         /\ \A b \in Blocks : Held[b] = IF b \in OnDevice THEN disk[b] ELSE NoData
         /\ \A b \in OnDevice : b \in Blocks /\ disk[b] \in Value /\ disk[b] # NoData
<1>1. Coherent(entries, disk, bypassed)
  BY SameNames
<1>2. \A i \in Index : entries[i].valid => entries[i].block \in Blocks
  BY <1>1 DEF Coherent, Entry, Named
<1> QED
  BY <1>1, <1>2, SeenFacts, SameNames DEF CacheInv

(* The state in which it ends. *)
LEMMA After ==
  ASSUME TypeOK', Coherent(entries', disk', bypassed')
  PROVE  /\ CacheInv'
         /\ \A i \in Index : entries'[i].valid /\ entries'[i].block \in Blocks
              => /\ Seen'[entries'[i].block] = entries'[i].data
                 /\ entries'[i].block \in Unwritten' <=> entries'[i].dirty
         /\ \A b \in Blocks : (\A i \in Index : ~(entries'[i].valid /\ entries'[i].block = b))
              => Seen'[b] = Held'[b] /\ b \notin Unwritten'
         /\ \A b \in Blocks : Held'[b] = IF b \in OnDevice THEN disk'[b] ELSE NoData
<1>1. CacheInv'
  BY SameNamesPrime DEF CacheInv
<1> QED
  BY <1>1, SeenFacts, SameNamesPrime

(* mcsos_bcache_init *)
LEMMA InitCache == Init => CacheInv
<1> SUFFICES ASSUME Init PROVE CacheInv
  OBVIOUS
<1>1. Empty \in Entry /\ Empty.valid = FALSE /\ Empty.block = NoBlock
  BY BufferCacheAssumption DEF Empty, Entry
<1>2. TypeOK
  BY <1>1, BufferCacheAssumption DEF Init, TypeOK
<1>3. CacheCoherent /\ Named(entries)
  BY <1>1 DEF Init, CacheCoherent, Named
<1> QED
  BY <1>2, <1>3 DEF CacheInv

-----------------------------------------------------------------------------
(* What may happen to a block in the store. *)
Settled(b) == Store!Kept(b) \/ Store!Written(b) \/ Store!Renewed(b)

(* Entry i is written if it must be, and e takes its place: the cache      *)
(* stays coherent, and only callers that ask for the block of e see        *)
(* something new.                                                          *)
LEMMA FillFacts ==
  ASSUME CacheInv, NEW i \in Index, NEW e \in Entry, Fill(i, e),
         e.valid <=> e.block # NoBlock,
         e.valid => Find(e.block) = {},
         e.valid /\ ~e.dirty => e.block \in OnDevice /\ e.data = disk[e.block]
  PROVE  /\ CacheInv'
         /\ \A b \in Blocks : ~(e.valid /\ e.block = b) => Settled(b)
         /\ \A b \in Blocks : e.valid /\ e.block = b
              => /\ Seen'[b] = e.data /\ Held'[b] = Held[b] /\ Seen[b] = Held[b]
                 /\ b \notin Unwritten /\ (b \in Unwritten' <=> e.dirty)
<1>1. TypeOK /\ Coherent(entries, disk, bypassed)
  BY Before
<1>2. /\ \A j \in Index : entries'[j] = IF j = i THEN e ELSE entries[j]
      /\ entries' \in [Index -> Entry] /\ clock_hand' = i + 1 /\ registry' = registry
      /\ bypassed' = bypassed \ {entries[i].block}
  BY <1>1 DEF Fill, TypeOK
<1>3. ASSUME NEW b \in OnDevice
      PROVE  disk'[b] = IF Stale(i) /\ entries[i].block = b THEN entries[i].data ELSE disk[b]
  BY <1>1 DEF Fill, FlushEntry, TypeOK
<1>4. disk' \in [OnDevice -> Value]
  BY <1>1 DEF Fill, FlushEntry, TypeOK, Entry
<1>5. TypeOK'
  <2>1. i + 1 \in 0..EntryCount
    BY BufferCacheAssumption DEF Index
  <2> QED
    BY <1>1, <1>2, <1>4, <2>1 DEF TypeOK
<1>6. \A j \in Index : ~(e.valid /\ entries[j].valid /\ entries[j].block = e.block)
  BY DEF Find
<1>7. Unique(entries') /\ Named(entries')
  BY <1>1, <1>2, <1>6 DEF Unique, Coherent, Named
<1>8. ASSUME NEW j \in Index, j # i, entries[j].valid
      PROVE  entries[i].block # entries[j].block
  BY <1>1, <1>8 DEF Coherent, Unique, Named
<1>9. CleanAgrees(entries', disk', bypassed')
  <2> SUFFICES ASSUME NEW j \in Index, entries'[j].valid, ~entries'[j].dirty
               PROVE  /\ entries'[j].block \in OnDevice
                      /\ disk'[entries'[j].block] = entries'[j].data \/ entries'[j].block \in bypassed'
    BY DEF CleanAgrees
  <2>1. CASE j = i
    BY <1>2, <1>3, <1>6, <2>1 DEF Stale
  <2>2. CASE j # i
    <3>1. /\ entries[j].block \in OnDevice
          /\ disk[entries[j].block] = entries[j].data \/ entries[j].block \in bypassed
      BY <1>1, <1>2, <2>2 DEF Coherent, CleanAgrees
    <3>2. entries[i].block # entries[j].block
      BY <1>2, <1>8, <2>2
    <3> QED
      BY <1>2, <1>3, <2>2, <3>1, <3>2
  <2> QED
    BY <2>1, <2>2
<1>10. Coherent(entries', disk', bypassed')
  BY <1>2, <1>4, <1>7, <1>9 DEF Coherent
<1>11. ASSUME NEW b \in Blocks
       PROVE  Held'[b] = IF Stale(i) /\ entries[i].block = b THEN entries[i].data ELSE Held[b]
  <2>1. CASE b \in OnDevice
    BY <1>3, <1>5, <1>10, <2>1, Before, After
  <2>2. CASE b \notin OnDevice
    <3>1. ~(Stale(i) /\ entries[i].block = b)
      BY <2>2 DEF Fill, CanFlush
    <3> QED
      BY <1>5, <1>10, <2>2, <3>1, Before, After
  <2> QED
    BY <2>1, <2>2
<1>12. ASSUME NEW b \in Blocks, e.valid, e.block = b
       PROVE  /\ Seen'[b] = e.data /\ Held'[b] = Held[b] /\ Seen[b] = Held[b]
              /\ b \notin Unwritten /\ (b \in Unwritten' <=> e.dirty)
  <2>1. \A j \in Index : ~(entries[j].valid /\ entries[j].block = b)
    BY <1>6, <1>12
  <2>2. Seen[b] = Held[b] /\ b \notin Unwritten
    BY <2>1, Before
  <2>3. Held'[b] = Held[b]
    BY <1>11, <2>1 DEF Stale
  <2>4. entries'[i] = e
    BY <1>2
  <2>5. Seen'[b] = e.data /\ (b \in Unwritten' <=> e.dirty)
    BY <1>5, <1>10, <1>12, <2>4, After
  <2> QED
    BY <2>2, <2>3, <2>5
<1>13. ASSUME NEW b \in Blocks, ~(e.valid /\ e.block = b) PROVE Settled(b)
  <2>1. CASE \E j \in Index : entries[j].valid /\ entries[j].block = b /\ j # i
    <3>1. PICK j \in Index : entries[j].valid /\ entries[j].block = b /\ j # i
      BY <2>1
    <3>2. entries'[j] = entries[j] /\ entries[i].block # b
      BY <1>2, <1>8, <3>1
    <3>3. Seen[b] = entries[j].data /\ (b \in Unwritten <=> entries[j].dirty)
      BY <3>1, Before
    <3>4. Seen'[b] = entries[j].data /\ (b \in Unwritten' <=> entries[j].dirty)
      BY <1>5, <1>10, <3>1, <3>2, After
    <3>5. Held'[b] = Held[b]
      BY <1>11, <3>2
    <3> QED
      BY <3>3, <3>4, <3>5 DEF Settled, Store!Kept
  <2>2. CASE ~\E j \in Index : entries[j].valid /\ entries[j].block = b /\ j # i
    <3>1. \A j \in Index : ~(entries'[j].valid /\ entries'[j].block = b)
      BY <1>2, <1>13, <2>2
    <3>2. Seen'[b] = Held'[b] /\ b \notin Unwritten'
      BY <1>5, <1>10, <3>1, After
    <3>3. CASE entries[i].valid /\ entries[i].block = b
      <4>1. Seen[b] = entries[i].data /\ (b \in Unwritten <=> entries[i].dirty)
        BY <3>3, Before
      <4>2. CASE entries[i].dirty
        <5>1. Stale(i) /\ b \in OnDevice
          BY <3>3, <4>2 DEF Stale, Fill, CanFlush
        <5>2. Held'[b] = Seen[b] /\ Held[b] # NoData
          BY <1>11, <3>3, <4>1, <5>1, Before
        <5> QED
          BY <3>2, <4>1, <4>2, <5>2 DEF Settled, Store!Written
      <4>3. CASE ~entries[i].dirty
        <5>1. Held'[b] = Held[b]
          BY <1>11, <4>3 DEF Stale
        <5> QED
          BY <3>2, <4>1, <4>3, <5>1 DEF Settled, Store!Renewed
      <4> QED
        BY <4>2, <4>3
    <3>4. CASE ~(entries[i].valid /\ entries[i].block = b)
      <4>1. \A j \in Index : ~(entries[j].valid /\ entries[j].block = b)
        BY <2>2, <3>4
      <4>2. Seen[b] = Held[b] /\ b \notin Unwritten
        BY <4>1, Before
      <4>3. Held'[b] = Held[b]
        BY <1>11, <3>4 DEF Stale
      <4> QED
        BY <3>2, <4>2, <4>3 DEF Settled, Store!Kept
    <3> QED
      BY <3>3, <3>4
  <2> QED
    BY <2>1, <2>2
<1>14. CacheInv'
  BY <1>5, <1>10, After
<1> QED
  BY <1>12, <1>13, <1>14

(* The entry of a block gets new contents. *)
LEMMA WriteHitFacts ==
  ASSUME CacheInv, NEW b \in Blocks, NEW v \in Value, WriteHit(b, v)
  PROVE  /\ CacheInv'
         /\ Seen'[b] = v /\ Held'[b] = Held[b] /\ b \in Unwritten'
         /\ \A x \in Blocks : x # b => Settled(x)
<1>1. TypeOK /\ Coherent(entries, disk, bypassed)
  BY Before
<1>2. PICK i \in Index : /\ entries[i].valid /\ entries[i].block = b
                         /\ entries' = [entries EXCEPT ![i].data = v, ![i].dirty = TRUE]
  BY DEF WriteHit, Find
<1>3. /\ \A j \in Index : j # i => entries'[j] = entries[j]
      /\ entries'[i].valid /\ entries'[i].block = b /\ entries'[i].data = v /\ entries'[i].dirty
      /\ entries' \in [Index -> Entry]
  <2>1. entries[i] \in Entry
    BY <1>1 DEF TypeOK
  <2> QED
    BY <1>1, <1>2, <2>1 DEF TypeOK, Entry
<1>4. UNCHANGED <<disk, registry, clock_hand>> /\ bypassed' = bypassed \ {b}
  BY DEF WriteHit
<1>5. TypeOK'
  BY <1>1, <1>3, <1>4 DEF TypeOK
<1>6. Unique(entries') /\ Named(entries')
  BY <1>1, <1>2, <1>3 DEF Unique, Coherent, Named
<1>7. CleanAgrees(entries', disk', bypassed')
  BY <1>1, <1>2, <1>3, <1>4 DEF CleanAgrees, Coherent, Unique
<1>8. Coherent(entries', disk', bypassed')
  BY <1>1, <1>3, <1>4, <1>6, <1>7 DEF Coherent
<1>9. Held' = Held
  BY <1>4 DEF Held
<1>10. Seen'[b] = v /\ b \in Unwritten'
  BY <1>3, <1>5, <1>8, After
<1>11. ASSUME NEW x \in Blocks, x # b PROVE Settled(x)
  <2>1. CASE \E j \in Index : entries[j].valid /\ entries[j].block = x
    <3>1. PICK j \in Index : entries[j].valid /\ entries[j].block = x
      BY <2>1
    <3>2. entries'[j] = entries[j]
      BY <1>2, <1>3, <1>11, <3>1
    <3>3. Seen[x] = entries[j].data /\ (x \in Unwritten <=> entries[j].dirty)
      BY <3>1, Before
    <3>4. Seen'[x] = entries[j].data /\ (x \in Unwritten' <=> entries[j].dirty)
      BY <1>5, <1>8, <3>1, <3>2, After
    <3> QED
      BY <1>9, <3>3, <3>4 DEF Settled, Store!Kept
  <2>2. CASE ~\E j \in Index : entries[j].valid /\ entries[j].block = x
    <3>1. \A j \in Index : ~(entries'[j].valid /\ entries'[j].block = x)
      BY <1>3, <1>11, <2>2
    <3>2. Seen'[x] = Held'[x] /\ x \notin Unwritten'
      BY <1>5, <1>8, <3>1, After
    <3>3. Seen[x] = Held[x] /\ x \notin Unwritten
      BY <2>2, Before
    <3> QED
      BY <1>9, <3>2, <3>3 DEF Settled, Store!Kept
  <2> QED
    BY <2>1, <2>2
<1>12. CacheInv'
  BY <1>5, <1>8, After
<1> QED
  BY <1>9, <1>10, <1>11, <1>12

(* mcsos_bcache_flush_all, up to entry k: what is written was pending and  *)
(* on the device, and once all entries are written nothing is pending.     *)
LEMMA FlushFacts ==
  ASSUME CacheInv, NEW k \in 0..EntryCount, \A i \in Index : i < k => CanFlush(i),
         entries' = Flushed(k), disk' = FlushedDisk(k), UNCHANGED <<registry, clock_hand, bypassed>>
  PROVE  /\ CacheInv'
         /\ \A b \in Blocks : Settled(b)
         /\ k = EntryCount => \A b \in Blocks : IF b \in Unwritten THEN Store!Written(b) ELSE Store!Kept(b)
<1>1. TypeOK /\ Coherent(entries, disk, bypassed)
  BY Before
<1>2. ASSUME NEW i \in Index
      PROVE  /\ entries'[i].valid = entries[i].valid /\ entries'[i].block = entries[i].block
             /\ entries'[i].data = entries[i].data /\ entries'[i] \in Entry
             /\ entries'[i].dirty = IF i < k THEN FALSE ELSE entries[i].dirty
  <2>1. entries[i] \in Entry
    BY <1>1 DEF TypeOK
  <2>2. entries'[i] = IF i < k THEN [entries[i] EXCEPT !.dirty = FALSE] ELSE entries[i]
    BY DEF Flushed
  <2> QED
    BY <2>1, <2>2 DEF Entry
<1>3. entries' \in [Index -> Entry]
  BY <1>2 DEF Flushed
<1>4. ASSUME NEW i \in Index, entries[i].valid, entries[i].block \in OnDevice
      PROVE  disk'[entries[i].block] = IF i < k /\ entries[i].dirty THEN entries[i].data
                                       ELSE disk[entries[i].block]
  <2> DEFINE b == entries[i].block
             W == {j \in Index : j < k /\ Stale(j) /\ entries[j].block = b}
  <2>1. \A j \in W : j = i
    BY <1>1, <1>4 DEF Coherent, Unique, Stale
  <2>2. CASE i < k /\ entries[i].dirty
    <3> DEFINE c == CHOOSE j \in Index : j < k /\ Stale(j) /\ entries[j].block = b
    <3>1. i < k /\ Stale(i) /\ entries[i].block = b
      BY <1>4, <2>2 DEF Stale
    <3>2. c \in Index /\ c < k /\ Stale(c) /\ entries[c].block = b
      BY <3>1
    <3>3. c = i
      BY <2>1, <3>2
    <3>4. disk'[b] = entries[c].data
      BY <1>4, <3>1 DEF FlushedDisk
    <3> QED
      BY <2>2, <3>3, <3>4
  <2>3. CASE ~(i < k /\ entries[i].dirty)
    <3>1. ~\E j \in Index : j < k /\ Stale(j) /\ entries[j].block = b
      BY <2>1, <2>3 DEF Stale
    <3>2. disk'[b] = disk[b]
      BY <1>4, <3>1 DEF FlushedDisk
    <3> QED
      BY <2>3, <3>2
  <2> QED
    BY <2>2, <2>3
<1>5. ASSUME NEW b \in OnDevice, \A i \in Index : ~(entries[i].valid /\ entries[i].block = b)
      PROVE  disk'[b] = disk[b]
  <2>1. ~\E j \in Index : j < k /\ Stale(j) /\ entries[j].block = b
    BY <1>5 DEF Stale
  <2> QED
    BY <2>1 DEF FlushedDisk
<1>6. disk' \in [OnDevice -> Value]
  <2>1. \A b \in OnDevice : disk'[b] \in Value
    BY <1>1, <1>4, <1>5 DEF TypeOK, Entry
  <2> QED
    BY <2>1 DEF FlushedDisk
<1>7. Unique(entries') /\ Named(entries')
  <2>1. Unique(entries) /\ Named(entries)
    BY <1>1 DEF Coherent
  <2>2. \A i \in Index : entries'[i].valid = entries[i].valid /\ entries'[i].block = entries[i].block
    BY <1>2
  <2>3. Unique(entries')
    BY <2>1, <2>2, Zenon DEF Unique
  <2>4. Named(entries')
    BY <2>1, <2>2, Zenon DEF Named
  <2> QED
    BY <2>3, <2>4
<1>8. CleanAgrees(entries', disk', bypassed')
  <2> SUFFICES ASSUME NEW i \in Index, entries'[i].valid, ~entries'[i].dirty
               PROVE  /\ entries'[i].block \in OnDevice
                      /\ disk'[entries'[i].block] = entries'[i].data \/ entries'[i].block \in bypassed
    BY DEF CleanAgrees
  <2>1. CASE entries[i].dirty
    <3>1. i < k /\ Stale(i) /\ entries[i].block \in OnDevice
      BY <1>2, <2>1 DEF Stale, CanFlush
    <3> QED
      BY <1>2, <1>4, <2>1, <3>1
  <2>2. CASE ~entries[i].dirty
    BY <1>1, <1>2, <1>4, <2>2 DEF Coherent, CleanAgrees
  <2> QED
    BY <2>1, <2>2
<1>9. Coherent(entries', disk', bypassed')
  BY <1>3, <1>6, <1>7, <1>8 DEF Coherent
<1>10. TypeOK'
  BY <1>1, <1>3, <1>6 DEF TypeOK
<1>11. ASSUME NEW b \in Blocks
       PROVE  /\ Settled(b)
              /\ k = EntryCount => IF b \in Unwritten THEN Store!Written(b) ELSE Store!Kept(b)
  <2>1. CASE \E j \in Index : entries[j].valid /\ entries[j].block = b
    <3>1. PICK j \in Index : entries[j].valid /\ entries[j].block = b
      BY <2>1
    <3>2. Seen[b] = entries[j].data /\ (b \in Unwritten <=> entries[j].dirty)
      BY <3>1, Before
    <3>3. entries'[j].valid /\ entries'[j].block = b
      BY <1>2, <3>1
    <3>4. Seen'[b] = entries[j].data /\ (b \in Unwritten' <=> entries'[j].dirty)
      BY <1>2, <1>9, <1>10, <3>3, After
    <3>5. j < EntryCount
      BY BufferCacheAssumption DEF Index
    <3>6. CASE j < k /\ entries[j].dirty
      <4>1. b \in OnDevice
        BY <3>1, <3>6 DEF Stale, CanFlush
      <4>2. disk'[b] = entries[j].data
        BY <1>4, <3>1, <3>6, <4>1
      <4>3. Held'[b] = entries[j].data /\ Held[b] # NoData
        BY <1>9, <1>10, <4>1, <4>2, Before, After
      <4>4. b \in Unwritten /\ b \notin Unwritten'
        BY <1>2, <3>2, <3>4, <3>6
      <4> QED
        BY <3>2, <3>4, <4>3, <4>4 DEF Settled, Store!Written
    <3>7. CASE ~(j < k /\ entries[j].dirty)
      <4>1. b \in OnDevice => disk'[b] = disk[b]
        BY <1>4, <3>1, <3>7
      <4>2. Held'[b] = Held[b]
        BY <1>9, <1>10, <4>1, Before, After
      <4>3. entries'[j].dirty <=> entries[j].dirty
        BY <1>2, <3>7
      <4>4. Store!Kept(b)
        BY <3>2, <3>4, <4>2, <4>3 DEF Store!Kept
      <4>5. k = EntryCount => b \notin Unwritten
        BY <3>2, <3>5, <3>7
      <4> QED
        BY <4>4, <4>5 DEF Settled
    <3> QED
      BY <3>6, <3>7
  <2>2. CASE ~\E j \in Index : entries[j].valid /\ entries[j].block = b
    <3>1. \A j \in Index : ~(entries'[j].valid /\ entries'[j].block = b)
      BY <1>2, <2>2
    <3>2. Seen'[b] = Held'[b] /\ b \notin Unwritten'
      BY <1>9, <1>10, <3>1, After
    <3>3. Seen[b] = Held[b] /\ b \notin Unwritten
      BY <2>2, Before
    <3>4. Held'[b] = Held[b]
      BY <1>5, <1>9, <1>10, <2>2, Before, After
    <3> QED
      BY <3>2, <3>3, <3>4 DEF Settled, Store!Kept
  <2> QED
    BY <2>1, <2>2
<1>12. CacheInv'
  BY <1>9, <1>10, After
<1> QED
  BY <1>11, <1>12

(* Blocks of a valid range are on their device. *)
LEMMA CoveredOnDevice ==
  ASSUME NEW d \in Devices, NEW lba \in Nat, NEW count \in Nat, ValidRange(d, lba, count)
  PROVE  Covered(d, lba, count) \subseteq OnDevice
<1>1. BlockCount(d) \in Int
  BY BufferCacheAssumption DEF BlockCount
<1> SUFFICES ASSUME NEW k \in lba..(lba + count - 1) PROVE <<d, k>> \in OnDevice
  BY DEF Covered
<1>2. k \in Nat /\ k < BlockCount(d) /\ k \in 0..(BlockCount(d) - 1)
  BY <1>1 DEF ValidRange
<1>3. <<d, k>> \in {d} \X (0..(BlockCount(d) - 1))
  BY <1>2
<1>4. <<d, k>> \in Blocks
  BY <1>3, BufferCacheAssumption
<1> QED
  BY <1>2, <1>4 DEF OnDevice

(* A write past the cache: clean entries of its blocks are stale from then *)
(* on, and only callers that find no entry see the new contents.           *)
LEMMA BlkWriteFacts ==
  ASSUME CacheInv, NEW S \in SUBSET OnDevice, NEW v \in Value,
         disk' = [b \in OnDevice |-> IF b \in S THEN v ELSE disk[b]],
         bypassed' = bypassed \cup {b \in S : \E i \in Find(b) : ~entries[i].dirty},
         UNCHANGED <<registry, entries, clock_hand>>
  PROVE  /\ CacheInv'
         /\ Held' = [b \in Blocks |-> IF b \in S THEN v ELSE Held[b]]
         /\ Unwritten' = Unwritten
         /\ \A b \in Blocks : Seen'[b] = Seen[b] \/ (b \in S \ Unwritten /\ Seen'[b] = v)
<1>1. TypeOK /\ Coherent(entries, disk, bypassed)
  BY Before
<1>2. disk' \in [OnDevice -> Value]
  BY <1>1 DEF TypeOK
<1>3. CleanAgrees(entries', disk', bypassed')
  <2> SUFFICES ASSUME NEW i \in Index, entries[i].valid, ~entries[i].dirty
               PROVE  /\ entries[i].block \in OnDevice
                      /\ disk'[entries[i].block] = entries[i].data \/ entries[i].block \in bypassed'
    BY DEF CleanAgrees
  <2>1. /\ entries[i].block \in OnDevice
        /\ disk[entries[i].block] = entries[i].data \/ entries[i].block \in bypassed
    BY <1>1 DEF Coherent, CleanAgrees
  <2>2. i \in Find(entries[i].block)
    BY DEF Find
  <2> QED
    BY <2>1, <2>2
<1>4. Coherent(entries', disk', bypassed')
  BY <1>1, <1>2, <1>3 DEF Coherent
<1>5. TypeOK'
  BY <1>1, <1>2 DEF TypeOK
<1>6. CacheInv'
  BY <1>4, <1>5, After
<1>7. Unwritten' = Unwritten
  BY DEF Unwritten, Find
<1>8. \A b \in Blocks : Held'[b] = IF b \in S THEN v ELSE Held[b]
  BY <1>4, <1>5, Before, After
<1>9. Held' = [b \in Blocks |-> IF b \in S THEN v ELSE Held[b]]
  BY <1>8 DEF Held
<1>10. ASSUME NEW b \in Blocks
       PROVE  Seen'[b] = Seen[b] \/ (b \in S \ Unwritten /\ Seen'[b] = v)
  <2>1. CASE \E j \in Index : entries[j].valid /\ entries[j].block = b
    <3>1. PICK j \in Index : entries[j].valid /\ entries[j].block = b
      BY <2>1
    <3> QED
      BY <1>4, <1>5, <3>1, Before, After
  <2>2. CASE ~\E j \in Index : entries[j].valid /\ entries[j].block = b
    <3>1. Seen'[b] = Held'[b]
      BY <1>4, <1>5, <2>2, After
    <3>2. Seen[b] = Held[b] /\ b \notin Unwritten
      BY <2>2, Before
    <3> QED
      BY <1>8, <3>1, <3>2
  <2> QED
    BY <2>1, <2>2
<1> QED
  BY <1>6, <1>7, <1>9, <1>10

(* A step that leaves the devices and the entries alone. *)
LEMMA SameFacts ==
  ASSUME CacheInv, UNCHANGED <<disk, entries, bypassed>>, clock_hand' \in 0..EntryCount,
         registry' \in Seq(Devices), Len(registry') <= MaxDevices
  PROVE  CacheInv' /\ UNCHANGED <<Seen, Held, Unwritten>>
<1>1. UNCHANGED <<Seen, Held, Unwritten>>
  BY SameNames, SameNamesPrime
<1> QED
  BY <1>1 DEF CacheInv, TypeOK, CacheCoherent, Named

(* After a power loss callers see the devices. *)
LEMMA PowerLossFacts ==
  ASSUME CacheInv, PowerLoss
  PROVE  CacheInv' /\ Held' = Held /\ Unwritten' = {} /\ \A b \in Blocks : Seen'[b] = Held[b]
<1>1. Empty \in Entry /\ Empty.valid = FALSE /\ Empty.block = NoBlock
  BY BufferCacheAssumption DEF Empty, Entry
<1>2. entries' \in [Index -> Entry] /\ \A i \in Index : ~entries'[i].valid /\ entries'[i].block = NoBlock
  BY <1>1 DEF PowerLoss
<1>3. TypeOK'
  BY <1>2, BufferCacheAssumption DEF PowerLoss, CacheInv, TypeOK
<1>4. Coherent(entries', disk', bypassed')
  BY <1>2, <1>3 DEF Coherent, Unique, CleanAgrees, TypeOK, Named
<1>5. Held' = Held
  BY DEF Held, PowerLoss
<1>6. \A b \in Blocks : Seen'[b] = Held[b] /\ b \notin Unwritten'
  BY <1>2, <1>3, <1>4, <1>5, After
<1>7. Unwritten' = {}
  BY <1>6 DEF Unwritten
<1>8. CacheInv'
  BY <1>3, <1>4, After
<1> QED
  BY <1>5, <1>6, <1>7, <1>8

-----------------------------------------------------------------------------
(* The entries that a miss brings in. *)
LEMMA NewEntries ==
  /\ Empty \in Entry /\ Empty.valid = FALSE /\ Empty.block = NoBlock
  /\ \A b \in Blocks, v \in Value, x \in BOOLEAN :
       /\ [valid |-> TRUE, dirty |-> x, block |-> b, data |-> v] \in Entry
       /\ b # NoBlock
BY BufferCacheAssumption DEF Empty, Entry

(* mcsos_bcache_read on a miss. *)
LEMMA ReadMissFacts ==
  ASSUME CacheInv, NEW b \in Blocks, ReadMiss(b)
  PROVE  /\ CacheInv'
         /\ \A x \in Blocks : Settled(x)
         /\ b \in OnDevice /\ Seen[b] = disk[b] /\ Seen[b] # NoData
<1> DEFINE e == [valid |-> TRUE, dirty |-> FALSE, block |-> b, data |-> disk[b]]
<1>1. PICK i \in Index : Fill(i, e)
  BY DEF ReadMiss
<1>2. b \in OnDevice /\ Find(b) = {} /\ disk[b] \in Value /\ disk[b] # NoData /\ Held[b] = disk[b]
  BY Before DEF ReadMiss
<1>3. e \in Entry /\ e.valid /\ ~e.dirty /\ e.block = b /\ e.data = disk[b] /\ b # NoBlock
  BY <1>2, NewEntries
<1> HIDE DEF e
<1>4. /\ CacheInv'
      /\ \A x \in Blocks : ~(e.valid /\ e.block = x) => Settled(x)
      /\ \A x \in Blocks : e.valid /\ e.block = x
           => /\ Seen'[x] = e.data /\ Held'[x] = Held[x] /\ Seen[x] = Held[x]
              /\ x \notin Unwritten /\ (x \in Unwritten' <=> e.dirty)
  BY <1>1, <1>2, <1>3, FillFacts
<1>5. Seen[b] = disk[b] /\ Settled(b)
  BY <1>2, <1>3, <1>4 DEF Settled, Store!Kept
<1> QED
  BY <1>2, <1>3, <1>4, <1>5

(* The same when the block cannot be read. *)
LEMMA ReadFailsFacts ==
  ASSUME CacheInv, NEW b \in Blocks, ReadFails(b)
  PROVE  CacheInv' /\ \A x \in Blocks : Settled(x)
<1>1. PICK i \in Index : Fill(i, Empty)
  BY DEF ReadFails
<1> QED
  BY <1>1, NewEntries, FillFacts

(* mcsos_bcache_write on a miss. *)
LEMMA WriteMissFacts ==
  ASSUME CacheInv, NEW b \in Blocks, NEW v \in Value, WriteMiss(b, v)
  PROVE  /\ CacheInv'
         /\ Seen'[b] = v /\ Held'[b] = Held[b] /\ b \in Unwritten'
         /\ \A x \in Blocks : x # b => Settled(x)
<1> DEFINE e == [valid |-> TRUE, dirty |-> TRUE, block |-> b, data |-> v]
<1>1. PICK i \in Index : Fill(i, e)
  BY DEF WriteMiss
<1>2. Find(b) = {}
  BY DEF WriteMiss
<1>3. e \in Entry /\ e.valid /\ e.dirty /\ e.block = b /\ e.data = v /\ b # NoBlock
  BY NewEntries
<1> HIDE DEF e
<1>4. /\ CacheInv'
      /\ \A x \in Blocks : ~(e.valid /\ e.block = x) => Settled(x)
      /\ \A x \in Blocks : e.valid /\ e.block = x
           => /\ Seen'[x] = e.data /\ Held'[x] = Held[x] /\ Seen[x] = Held[x]
              /\ x \notin Unwritten /\ (x \in Unwritten' <=> e.dirty)
  BY <1>1, <1>2, <1>3, FillFacts
<1> QED
  BY <1>3, <1>4

(* The failure of a victim's write moves the hand only. *)
LEMMA VictimFacts ==
  ASSUME CacheInv, NEW b, NEW o, VictimFails(b, o)
  PROVE  CacheInv' /\ UNCHANGED <<Seen, Held, Unwritten>>
<1>1. PICK i \in Index : clock_hand' = i + 1
  BY DEF VictimFails
<1>2. clock_hand' \in 0..EntryCount
  BY <1>1, BufferCacheAssumption DEF Index
<1> QED
  BY <1>2, SameFacts DEF VictimFails, CacheInv, TypeOK

(* Devices that mcsos_blk_get returns. *)
LEMMA KnownDevices == TypeOK => Known \subseteq Devices
BY DEF TypeOK, Known, Range

(* Every step keeps the invariant. *)
LEMMA NextCache == CacheInv /\ [Next]_vars => CacheInv'
<1> SUFFICES ASSUME CacheInv, [Next]_vars PROVE CacheInv'
  OBVIOUS
<1>1. TypeOK
  BY DEF CacheInv
<1>2. ASSUME NEW d \in Devices, Register(d) PROVE CacheInv'
  <2>1. registry' \in Seq(Devices) /\ Len(registry') <= MaxDevices
    BY <1>1, <1>2, BufferCacheAssumption DEF Register, TypeOK
  <2> QED
    BY <1>1, <1>2, <2>1, SameFacts DEF Register, TypeOK
<1>3. CASE RegistryReset
  <2>1. registry' \in Seq(Devices) /\ Len(registry') <= MaxDevices
    BY <1>3, BufferCacheAssumption DEF RegistryReset
  <2> QED
    BY <1>1, <1>3, <2>1, SameFacts DEF RegistryReset, TypeOK
<1>4. ASSUME NEW b \in Blocks, Cached(b) PROVE CacheInv'
  <2>1. CASE ReadHit(b)
    BY <1>1, <2>1, SameFacts DEF ReadHit, TypeOK
  <2>2. CASE ReadMiss(b) \/ ReadFails(b)
    BY <2>2, ReadMissFacts, ReadFailsFacts
  <2>3. ASSUME NEW v \in Value, WriteHit(b, v) \/ WriteMiss(b, v) PROVE CacheInv'
    BY <2>3, WriteHitFacts, WriteMissFacts
  <2>4. ASSUME NEW o, VictimFails(b, o) PROVE CacheInv'
    BY <2>4, VictimFacts
  <2> QED
    BY <1>4, <2>1, <2>2, <2>3, <2>4 DEF Cached
<1>5. ASSUME NEW d \in Known, NEW r \in Requests, BlkRead(d, r[1], r[2]) PROVE CacheInv'
  BY <1>1, <1>5, SameFacts DEF BlkRead, TypeOK
<1>6. ASSUME NEW d \in Known, NEW r \in Requests, NEW v \in Value, BlkWrite(d, r[1], r[2], v)
      PROVE  CacheInv'
  <2>1. d \in Devices /\ r[1] \in Nat /\ r[2] \in Nat
    BY <1>1, KnownDevices, BufferCacheAssumption
  <2>2. Covered(d, r[1], r[2]) \subseteq OnDevice
    BY <1>6, <2>1, CoveredOnDevice DEF BlkWrite
  <2> QED
    BY <1>6, <2>2, BlkWriteFacts DEF BlkWrite
<1>7. CASE BlkFails
  BY <1>1, <1>7, SameFacts DEF BlkFails, TypeOK
<1>8. CASE FlushAll
  <2>1. EntryCount \in 0..EntryCount
    BY BufferCacheAssumption
  <2> QED
    BY <1>8, <2>1, FlushFacts DEF FlushAll
<1>9. CASE FlushStops
  <2>1. PICK k \in Index : /\ \A i \in Index : i < k => CanFlush(i)
                           /\ entries' = Flushed(k) /\ disk' = FlushedDisk(k)
    BY <1>9 DEF FlushStops
  <2>2. k \in 0..EntryCount
    BY BufferCacheAssumption DEF Index
  <2> QED
    BY <1>9, <2>1, <2>2, FlushFacts DEF FlushStops
<1>10. CASE PowerLoss
  BY <1>10, PowerLossFacts
<1>11. CASE UNCHANGED vars
  BY <1>1, <1>11, SameFacts DEF vars, TypeOK
<1> QED
  BY <1>2, <1>3, <1>4, <1>5, <1>6, <1>7, <1>8, <1>9, <1>10, <1>11 DEF Next

(* The invariant holds in every reachable state. *)
THEOREM CacheInvariance == Spec => []CacheInv
BY InitCache, NextCache, PTL DEF Spec

(* Whatever requests fail, a block has one entry at most, and a clean      *)
(* entry agrees with its device unless mcsos_blk_write went past it.       *)
THEOREM Coherence == Spec => []CacheCoherent
BY CacheInvariance, PTL DEF CacheInv

-----------------------------------------------------------------------------
(* The cache implements the store. *)

AbstractNext == Store!Typed' /\ Store!Next

(* What the store is mapped to has its types. *)
LEMMA StoreTyped ==
  /\ CacheInv => Store!Typed
  /\ CacheInv' => Store!Typed'
<1>1. ASSUME CacheInv PROVE Store!Typed
  <2>1. Coherent(entries, disk, bypassed)
    BY <1>1, SameNames
  <2> QED
    BY <2>1, SeenFacts, SameNames DEF Store!Typed, Store!Contents, Unwritten
<1>2. ASSUME CacheInv' PROVE Store!Typed'
  <2>1. Coherent(entries', disk', bypassed')
    BY <1>2 DEF CacheInv, TypeOK, CacheCoherent, Coherent, Unique, CleanAgrees, Named
  <2>2. Unwritten' \subseteq Blocks
    BY DEF Unwritten
  <2> QED
    BY <2>1, <2>2, SeenFacts, SameNamesPrime DEF Store!Typed, Store!Contents
<1> QED
  BY <1>1, <1>2

(* Nothing happens to the blocks. *)
LEMMA SameSettled ==
  ASSUME UNCHANGED <<Seen, Held, Unwritten>>
  PROVE  \A x \in Blocks : Settled(x)
BY DEF Settled, Store!Kept

(* A step that fails, in whatever call. *)
LEMMA FailsAbstract ==
  ASSUME NEW o \in {"read", "write", "flush", "blk"}, CacheInv',
         last' = [op |-> o, rc |-> "ERROR"],
         \A x \in Blocks : Settled(x)
  PROVE  AbstractNext
<1>1. Store!Fail(o)
  BY DEF Store!Fail, Store!Settle, Settled
<1> QED
  BY <1>1, StoreTyped DEF AbstractNext, Store!Next

(* mcsos_bcache_read *)
LEMMA ReadAbstract ==
  ASSUME CacheInv', NEW b \in Blocks, Seen[b] # NoData,
         last' = [op |-> "read", rc |-> "OK", block |-> b, got |-> Seen[b]],
         \A x \in Blocks : Settled(x)
  PROVE  AbstractNext
<1>1. Store!Read(b)
  BY DEF Store!Read, Store!Settle, Settled
<1> QED
  BY <1>1, StoreTyped DEF AbstractNext, Store!Next

(* mcsos_bcache_write *)
LEMMA WriteAbstract ==
  ASSUME CacheInv', NEW b \in Blocks, NEW v \in Value,
         last' = [op |-> "write", rc |-> "OK", block |-> b],
         Seen'[b] = v, Held'[b] = Held[b], b \in Unwritten',
         \A x \in Blocks : x # b => Settled(x)
  PROVE  AbstractNext
<1>1. Store!Write(b, v)
  BY DEF Store!Write, Store!Settle, Settled
<1> QED
  BY <1>1, StoreTyped DEF AbstractNext, Store!Next

(* Every step of the cache is one of the store, or none. *)
LEMMA StepRefines ==
  ASSUME CacheInv, CacheInv', [Next]_vars
  PROVE  [Store!Typed' /\ Store!Next]_(Store!vars)
<1>0. /\ TypeOK
      /\ clock_hand \in 0..EntryCount /\ registry \in Seq(Devices) /\ Len(registry) <= MaxDevices
  BY DEF CacheInv, TypeOK
<1> SUFFICES AbstractNext \/ UNCHANGED <<Seen, Held, Unwritten, last>>
  BY DEF AbstractNext, Store!vars
<1>1. ASSUME UNCHANGED <<disk, entries>> PROVE UNCHANGED <<Seen, Held, Unwritten>>
  BY <1>1, SameNames, SameNamesPrime
<1>2. ASSUME NEW d \in Devices, Register(d) PROVE UNCHANGED <<Seen, Held, Unwritten, last>>
  BY <1>1, <1>2 DEF Register
<1>3. CASE RegistryReset
  BY <1>1, <1>3 DEF RegistryReset
<1>4. ASSUME NEW b \in Blocks, Cached(b) PROVE AbstractNext
  <2>1. CASE ReadHit(b)
    <3>1. PICK i \in Find(b) : last' = [op |-> "read", rc |-> "OK", block |-> b, got |-> entries[i].data]
      BY <2>1 DEF ReadHit
    <3>2. Seen[b] = entries[i].data
      BY Before DEF Find
    <3>3. entries[i].data # NoData
      BY <1>0, BufferCacheAssumption DEF TypeOK, Entry, Find
    <3>4. \A x \in Blocks : Settled(x)
      BY <1>1, <2>1, SameSettled DEF ReadHit
    <3> QED
      BY <3>1, <3>2, <3>3, <3>4, ReadAbstract
  <2>2. CASE ReadMiss(b)
    <3>1. last' = [op |-> "read", rc |-> "OK", block |-> b, got |-> disk[b]]
      BY <2>2 DEF ReadMiss
    <3> QED
      BY <2>2, <3>1, ReadMissFacts, ReadAbstract
  <2>3. CASE ReadFails(b)
    <3>1. last' = [op |-> "read", rc |-> "ERROR"]
      BY <2>3 DEF ReadFails
    <3> QED
      BY <2>3, <3>1, ReadFailsFacts, FailsAbstract
  <2>4. ASSUME NEW v \in Value, WriteHit(b, v) PROVE AbstractNext
    <3>1. last' = [op |-> "write", rc |-> "OK", block |-> b]
      BY <2>4 DEF WriteHit
    <3> QED
      BY <2>4, <3>1, WriteHitFacts, WriteAbstract
  <2>5. ASSUME NEW v \in Value, WriteMiss(b, v) PROVE AbstractNext
    <3>1. last' = [op |-> "write", rc |-> "OK", block |-> b]
      BY <2>5 DEF WriteMiss
    <3> QED
      BY <2>5, <3>1, WriteMissFacts, WriteAbstract
  <2>6. ASSUME NEW o \in {"read", "write"}, VictimFails(b, o) PROVE AbstractNext
    <3>1. last' = [op |-> o, rc |-> "ERROR"]
      BY <2>6 DEF VictimFails
    <3>2. \A x \in Blocks : Settled(x)
      BY <2>6, VictimFacts, SameSettled
    <3> QED
      BY <3>1, <3>2, FailsAbstract
  <2> QED
    BY <1>4, <2>1, <2>2, <2>3, <2>4, <2>5, <2>6 DEF Cached
<1>5. ASSUME NEW d \in Known, NEW r \in Requests, BlkRead(d, r[1], r[2]) PROVE AbstractNext
  <2> DEFINE S == Covered(d, r[1], r[2])
  <2>1. d \in Devices /\ r[1] \in Nat /\ r[2] \in Nat
    BY <1>0, KnownDevices, BufferCacheAssumption
  <2>2. S \in SUBSET OnDevice
    BY <1>5, <2>1, CoveredOnDevice DEF BlkRead
  <2>3. /\ last' = [op |-> "blk_read", rc |-> "OK", got |-> [x \in S |-> disk[x]]]
        /\ UNCHANGED <<disk, entries>>
    BY <1>5 DEF BlkRead, Restrict
  <2> HIDE DEF S
  <2>4. \A x \in S : Held[x] = disk[x] /\ Held[x] # NoData /\ x \in Blocks
    BY <2>2, Before
  <2>5. [x \in S |-> disk[x]] = [x \in S |-> Held[x]]
    BY <2>4
  <2>6. Store!DirectRead(S)
    BY <1>1, <2>3, <2>5 DEF Store!DirectRead
  <2>7. S \in SUBSET {x \in Blocks : Held[x] # NoData}
    BY <2>4
  <2> QED
    BY <2>6, <2>7, StoreTyped DEF AbstractNext, Store!Next
<1>6. ASSUME NEW d \in Known, NEW r \in Requests, NEW v \in Value, BlkWrite(d, r[1], r[2], v)
      PROVE  AbstractNext
  <2> DEFINE S == Covered(d, r[1], r[2])
  <2>1. d \in Devices /\ r[1] \in Nat /\ r[2] \in Nat
    BY <1>0, KnownDevices, BufferCacheAssumption
  <2>2. S \in SUBSET OnDevice
    BY <1>6, <2>1, CoveredOnDevice DEF BlkWrite
  <2>3. /\ disk' = [x \in OnDevice |-> IF x \in S THEN v ELSE disk[x]]
        /\ last' = [op |-> "blk_write", rc |-> "OK"]
        /\ bypassed' = bypassed \cup {b \in S : \E i \in Find(b) : ~entries[i].dirty}
        /\ UNCHANGED <<registry, entries, clock_hand>>
    BY <1>6 DEF BlkWrite
  <2> HIDE DEF S
  <2>4. /\ Held' = [b \in Blocks |-> IF b \in S THEN v ELSE Held[b]]
        /\ Unwritten' = Unwritten
        /\ \A b \in Blocks : Seen'[b] = Seen[b] \/ (b \in S \ Unwritten /\ Seen'[b] = v)
    BY <2>2, <2>3, BlkWriteFacts
  <2>5. Store!DirectWrite(S, v)
    BY <2>3, <2>4 DEF Store!DirectWrite
  <2>6. \A x \in S : Held[x] # NoData /\ x \in Blocks
    BY <2>2, Before
  <2>7. S \in SUBSET {x \in Blocks : Held[x] # NoData}
    BY <2>6
  <2> QED
    BY <2>5, <2>7, StoreTyped DEF AbstractNext, Store!Next
<1>7. CASE BlkFails
  <2>1. \A x \in Blocks : Settled(x)
    BY <1>1, <1>7, SameSettled DEF BlkFails
  <2> QED
    BY <1>7, <2>1, FailsAbstract DEF BlkFails
<1>8. CASE FlushAll
  <2>1. EntryCount \in 0..EntryCount
    BY BufferCacheAssumption
  <2>2. \A b \in Blocks : IF b \in Unwritten THEN Store!Written(b) ELSE Store!Kept(b)
    BY <1>8, <2>1, FlushFacts DEF FlushAll
  <2>3. Store!Flush
    BY <1>8, <2>2 DEF FlushAll, Store!Flush
  <2> QED
    BY <2>3, StoreTyped DEF AbstractNext, Store!Next
<1>9. CASE FlushStops
  <2>1. PICK k \in Index : /\ \A i \in Index : i < k => CanFlush(i)
                           /\ entries' = Flushed(k) /\ disk' = FlushedDisk(k)
    BY <1>9 DEF FlushStops
  <2>2. k \in 0..EntryCount
    BY BufferCacheAssumption DEF Index
  <2> QED
    BY <1>9, <2>1, <2>2, FlushFacts, FailsAbstract DEF FlushStops
<1>10. CASE PowerLoss
  <2>1. Seen' = Held
    <3>1. \A b \in Blocks : Seen'[b] = Held[b]
      BY <1>10, PowerLossFacts
    <3>2. Seen' = [b \in Blocks |-> Seen'[b]] /\ Held = [b \in Blocks |-> Held[b]]
      BY DEF Seen, Held
    <3> QED
      BY <3>1, <3>2
  <2>2. Store!PowerLoss
    BY <1>10, <2>1, PowerLossFacts DEF PowerLoss, Store!PowerLoss
  <2> QED
    BY <2>2, StoreTyped DEF AbstractNext, Store!Next
<1>11. CASE UNCHANGED vars
  BY <1>1, <1>11 DEF vars
<1> QED
  BY <1>2, <1>3, <1>4, <1>5, <1>6, <1>7, <1>8, <1>9, <1>10, <1>11 DEF Next

(* Callers see a store that loses nothing they wrote short of a power      *)
(* loss, and after a flush that returned OK not even then, also with       *)
(* blocks their devices do not have and beside callers that go round the   *)
(* cache: every behaviour of the cache is one of WriteBackStore.           *)
THEOREM WriteBack == Spec => WriteBackSpec
<1>1. Init => Store!Init
  <2> SUFFICES ASSUME Init PROVE Store!Init
    OBVIOUS
  <2>1. \A i \in Index : ~entries[i].valid
    BY DEF Init, Empty
  <2>2. CacheInv
    BY InitCache
  <2>3. \A x \in Blocks : Seen[x] = Held[x] /\ x \notin Unwritten
    BY <2>1, <2>2, Before
  <2>4. Seen = Held /\ Unwritten = {}
    <3>1. Seen = [b \in Blocks |-> Seen[b]] /\ Held = [b \in Blocks |-> Held[b]]
      BY DEF Seen, Held
    <3> QED
      BY <2>3, <3>1 DEF Unwritten
  <2>5. Held \in Store!Contents
    BY <2>2, StoreTyped DEF Store!Typed
  <2> QED
    BY <2>4, <2>5 DEF Init, Store!Init
<1>2. CacheInv /\ CacheInv' /\ [Next]_vars => [Store!Typed' /\ Store!Next]_(Store!vars)
  BY StepRefines
<1> QED
  BY <1>1, <1>2, CacheInvariance, PTL DEF Spec, WriteBackSpec, Store!Spec
=============================================================================
