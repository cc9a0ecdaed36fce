---------------------------- MODULE BufferCache ----------------------------
(***************************************************************************)
(* The write-back buffer cache of kernel/block/bcache.c on the block layer *)
(* of blk.c and a driver such as ramblk.c.  Calls run to completion; a     *)
(* driver may fail any read or write.  A block is a device and an LBA.     *)
(* Callers get their devices from the registry; some go round the cache,   *)
(* also for blocks that it holds.                                          *)
(***************************************************************************)
EXTENDS Naturals, Sequences, Functions

CONSTANTS Devices,
          StorageSize, \* storage_size of each, in bytes
          BlockSize,
          Blocks,      \* pairs of a device and an LBA that callers of the cache use
          Requests,    \* pairs of an LBA and a count, past the cache
          MaxDevices,  \* MCSOS_BLK_MAX_DEVICES
          Value,       \* contents of a block
          Zero,        \* the initial contents
          NoBlock,
          NoData,      \* no contents
          EntryCount   \* cache->entry_count

(* What mcsos_ramblk_init asks for, and the block_count it sets. *)
GeometryOk(d) == StorageSize[d] >= BlockSize /\ StorageSize[d] % BlockSize = 0
BlockCount(d) == StorageSize[d] \div BlockSize

(* Those with lba < block_count. *)
OnDevice == {b \in Blocks : b[2] < BlockCount(b[1])}

ASSUME BufferCacheAssumption ==
  /\ BlockSize \in Nat \ {0} /\ StorageSize \in [Devices -> Nat]
  /\ \A d \in Devices : GeometryOk(d)
  /\ Blocks \subseteq Devices \X Nat /\ Requests \subseteq Nat \X Nat
  /\ \A d \in Devices : {d} \X (0..(BlockCount(d) - 1)) \subseteq Blocks
  /\ MaxDevices \in Nat
  /\ NoBlock \notin Blocks
  /\ Zero \in Value /\ NoData \notin Value
  /\ EntryCount \in Nat \ {0}

VARIABLES disk,        \* the devices
          registry,    \* g_blk_devices up to g_blk_count
          entries,     \* cache->entries
          clock_hand,
          last,        \* the last call, its result and what it read
          bypassed     \* blocks written past the cache since it got its clean copy

vars == <<disk, registry, entries, clock_hand, last, bypassed>>

Index == 0..(EntryCount - 1)
Entry == [valid : BOOLEAN, dirty : BOOLEAN, block : Blocks \cup {NoBlock}, data : Value]
Empty == [valid |-> FALSE, dirty |-> FALSE, block |-> NoBlock, data |-> Zero]

TypeOK == /\ disk \in [OnDevice -> Value]
          /\ entries \in [Index -> Entry]
          /\ clock_hand \in 0..EntryCount
          /\ registry \in Seq(Devices) /\ Len(registry) <= MaxDevices
          /\ bypassed \subseteq OnDevice

(* mcsos_bcache_init; nothing is registered. *)
Init == /\ disk \in [OnDevice -> Value]
        /\ registry = <<>>
        /\ entries = [i \in Index |-> Empty]
        /\ clock_hand = 0
        /\ last = [op |-> "none", rc |-> "OK"]
        /\ bypassed = {}

-----------------------------------------------------------------------------
(* The block layer. *)

(* mcsos_blk_register; beyond MaxDevices it returns EFULL. *)
Register(d) == /\ Len(registry) < MaxDevices
               /\ registry' = Append(registry, d)
               /\ UNCHANGED <<disk, entries, clock_hand, last, bypassed>>

(* mcsos_blk_registry_reset leaves the cache alone. *)
RegistryReset == /\ registry' = <<>>
                 /\ UNCHANGED <<disk, entries, clock_hand, last, bypassed>>

(* The devices that mcsos_blk_get returns for an index below mcsos_blk_count. *)
Known == Range(registry)

(* mcsos_blk_validate_range, and mcsos_ramblk_rw on byte offsets. *)
ValidRange(d, lba, count) == count # 0 /\ lba < BlockCount(d) /\ count <= BlockCount(d) - lba
RamRange(d, lba, count) == /\ lba * BlockSize <= StorageSize[d]
                           /\ count * BlockSize <= StorageSize[d] - lba * BlockSize

Covered(d, lba, count) == {<<d, k>> : k \in lba..(lba + count - 1)}

(* mcsos_bcache_find *)
Find(b) == {i \in Index : entries[i].valid /\ entries[i].block = b}

(* The entries as mcsos_bcache_select_victim visits them. *)
Visit(k) == (clock_hand + k) % EntryCount

(* The first invalid entry from the clock hand on, else the one under it.  *)
IsVictim(i) ==
  \/ \E k \in Index : /\ i = Visit(k)
                      /\ ~entries[i].valid
                      /\ \A j \in Index : j < k => entries[Visit(j)].valid
  \/ /\ \A j \in Index : entries[j].valid
     /\ i = Visit(0)

(* mcsos_blk_read and mcsos_blk_write of count blocks, which know nothing  *)
(* of the cache.                                                           *)
BlkRead(d, lba, count) ==
  /\ ValidRange(d, lba, count) /\ RamRange(d, lba, count)
  /\ last' = [op |-> "blk_read", rc |-> "OK", got |-> Restrict(disk, Covered(d, lba, count))]
  /\ UNCHANGED <<disk, registry, entries, clock_hand, bypassed>>

BlkWrite(d, lba, count, v) ==
  /\ ValidRange(d, lba, count) /\ RamRange(d, lba, count)
  /\ disk' = [b \in OnDevice |-> IF b \in Covered(d, lba, count) THEN v ELSE disk[b]]
  /\ last' = [op |-> "blk_write", rc |-> "OK"]
  /\ bypassed' = bypassed \cup {b \in Covered(d, lba, count) : \E i \in Find(b) : ~entries[i].dirty}
  /\ UNCHANGED <<registry, entries, clock_hand>>

(* Out of range, or the driver fails before it changed anything. *)
BlkFails == /\ last' = [op |-> "blk", rc |-> "ERROR"]
            /\ UNCHANGED <<disk, registry, entries, clock_hand, bypassed>>

Stale(i) == entries[i].valid /\ entries[i].dirty

(* Mutant: the victim is not written. *)
FlushEntryMutant(i) == disk

(* mcsos_bcache_flush_entry when the device write, if any, succeeds:       *)
(* mcsos_blk_validate_range wants the block on the device.                 *)
CanFlush(i) == Stale(i) => entries[i].block \in OnDevice
FlushEntry(i) == IF Stale(i) THEN [disk EXCEPT ![entries[i].block] = entries[i].data] ELSE disk

(* Victim i is written if it must be, and e takes its place. *)
Fill(i, e) == /\ entries' = [entries EXCEPT ![i] = e]
              /\ clock_hand' = i + 1
              /\ CanFlush(i)
              /\ disk' = FlushEntry(i)
              /\ bypassed' = bypassed \ {entries[i].block}
              /\ UNCHANGED registry

-----------------------------------------------------------------------------
(* mcsos_bcache_read *)
ReadHit(b) == /\ \E i \in Find(b) :
                   last' = [op |-> "read", rc |-> "OK", block |-> b, got |-> entries[i].data]
              /\ UNCHANGED <<disk, registry, entries, clock_hand, bypassed>>

ReadMiss(b) ==
  /\ Find(b) = {}
  /\ b \in OnDevice
  /\ \E i \in Index :
       /\ IsVictim(i)
       /\ Fill(i, [valid |-> TRUE, dirty |-> FALSE, block |-> b, data |-> disk[b]])
  /\ last' = [op |-> "read", rc |-> "OK", block |-> b, got |-> disk[b]]

(* The victim is written, the block cannot be read: the entry is invalid. *)
ReadFails(b) ==
  /\ Find(b) = {}
  /\ \E i \in Index : IsVictim(i) /\ Fill(i, Empty)
  /\ last' = [op |-> "read", rc |-> "ERROR"]

(* mcsos_bcache_write *)
WriteHit(b, v) ==
  /\ \E i \in Find(b) : entries' = [entries EXCEPT ![i].data = v, ![i].dirty = TRUE]
  /\ last' = [op |-> "write", rc |-> "OK", block |-> b]
  /\ bypassed' = bypassed \ {b}
  /\ UNCHANGED <<disk, registry, clock_hand>>

WriteMiss(b, v) ==
  /\ Find(b) = {}
  /\ \E i \in Index :
       /\ IsVictim(i)
       /\ Fill(i, [valid |-> TRUE, dirty |-> TRUE, block |-> b, data |-> v])
  /\ last' = [op |-> "write", rc |-> "OK", block |-> b]

(* The victim cannot be written and keeps its entry; the hand moves on. *)
VictimFails(b, o) ==
  /\ Find(b) = {}
  /\ \E i \in Index : IsVictim(i) /\ Stale(i) /\ clock_hand' = i + 1
  /\ last' = [op |-> o, rc |-> "ERROR"]
  /\ UNCHANGED <<disk, registry, entries, bypassed>>

(* Mutant: flush_all clears every dirty flag, also of entries it did not   *)
(* reach.                                                                  *)
FlushedMutant(k) == [i \in Index |-> [entries[i] EXCEPT !.dirty = FALSE]]

(* The entries and the devices once the first k entries are flushed. *)
Flushed(k) == [i \in Index |-> IF i < k THEN [entries[i] EXCEPT !.dirty = FALSE] ELSE entries[i]]
FlushedDisk(k) ==
  [b \in OnDevice |->
     IF \E i \in Index : i < k /\ Stale(i) /\ entries[i].block = b
       THEN entries[CHOOSE i \in Index : i < k /\ Stale(i) /\ entries[i].block = b].data
       ELSE disk[b]]

(* mcsos_bcache_flush_all, which stops at the first entry that cannot be   *)
(* written.                                                                *)
FlushAll == /\ \A i \in Index : CanFlush(i)
            /\ entries' = Flushed(EntryCount)
            /\ disk' = FlushedDisk(EntryCount)
            /\ last' = [op |-> "flush", rc |-> "OK"]
            /\ UNCHANGED <<registry, clock_hand, bypassed>>

FlushStops == /\ \E k \in Index : /\ Stale(k)
                                  /\ \A i \in Index : i < k => CanFlush(i)
                                  /\ entries' = Flushed(k)
                                  /\ disk' = FlushedDisk(k)
              /\ last' = [op |-> "flush", rc |-> "ERROR"]
              /\ UNCHANGED <<registry, clock_hand, bypassed>>

(* Power loss; the registry is empty again, then mcsos_bcache_init. *)
PowerLoss == /\ entries' = [i \in Index |-> Empty]
             /\ clock_hand' = 0
             /\ registry' = <<>>
             /\ last' = [op |-> "none", rc |-> "OK"]
             /\ bypassed' = {}
             /\ UNCHANGED disk

Cached(b) == \/ ReadHit(b) \/ ReadMiss(b) \/ ReadFails(b)
             \/ \E v \in Value : WriteHit(b, v) \/ WriteMiss(b, v)
             \/ \E o \in {"read", "write"} : VictimFails(b, o)

Next == \/ \E d \in Devices : Register(d)
        \/ RegistryReset
        \/ \E b \in Blocks : b[1] \in Known /\ Cached(b)
        \/ \E d \in Known, r \in Requests : BlkRead(d, r[1], r[2]) \/ \E v \in Value : BlkWrite(d, r[1], r[2], v)
        \/ BlkFails
        \/ FlushAll \/ FlushStops \/ PowerLoss

Spec == Init /\ [][Next]_vars

-----------------------------------------------------------------------------
(* Properties. *)

(* A block has one entry at most and a clean entry agrees with the device, *)
(* whatever failed before, unless the block was written past the cache     *)
(* since then: mcsos_bcache_find may stop at the first match, an eviction  *)
(* may drop a clean entry, and mcsos_blk_write is the only way to a stale  *)
(* one.                                                                    *)
CacheCoherent ==
  /\ \A i, j \in Index : entries[i].valid /\ entries[j].valid /\ entries[i].block = entries[j].block
       => i = j
  /\ \A i \in Index : entries[i].valid /\ ~entries[i].dirty
       => /\ entries[i].block \in OnDevice
          /\ disk[entries[i].block] = entries[i].data \/ entries[i].block \in bypassed

(* What the devices hold, what callers see through the cache, and the      *)
(* blocks with a dirty entry.                                              *)
Held == [b \in Blocks |-> IF b \in OnDevice THEN disk[b] ELSE NoData]
Seen == [b \in Blocks |-> IF Find(b) = {} THEN Held[b] ELSE entries[CHOOSE i \in Find(b) : TRUE].data]
Unwritten == {b \in Blocks : \E i \in Find(b) : entries[i].dirty}

Store == INSTANCE WriteBackStore WITH logical <- Seen, durable <- Held, pending <- Unwritten

(* Callers see a store that loses nothing they wrote short of a power      *)
(* loss, and after a flush that returned OK not even then; a block behind  *)
(* the end of its device can be written but lets no flush return OK        *)
(* (mcsos_bcache_write has no range check).  Reads past the cache see the  *)
(* device, and writes past it may stay unseen or be overwritten by what is *)
(* pending.                                                                *)
WriteBackSpec == Store!Spec
=============================================================================
