# MCSOS in TLA+

MCSOS is a teaching kernel for x86-64, built in sixteen practicals (M0 to M16).
This directory models the parts of it that keep state: two file systems, the
journal, the buffer cache, the VFS, the scheduler, the system calls, the ELF
loader, physical and virtual memory, the kernel heap and the locks. TLC checks
the models on small instances; TLAPS proves the journal, also on a disk that
damages it, both file systems, the buffer cache, the VFS, the run queue, the
frame allocator, the page tables, the heap, the locks, the loader and the range
checks of the system calls correct for instances of every size.

Paths below are relative to the repository root.

## 1. Inventory

| Component | State | Operations | Interacts with |
|---|---|---|---|
| Journal (M16), `kernel/fs/mcsfs1j/m16_mcsfs_journal.c` | journal header, descriptor and data blocks, home blocks | `m16_journal_commit`, `m16_journal_recover`, `m16_journal_clear` | called by MCSFS1J; a device whose writes can fail (`fail_after`) |
| MCSFS1J (M16), same file and `mcsfs1j_adapter.c` | superblock, two bitmaps, inode table, root directory, data blocks | `m16_format`, `m16_mount`, `m16_write_file(_ex)`, `m16_read_file`, `m16_fsck` | every call mounts, and so recovers, first; a file is two journal transactions |
| MCSFS1 (M15), `fs/mcsfs1/mcsfs1.c` | the same structures without a journal | `mcsfs1_format`, `mount`, `create`, `write`, `read`, `unlink`, `fsck` | block device callbacks |
| Buffer cache and block layer (M14), `kernel/block/` | cache entries, clock hand, device table | `mcsos_bcache_read`, `write`, `flush_all`; `mcsos_blk_*` | drivers such as `ramblk.c` |
| VFS and RAM file system (M13), `kernel/vfs/` | descriptor table per process, nodes, one data arena | `mcs_sys_open`, `read`, `write`, `lseek`, `close`; `mcs_ramfs_*` | descriptors point into nodes, nodes into the arena |
| Spinlock, mutex, lock-order validator (M12), `kernel/sync/` | lock words, owner, stack of held classes | `mcs_spin_*`, `mcs_mutex_*`, `mcs_lockdep_*` | threads interleave at every atomic access |
| Scheduler and threads (M9), `kernel/mcsos_thread.c` | linked run queue, thread states, saved contexts, current thread | `prepare`, `enqueue`, `pick_next`, `yield`, `block_current`, `mark_ready`, `validate`, `tick` | `mcsos_context_switch` in `arch/x86_64/context_switch.S` |
| Kernel heap (M8), `kernel/mm/kmem.c` | headers inside the arena, block list | `kmem_init`, `alloc`, `calloc`, `free_checked`, `validate` | callers overwrite payloads and keep old pointers |
| Virtual memory (M7), `src/vmm.c`, `src/kernel_memory.c` | four levels of page tables, TLB | `vmm_map_page`, `unmap_page`, `query_page`, `kernel_memory_init` | takes tables from the frame allocator |
| Physical memory (M6), `src/pmm.c` | bitmap, counters, search hint | `pmm_init_from_map`, `alloc_frame`, `free_frame`, `reserve_range` | boot memory map |
| ELF loader (M11), `kernel/user/` | the caller's plan, filled header by header | `m11_elf64_plan_load`, `m11_validate_user_range` | its user region is checked again by the system calls |
| System calls (M10), `kernel/syscall/` | registered callbacks, user region | `mcsos_syscall_init`, `set_user_region`, `user_check_range`, `copy_from_user`, `dispatch` | `yield` calls the scheduler; callbacks come from `kernel.c` |
| `kernel_main` (M9 to M11), `kernel/kernel.c` | scheduler, two threads, callbacks | loader smoke test, thread creation, registration, first yield | composes the three parts above |
| Interrupts and timer (M4, M5), `kernel/core/`, `kernel/arch/` | IDT, PIC masks, ticks | trap dispatch, EOI, `pit` | nothing in the scheduler |
| Boot, log, serial, panic (M2, M3) | none | device I/O | everything |

What is hard in this code, and what makes each part correct:

* **Crashes.** A file system call is several block writes and power may go
  between any two, recovery's own writes included. A journal transaction must
  be all or nothing; a mounted file system must satisfy its own `fsck`; files
  must not share blocks; a write that was reported must stay.
* **Partial failure.** A block write, a block read, a frame allocation or a
  lookup fails in the middle of a call that has already changed something. What
  it leaves must be consistent and reachable (tables made before `VMM_ERR_NOMEM`,
  a descriptor taken before `ENOENT`, a cache entry whose victim cannot be
  written).
* **Interleaving.** Only the locks run truly concurrently; the mutex sets
  `locked` and `owner` with two stores, and the spinlocks rely on the validator
  against deadlock. Processes of the VFS interleave call by call.
* **Stale state.** The allocator's hint, the TLB, the cache, an inode table
  read before a commit, a pointer freed twice.
* **Limits and arithmetic.** Cache, descriptor table, node table and arena full;
  ranges that end in the last page or wrap; sizes rounded with a 32-bit mask.
* **Progress.** A ready thread runs; a committed transaction is replayed.

`PROJECT.json` lists each of these at its line, with the properties that would
catch it going wrong.

## 2. Modules

| Module | Models | How state and actions correspond |
|---|---|---|
| `Transactions` | a transaction as a sequence of (block, value) records | `Overlay` is the effect of writing them home |
| `Journal` | commit and recovery | one action per block write; `pc` is the position in the C function; `head`, `desc`, `data`, `home` are the blocks on disk |
| `AtomicDisk` | what the journal promises | a transaction takes effect in one step, at most once, and before `M16_E_OK` |
| `JournalFaults` | the journal on a disk that damages journal blocks | ghosts `old` and `intended` |
| `Mcsfs1j` | the file system over the journal | `J == INSTANCE Journal`: the journal's steps are the block writes of each call; a bitmap is a set, an inode its kind and block |
| `Mcsfs1` | the file system without a journal | one action per block write; `expect` is what a file should hold |
| `WriteBackStore`, `BufferCache` | the promise of a write-back cache, and the cache with the block layer and the device registry below it | one action per outcome of a call; `Seen` is what callers see |
| `FileService`, `Vfs` | files as byte sequences with positions, and nodes in an arena with descriptors | one action per outcome of a call |
| `Scheduler` | the run queue and the context switch | the three pointers and the counter as in C, with the ghost `fifo`; `rip` is the saved instruction pointer; `HostTest` is `MCSOS_HOST_TEST`, under which the switch is compiled out |
| `MachineWord` | unsigned words of any size, user regions | sums wrap at `WordCount` |
| `ElfLoader` | `m11_elf64_plan_load` | the checks before the loop are one action, each turn of the loop one more; an image is the fields the loader reads |
| `Syscall` | the system calls, on `Scheduler` | one action per handler; `call` keeps what the last call returned and which user bytes it touched |
| `Kernel` | `kernel_main`, on `Syscall` and `ElfLoader` | `phase` is the position in `kernel_main` |
| `Pmm` | the frame allocator | bitmap as a set, addresses as words that wrap |
| `Vmm` | the page tables on top of `Pmm`, with the TLB | one action per level of the walk; `Access` is the processor |
| `Heap` | the heap | `hdr` is memory read as headers, so a stale header is still there |
| `Mutex` | try_lock and unlock | one action per atomic access |
| `LockOrder` | spinlocks under the validator | one action per atomic access or validator call, in the order of `m12_selftest.c`; classes are numbers up to `MaxClass`, as `class_id` is a `uint32_t` |
| `JournalInv`, `JournalProofs`, `Mcsfs1jProofs`, `Mcsfs1Proofs`, `BufferCacheProofs`, `VfsProofs`, `KernelProofs`, `MemoryProofs`, `LockProofs` | the inductive invariants and the proofs | |
| `MC*` | the values TLC uses | |

Composition: `Mcsfs1j` runs on `Journal`, `Vmm` on `Pmm`, `Syscall` on
`Scheduler`, and `Kernel` drives `ElfLoader`, `Syscall` and `Scheduler`. Refinement: `Journal`
implements `AtomicDisk`, `BufferCache` implements `WriteBackStore`, `Vfs`
implements `FileService`.

Definitions whose name ends in `Mutant`, or that a comment calls a mutant, are
deliberate errors: each property has one that it must catch. Nothing else uses
them.

## 3. Runs

| Run | What it shows | Bounds, and why they are enough |
|---|---|---|
| `journal` | commit, recovery, write errors and power losses implement `AtomicDisk`; a committed journal passes every check of recovery; home blocks are written only under a commit record; once faults stop, replay ends | 3 blocks, 2 values, 2 records: a transaction shorter than an earlier one leaves stale records behind it, and one block is outside each transaction |
| `journal_damage` | damage to header, descriptor magic or payload never puts foreign data in a home block, and a mount that succeeds shows every committed transaction | 2 blocks, 2 records: the first record can be good and the second bad |
| `mcsfs1j` | after any crash or write error `fsck` passes, files are disjoint, complete or absent, and durable | 3 names for 2 inodes, an inode table of two blocks, 3 data blocks: space runs out and both table blocks change |
| `mcsfs1` | the write order of the unjournalled file system survives errors and crashes: a disk that mounts passes `fsck`, files stay disjoint and readable, nothing leaks without a fault | 2 names, 2 file inodes, 3 data blocks, files of 0, 1 and 2 blocks: a file grows, fails to grow, and is unlinked; reads fail and recover (`FlakyReads`), so a name can get a second entry |
| `bcache` | the cache, and the block layer used past it, implement `WriteBackStore`; a clean entry is stale only where the block was written past the cache | 2 entries for 4 blocks, on two devices with equal block numbers, one block behind the end of its device: every miss evicts, and a write that can never reach its device is accepted; requests past the cache of none, one and two blocks, some past the end, also for blocks the cache holds; a registry of one device that overflows and is reset |
| `vfs` | the VFS implements `FileService`, and only `lseek` brings a descriptor behind the end of its file | 2 processes with 2 descriptors, two of the four open at a time (`FewOpen`, a bound on the states explored: two descriptors of one process, or of both on one file, are met, and a full table); files of 2 bytes, an arena that ends inside the second file, a name that is cut to another one; a `size_t` of 4 values and seeks to 0, 1 and its last value, which is behind every file |
| `kernel` | the loader accepts exactly the good images and leaves no half plan; its range check and that of the system calls agree; no system call touches a byte outside the user region or calls a null callback; the linked list is the FIFO of ready threads, `validate` accepts, one thread runs, and ready threads get their turn, also through `sys_yield` | 3 threads besides idle: head, tail and middle of the queue are different threads while idle runs. Words of 4 bits: every sum next to a limit and next to the wrap is met. All 1500 headers of a product of boundary fields, all tables of up to 3 of 4 headers for at most 2 segments, 4 regions (usual, up to the last word, from zero, empty) |
| `thread_entry` | expected violation, see section 6 | 2 threads, the kernel build (`HostTest = FALSE`) |
| `memory` | counters and hint are exact, a frame reserved while free stays unallocated until it is freed, page tables translate each page to its last mapping, every frame handed out is a table or lent, the TLB is fresh between calls | 8 frames of 4 bytes, tables of 2 entries, 3 pages that share four or two tables, 2 lent frames: the last table does not fit, so a map fails at each level; maps of one, three and four regions that overlap, start unaligned and end past the last word; one frame (`Strays`) that callers free though nobody gave it to them, reserved or not; a range that wraps when its end is rounded |
| `heap` | blocks tile the arena and coalesce, used blocks are exactly the owned ones also after stale frees, blocks are large enough for requests that do not wrap | arenas of at most 32 bytes with headers of 5 and alignment 2; one arena is too small for a block; a request of 127, which rounds up to zero at the mask of 128 |
| `mutex` | one holder, only the holder unlocks, return codes are true | 3 threads: a holder, one that failed, one that races |
| `lockorder` | one holder per spinlock, the validator never forgets a lock, no circular wait | 3 threads, 4 locks, 3 classes (two locks share one), stacks of 2: circles of two and three are possible and overflow is met |

Symmetry is used for names, contents and processes, in runs without liveness.
Every passing run checks for deadlock as well; in `thread_entry` the CPU does halt.

**Fairness.** `journal` assumes weak fairness of mounting, of recovery and of
commit: these are straight-line loops in C, and a machine that keeps losing
power before the next mount is excluded by the premise of
`CommittedIsReplayed` (faults cease). `kernel` assumes weak fairness of
`RegisterOps`, since `kernel_main` is straight-line code, and of `Switching`, the
running thread's yield or block, by a scheduler call or by a connected system
call: scheduling is cooperative and `tick` does not preempt, so a thread that
never yields does starve the others; the property says what happens when they do
yield. It has the host build's scheduler (`HostTest = TRUE`), in which the caller
of yield goes on as the new thread; `thread_entry` assumes the same of the
kernel build, and only while the CPU executes a thread at all. Nothing is assumed of the spinlocks, which are
not fair.

## 4. Proofs

TLAPS checks eight modules, with no assumption beyond the named `ASSUME`s of the
modules they extend (the constants are sets, naturals or functions of the right
kind; a marker value is not an ordinary value) and the hypotheses named below.
Each inductive invariant was checked by TLC on its run before it was proved.

`JournalProofs`, for any set of blocks, any values and any journal length:

* `Invariance`: `Spec => []JInv`. `JInv` (module `JournalInv`) adds to the
  stated invariants what the code knows at each `pc`: which header the disk holds
  (`HeaderInv`), how much of the transaction has reached the journal
  (`LoggedInv`) and how much has reached home (`HomeInv`). None of the stated
  invariants is inductive alone: that a commit record covers good records
  follows only from what the loops before it wrote.
* `TypeCorrect`, `Replayable`, `MountedCurrent`: the three invariants of the run.
* `HomeAfterCommit`: the action property on home blocks.
* `Refinement`: `Spec => AtomicDiskSpec`. The mapping shows the disk as the next
  mount will: home blocks overlaid with a committed journal. The header write is
  the step that takes effect; home writes, replays and clearing are invisible
  because overlaying a transaction over a part of itself changes nothing
  (`OverlayAbsorbs`, `OverlayDone`).
* `RecoveryFailsClosed` and `MountComplete`: the same journal on a disk that
  damages journal blocks at any time (`JournalFaults`), from `FaultInv`. Its
  core is `FaultReplay`: a record that still passes the checks of recovery is the
  record that was logged, so replay up to any point has put home only what was
  intended there.

`Mcsfs1jProofs`, for any numbers of names, inodes, data blocks and directory slots
and any contents:

* `FileSystemInvariance`: `Spec => []Inv`. `Inv` speaks of `Effective`, the device as
  the next mount will show it. What a block write does to the journal comes from
  the lemmas of `JournalProofs`, instantiated for this device
  (`P == INSTANCE JournalProofs`): of all the writes of a call only the header write
  of a commit changes `Effective`, and it applies one whole transaction. What is
  left is what the two transactions of `m16_write_file_ex` do to the files
  (`Allocates`, `Enters`). Between them a power loss leaves an inode and a block
  marked that no file has; so `Inv` says of the first transaction that what it
  takes is free (`Picked`), and of the second that it is taken by this call and
  by no file (`Taken`), and keeps that through a device error in either. While
  `m16_format` runs, blocks of the old and of the new file system lie side by side;
  `FormatInv` says that the directory is the empty one until the end.
* `FsckHolds`, `Disjoint`, `AllOrNothing` and `Durable` follow. The assumptions: a
  transaction fits the journal (`MaxRecords`: two bitmaps and the inode table, as in
  `m16_write_file_ex` with `M16_JOURNAL_MAX_RECORDS`), and a journal slot that was
  never written does not look like a descriptor (`DescriptorAssumption`: its magic
  number is zero).

`Mcsfs1Proofs`, for any number of names, inodes, blocks and directory entries and
contents of any length that fits an inode:

* `FsInvariance`: `Spec => []FsInv`. A disk that mounts is `Sound`: every entry has an
  inode and blocks of its own, marked in the bitmaps. While no call was cut short
  the bitmaps are also `Exact`: they mark what the directory reaches and what the
  call under way has marked ahead of its entry (`ExtraInos`, `ExtraBlocks`). `Sound`
  is not inductive alone: that a create may enter its inode follows from what its
  earlier writes put on the disk, that an unlink may free blocks from its entry
  being gone, so `FsInv` says for each position in a call what it has written
  (`Creating`, `Writing`, `Unlinking`) and for each position in a format why the disk
  does not mount yet (`Formatting`).
* `MountedIsSound`, `Disjoint` and `NoLeak` follow from it, with no hypothesis: also
  with failing reads and with names of the full length.
* `ReadBack`, from `ReadInv` on top of `FsInv`: a write and an unlink work on the first
  entry with their name, and the blocks written so far hold the new content. The
  hypothesis is `LongNames = {}`: a name that fills its field may not be found again
  (section 6).

`BufferCacheProofs`, for any devices, any number of entries and any registry:

* `Coherence` from `CacheInv`, the property with the types of the state. It is
  inductive because every outcome of a call restores it: an eviction whose write
  failed keeps its entry, a read that failed empties the slot it was for, and a
  write past the cache puts the blocks whose clean entries it leaves stale into
  `bypassed`.
* `WriteBack`: `Spec => WriteBackSpec`, with no hypothesis. The abstract store keeps
  apart what callers of the cache see (`logical`), what the device holds (`durable`)
  and which blocks are `pending`. A read past the cache returns `durable`, as
  `tests/host/test_m14_block.c:50` expects; a write past it changes `durable` and
  leaves callers of the cache with the old or the new contents. A block behind the
  end of its device has no durable contents (`NoData`): it can be written and then
  lets no flush succeed.

`VfsProofs`, for any processes, descriptors, names, files and arena:

* `Descriptors` from `VfsInv`, which adds to it that files lie one behind the
  other in the arena, each inside its capacity (`PlacedIn`). The ghost `strayed` has
  the descriptors that `lseek` put behind the end of their file and that are there
  still; that the others are inside is not supplied by a guard but follows from
  what reads, writes, opens and closes do, of this process and of others.
* `FilesAreSeparate`: `Spec => FileSpec`. A byte of the arena belongs to one file,
  so a write is `Overwrite` on its own file and nothing on the others
  (`WritesBytes`), a new file is appended and the others keep their bytes
  (`AppendsBytes`), and a read inside the file is a subsequence (`ReadShown`). A
  read behind the end may return any bytes (`ReadBehindShown`), and a write there
  leaves in the gap what the arena held (`Service!Gaps`). There is no hypothesis on
  the positions that are sought; writes keep to `Within`.

`KernelProofs`, for words of every size, any images, regions, callbacks,
arguments and threads:

* `OnlyUserBytes` and `NeverNull`, from `SysInv`: the region consists of words, and
  once `kernel_main` has registered its callbacks `write_serial` has one. The core
  is `CheckedInside`: whatever `mcsos_user_check_range` lets through lies in the
  region, because `last >= addr` excludes a wrap.
* `Usable`, from `LoadInv`: every segment in the plan has passed the checks of
  `m11_validate_load_segment` (`Passed`), from the turn of the loop that adds it.
  `LoaderAgrees` shows that what `m11_validate_user_range` accepts,
  `mcsos_user_check_range` accepts piece by piece. The property alone is not
  inductive: it says nothing while the loop runs.
* `LoaderExact`, from `PlanInv`, which says where a call stands: it has walked over
  the first headers and its plan is theirs (`Walked`), or it has rejected and there
  is a reason in the image (`Refused`). The rest relates the checks to the reference
  definition: sums that may wrap to sums that do not (`RangeExact`, `BeyondExact`),
  equal remainders to a common multiple (`AlignedAlike`), the first failed of a list
  of checks to their conjunction (`VerdictOK`), and the recursive selection
  `LoadsAmong` to the headers it selects (`LoadsSelected`).
* `QueueIsFifo` and `NoThreadLost`, from `SchedInv`: the links along `fifo` lead from
  the head to the tail, no thread is in it twice, the counter is its length, and
  the READY threads are those in it. The hypothesis is that callers do not
  enqueue a READY thread (`"READY" \notin EnqueueOn`), which the code does not
  check (section 6).

`MemoryProofs`, for any map of regions, any number of frames, pages and tables:

* `Bookkeeping` and `ReservedSafe`, from `PmmInv` (types, counters and hint) and
  `ReservedKept` (reserved frames are used), in `Vmm`, where the frame allocator serves
  the page tables and its other callers. Neither has a hypothesis: maps and ranges
  are arbitrary, and callers free what they were given and what nobody was given
  (`Vmm!GiveBack`). `PmmBookkeeping` and `PmmReserved` say the same of `Pmm` alone,
  where any used frame may be freed. That the counters are exact after
  `pmm_init_from_map` is shown pass by pass (`Passes`), each frame being counted when
  its bit changes. `ReservedSafe` is about the frames that were reserved while nobody
  had them and that nobody freed since; the holes in the code that keep the report
  from being true without these words are in section 6.
* `TranslationExact`, `NoFrameLost` and `TlbCoherent`, from `SpaceInv`, for a call that
  may stop, fail or be watched by the processor at any level of its walk. The
  invariant adds to them where a call in progress stands (`WalkInv`: in a table on
  the path of its page) and that a stale TLB entry belongs to the page about to
  be invalidated (`TlbInv`). The tables form a tree (`IsTree`), which is why setting
  one entry moves one page and hanging in a new, empty table moves none.
* `Tiling` and `Owners`, from `HeapInv`, for any arenas, header size and alignment. An
  allocation cuts a tile in two; a free takes away a run of at most two blocks
  around the freed one (`IsRun`), whose sizes add up. The invariant must
  speak of stale headers too: a pointer freed once more passes the checks of
  `kmem_free_checked` only if the memory before it still reads as a used header, and
  every header that does, listed or not, has an owner. Requests are of any size,
  the ones that wrap included. The hypothesis `ArenasBelowMask` is on the arena
  alone: with one alignment added it stays within the 32-bit mask, so the sizes of
  its blocks do not wrap. That a block is as large as asked for is stated for
  requests that do not wrap (`Roundable`): for the others the code breaks it
  (section 6).

`LockProofs`, for any threads, locks, classes and depth of the stack:
`SpinExclusion`, `ValidatorComplete` and `DeadlockFree`, from `LockInv`. No circle of
waiting threads exists because a thread wants only a class above all it holds:
in a circle, the holder of the lock with the largest wanted class would want a
larger one.

Also there, for any number of callers of the mutex: `Exclusion`, `HolderUnlocks` and
`Verdicts`, from `MInv`, which relates each thread's position to the ghost
holder and to `owner`. It is needed because `owner` lags behind `locked` in both
directions.

Recursive functions (`LoadsAmong`, the survivors of a coalescing, the run queue as a
list) are reasoned about through the least counterexample: the set of arguments
at which a claim fails, were it not empty, would have a least member. The function
itself exists because a shorter one can always be extended by one value.

Only model-checked: liveness (`CommittedIsReplayed`, `ReadyRuns`), which is outside
what the prover handles, as is anything with `ENABLED`. Every invariant that a
passing run checks is also stated by a theorem.

## 5. Abstractions

* Calls of the file systems, the cache, the VFS, the scheduler, the heap and the
  memory managers do not overlap: the kernel runs them without preemption and
  has no lock in them. Only `Mutex` and `LockOrder` interleave inside calls.
  Atomic accesses are sequentially consistent.
* A block write is atomic and writes reach the disk in program order. The
  journal writes through an array, and there is no barrier in the code to model.
* Checksums are taken to be collision-free; magic numbers and version fields are
  either right or wrong as a whole.
* Names, contents and bytes are a few values; a name is a string only where the
  code's treatment of its length matters (`Vfs!Stored`, `Mcsfs1!LongNames`).
* Of a register context only the instruction pointer is kept. Calls that the
  running thread makes are enabled only while the CPU executes a thread
  (`Scheduler!Executing`).
* The loader's image, the number of threads and the order of system calls are
  arbitrary in `Kernel`, where `kernel_main` has fixed ones. `mcsos_scheduler_init`
  is taken with the initial state: nothing reads the scheduler before it. The
  identification fields of an ELF header are right or wrong, in the order in
  which they are checked.
* A call whose arguments are refused (null pointers, unaligned or non-canonical
  addresses) returns without a change and is not an action.
* Statistics nothing reads, and the sequence number of the journal, are left out.
* Callers keep to contracts where the code has no check: writes to a RAM file stay
  in its capacity and in the arena (`Vfs!Within`), seeded names are new and fit
  (`Vfs!Fits`), callers of the frame allocator do not free page tables or each
  other's frames, nor a frame that a page still maps (`Vmm!GiveBack`; they may free
  frames that nobody was given), `pmm_init_from_map` is called once, owners of heap
  blocks do not write past the block they got (`Heap!Fill`), a thread that is READY
  is not enqueued again (`EnqueueOn`). In `Vfs` the two are guards of `Next`, on the
  callers' side; the actions are the handlers without them, the wrapping subtraction
  of `mcs_sys_read` included. The next section says what happens otherwise.
* A damaged journal header is one that recovery refuses (`JournalFaults!DamageHeader`).
  One damaged to zero in both `magic` and `state` passes as an empty journal
  (`m16_mcsfs_journal.c:301`) and is not modelled: the committed transaction behind
  it would be dropped without an error. A damaged descriptor loses its magic number;
  a changed `target_lba` is in the next section.

## 6. Where the code and its documents disagree

`thread_entry` is a run: `mcsos_thread_prepare` saves `mcsos_thread_trampoline` as
the instruction pointer of a new thread (`mcsos_thread.c:93`), and the trampoline
(`mcsos_thread.c:22`) halts for ever; it never calls `entry`. The first switch to
a thread therefore stops the CPU, and a READY thread never executes its code
("Thread dieksekusi bergiliran melalui yield", `laporan praktikum M9.md:773`). The
host tests do not see it, because `MCSOS_HOST_TEST` leaves the switch out.

The following were met while modelling. Where a constant or a definition
reproduces one, it is named. Either the passing runs exclude it, or they contain it
and the property is narrower than the document; the entry says which.

* `m16_mcsfs_journal.c:326`: `payload_checksum` does not cover `target_lba`, so a
  descriptor damaged into another valid block is replayed over that block
  ("recovery must fail closed instead of applying unknown target", line 691).
* `m16_mcsfs_journal.c:537`: inode and directory entry are separate transactions;
  a power loss between them leaves a used inode and block that no entry names,
  and neither mount nor `fsck` repairs or reports it (`laporan praktikum
  M16.md:328`).
* `m16_mcsfs_journal.c:538`: `clean_generation` never changes, so all files use
  the same two sequence numbers ("identifier unik", `laporan praktikum
  M16.md:352`). Recovery does not read them.
* `mcsfs1.c:225`: a 27-byte name has no terminator, and the file is not found once
  the next slot is used (`LongNames = {f}` violates `FilesReadBack`; `OS_panduan_M15
  (1).md:240` allows 27 bytes).
* `mcsfs1.c:406`: a directory read that fails once makes `create` add a second entry
  with the same name (the run has `FlakyReads = TRUE`, and `UniqueNames` is violated
  under it; "Nama unik dalam root", `laporan praktikum M15.md:338`). The run shows
  that the two entries at least keep their inodes and blocks apart.
* `mcsos_thread.c:109`: `mcsos_sched_enqueue` accepts a READY thread and clears its
  `next` while it is linked, so the threads behind it leave the list (`EnqueueOn`
  with `"READY"` violates `AllReadyOnRunqueue`; "Seluruh thread READY berada pada
  runqueue", `laporan praktikum M9.md:358`).
* `m11_elf_loader.c:143`: the entry point need only lie in the user region, not in
  an executable segment (`EntryExecutable` is violated; "Entry point harus berada
  pada segment executable yang valid", `laporan praktikum M11.md:346`). Segments may
  overlap each other. An image without a PT_LOAD header is refused at line 172
  with the plan's `entry` left set, which every other refusal clears.
* `kernel.c:29`: `k_write_serial` ignores the length and prints up to a terminator,
  so bytes behind the checked range may be read; `UserBytesOnly` is about the range
  that `sys_write_serial` hands over. `kernel.c:24`: `k_exit_current` only logs, and a
  thread that called `exit_thread` goes on. Nothing in the kernel calls
  `mcsos_syscall_set_user_region`, so every `write_serial` with a length returns
  `EFAULT`. `syscall.c:68` calls `write_serial` unchecked; before the first
  `mcsos_syscall_init` it is null.
* `kernel.c:51` raises interrupt 0x80, for which `idt.c` installs no gate and has no
  entry. `kernel.c:138` to the end are statements at file scope; the file does not
  compile with them, and the model ends with `kernel_main`.
* `blk.c:31`: `mcsos_blk_write` of a block that the cache holds leaves a stale entry,
  or is overwritten by the next flush. The run contains it: `CacheCoherent` exempts
  the blocks in `bypassed`, and `WriteBackStore!DirectWrite` says what callers may see.
* `bcache.c:80`: a write beyond the device is accepted into the cache and then
  stops every flush (`laporan praktikum M14.md:353`). The run contains such a block,
  and `WriteBackStore!Flush` does not return OK while it is pending.
* `pmm.c:206`: `pmm_free_frame` frees reserved frames, and the next allocation may
  hand them out; `pmm.c:92`: a range ending in the last page rounds up to zero and is
  not reserved (`<<12, 51>>` with `WordSize = 64`); `pmm.c:213`: a range may be
  reserved while somebody has its frames. `laporan praktikum M6.md:373` says that a
  frame in a reserved region is not allocated. The run contains all three, and
  `ReservedNeverAllocated` is about frames reserved while nobody had them, by a range
  that does not wrap, and not freed since. A frame freed a second time after it went
  to another owner is taken from that owner: `pmm_free_frame` cannot tell, and
  `Vmm!GiveBack` excludes it.
* `kernel_memory.c:36`: `kernel_memory_init` passes a null bitmap to
  `pmm_init_from_map`, which refuses it, so it always panics. The model takes the
  bitmap as given.
* `kmem.c:65`: sizes near 2^32 round to zero, and the caller gets a block smaller than
  it asked for (`laporan praktikum M8.md:1044`). The run contains such a request
  (127 with `MaskSize = 128`); `LargeEnough` says nothing of its size.
* `ramfs.c:41`: 63 files of 256 bytes exceed the arena of 8192 bytes and no write
  checks the capacity or the arena (without `Within` a write reaches the bytes of
  the next file, or past the arena; "RAMFS tidak boleh menulis data melebihi
  kapasitas arena", `laporan praktikum M13.md:349`). Opening `/` for writing reaches the first file. `MCS_O_TRUNC`,
  `MCS_O_APPEND` and the access flags are ignored, as is every `whence` but
  `MCS_SEEK_SET`.
* `fd.c:72`: `mcs_sys_lseek` takes any position, and a read beyond the size then
  wraps at line 44 and returns bytes of other files or of memory behind the arena
  (`laporan praktikum M13.md:348` says the offset stays inside the file). The run
  contains such seeks: `DescriptorsValid` says that no other call does this, and
  `FileService!ReadBehind` allows any bytes.

## 7. Not modelled

* Interrupts and timer. As the code stands no device interrupt reaches
  `x86_64_trap_dispatch`: the stubs of vectors 32 to 47 are assembled into `.rodata`,
  push the memory at the address of the vector number (`pushq \num` without `$`,
  `isr.S:140`) and jump to a table of pointers. A model of ticks, masks and
  end-of-interrupt would describe something the code does not do, and the
  scheduler does not depend on it: `tick` only counts.
* Boot, log, serial and panic, memory primitives, `page_fault_dump`: straight-line
  device I/O and formatting without state.
* `src/third_party` (vendored). The copies of the journal file at the root, under
  `tests/m16` and in `m16_aman.c` repeat the modelled one.

## 8. Plan

Done first, because crashes are where this system is hardest to test: the
journal, its proof, the file systems; then the cache, the VFS, the scheduler, the
memory managers and the locks; then the loader, the system calls and their
composition in `kernel_main`.

Then proofs: the journal and its faults, the unjournalled file system, the cache
and its refinement, the VFS and its refinement, the run queue, frames and page
tables, the locks; last the journalled file system on the proved journal, the heap
and the loader against its reference definition.
