# Verification of the CS330 assignments

TLA+ models of the code under `src/Assignments`, TLC configurations that check
them on small instances, and TLAPS proofs for every value of the constants.

## The system

| part | source | state | operations |
|---|---|---|---|
| object table | `assignment4/objstore.c` | `obj[]`, `create_object_lock` | find, create, rename, destroy |
| page cache | `assignment4/objstore.c`, `lib.c` | `block_bitmap`, `cache_bitmap`, `dirty_flag`, pages, disk | read, write, allocate, free, evict, sync, mount |
| objects over blocks | `assignment4/objstore.c` | sizes, indirect tables | objstore_read, objstore_write, stat |
| FUSE front end | `assignment4/objfs.c` | none | forwards to the store |
| scheduler | `assignment3/schedule.c` | contexts, timers, kernel stacks | tick, sleep, alarm, signal, clone, exit |
| faults and system calls | `assignment2/entry.c` | segments, page tables | expand, shrink, page fault |
| context set-up | `assignment1/context_mm.c` | four-level page tables | prepare, cleanup |

The store is called by several FUSE threads at once. It locks creation, the
block bitmap and part of the cache; lookups, reads and deletions run unlocked.
gemOS has one CPU, and its handlers run to completion. What is hard: unlocked
scans of a changing hash table, id and key published in two stores, cache pages
handed out before they are marked, pages that outlive their block, tables on disk
that are older than the ones in the cache, a tick that saves registers from
another frame, scans without wrap-around, page tables that several segments share.

## Modules

| module | models |
|---|---|
| `ObjTable` | the hash table of objects under concurrent calls |
| `BlockCache` | the write-back page cache, block allocation, unmount and mount, under concurrent calls |
| `KVStore` | abstract: a map from keys to contents, with remounts and crashes |
| `ObjStore` | the FUSE requests, objects, indirect tables, bitmap, cache, super block; implements `KVStore` |
| `Scheduler` | the contexts of gemOS and every handler of `schedule.c` |
| `MemoryLayout`, `PageTable` | frames and segments; the page-table code that assignments 1 and 2 share |
| `ContextMM` | assignment 1: the tables of a context built and given back |
| `AddressSpace` | abstract: pages, frames and TLB of a process |
| `SegmentMap` | where the segments of assignment 2 lie in the page tables |
| `UserMemory` | assignment 2: system calls and faults over page tables; implements `AddressSpace` |
| `ObjTableProofs`, `BlockCacheProofs`, `SchedulerProofs`, `ContextProofs`, `UserMemoryProofs` | theorems about the module of the same name (`ContextMM` for `ContextProofs`) |
| `AbstractProofs` | theorems about `AddressSpace` and `KVStore` |
| `BlockCacheInv` | the invariant of `BlockCacheProofs` and the steps inside `read_cached` and `write_cached` |
| `PageTableProofs` | what the page-table code does to a tree of tables: the lemmas of `ContextProofs` and `UserMemoryProofs` |
| `MCObjTable`, `MCBlockCache`, `MCObjStore`, `MCScheduler`, `MCMemory` | small instances |

Definitions keep the names of the C functions where one definition is one function.
Where a function is several steps (other threads run in between), each step is
an action and `pc` says where a thread is. Definitions marked "Mutant" are not
part of the models: each is a plausible mistake in the definition after it, and
the property it is written for fails when it takes that definition's place. The
two abstract modules say what is promised and translate no particular lines.

**ObjTable.** `id`, `key` and `data` are the fields of `obj[s]`; `data` stands
for size and block pointers. A probe visits one slot per step, and the id and key
tests of a visit are one step. `held` is a history variable: the slots that have
held the key looked up since the call began.

**BlockCache.** `read_cached` stores `cache_bitmap`, then `block_bitmap`, then
loads; `write_cached` stores them the other way round. Both orders are kept. A
block has one value. Blocks are allocated and freed independently of each other,
which allows more than the store does. No two threads use a block at once: the
assignment (page 2) assures that "the same object will not be concurrently
accessed by multiple threads/processes". The model is of the build with
`-DCACHE`, as in the Makefile.

**ObjStore.** One request at a time, each a whole handler. `obj` has size (in
blocks) and `data_block_pointers`; `used`, `page` and `left` are what
`block_bitmap`, `cache_bitmap` and `dirty_flag` say: the used blocks, the page of
each block, and the pages that freed tables leave behind. A table is a function
from entries to block numbers, and it moves between cache and disk like any block.
`super` is the super block as last written. `store`, `saved`, `synced` and `origin`
are history variables: what reads return now, what they would return after a
crash, what they returned at the last unmount, and which object was which then.
They are also the refinement mapping, with `room` the number of unused blocks.
`-1` from `get_new_datablock` is followed as in the code: the entry stays -1, the
data are lost, and the size counts them. Two effects of it outside the store's
own state are left out: the write goes to `block_bitmap[-1]` (which lies in the
mutex before it), and a table that cannot be allocated writes its data to disk
block 0, the super block, which the next unmount writes again.

**Scheduler.** One action per handler. Register contents are reduced to
`regs_exact`: whether what is saved is what the context had. A system call saves
exactly; a tick is taken to save wrongly, because `save_current_context` reads
the layout that system calls leave at the top of the kernel stack. `rax` is saved
by no path and is not part of this. `get_new_ctx` and `os_pfn_alloc` have no
source here: they return any unused entry and any free frame. Running out of
frames is not modelled. A clone with a full table ends in `system = "null"`,
a scan that leaves the table in `"overrun"`; nothing is claimed after either.

**PageTable, ContextMM, UserMemory.** A virtual page is the sequence of its four
indices and a table a function from indices to entries (frame, write bit). Past
an absent entry a walk is in table 0, which is empty. `ContextMM` has
`prepare_context_mm` and `cleanup_context_mm`, with `install_os_pts` of the caller
in between. `UserMemory` has one action per system call and per handler; the
processor (external) issues an access, walks the tables or uses its TLB, which
may keep or drop any translation, and raises a fault, after which the access is
tried again. Loading and ending a process (`exec_init`, `do_exit`) exist as object
files only; what they do to pages, tables and segments was read from those and
from how `entry.c` uses it. `AddressSpace` has no tables: the mapping takes the
frame of a page from the walk.

## Runs that pass

| run | instance | shows |
|---|---|---|
| `table_grow` | 2 threads, 3 keys on 2 hash values, 3 slots, fair threads; open, write, create | no duplicates, writes land in their object, lookups miss nothing and end, no live object overwritten, the lock is given back |
| `table_all` | 2 threads, 2 keys, 3 slots; with rename and destroy | lookups miss nothing, no live object overwritten |
| `cache` | 2 threads, 2 blocks, 2 usable pages, all operations, counter wraps | reads are current, pages are not shared, unmount saves everything |
| `store` | 2 keys, 5 blocks, tables of 2 entries, 2 pointers, 8 steps | the store implements `KVStore`; a write does exactly what it was asked, or the disk is full; no block is reached twice; stat and reads agree; a crash keeps what was saved |
| `sched` | 4 contexts, init clones, fair ticks | one active context, exact resumption, unique stacks, alarm and sleep accounting, exit finds a successor inside the table, sleepers run again |
| `memory` | tables of 4 entries, 13 table frames, 7 user frames | assignment 1: each frame given back once, no stray entries, permissions as asked; assignment 2: implements `AddressSpace`, no stale translation, no lost frame or table, permissions, every access ends |

`memory` checks both kernels in one run: `kernel` chooses one at the start.

## Disagreements between code and comments

Each is a run in which TLC must find the violation.

| run | comment | what happens |
|---|---|---|
| `table_stale_key` | `objstore.c:286` "Destroys an object with obj.key=key" | the id is stored before the key, so an unlocked lookup matches the slot's old key |
| `table_duplicate` | `objstore.c:229` "Must check for duplicates." | create stops at a hole left by a deletion; one thread is enough |
| `cache_evict` | `objstore.c:90-91` "Read the block and then cache it" | `flush_cache` takes the mutex its caller holds |
| `store_leak` | `objstore.c:24` "Store 0 for unused, otherwise used" | deletion reads the table from disk, where blocks written since the last unmount are missing; they stay used, and so do the blocks that a shorter write cuts off and a table whose page is left behind |
| `sched_starve` | `schedule.c:147-148` "and invoke schedule" | a tick never switches to a ready context |
| `mem_rodata` | `assignment2/assignment.pdf`, page 2: "or the access is a WRITE access, you should terminate the process" | the handler ignores the error code for this segment and the write faults for ever |

More follows from the models and the source without a run of its own:

- `table_grow` has a slot for every key; with fewer slots than keys `LockReleased`
  fails, because `create_object` probes a full table for ever with the lock held
  (`objstore.c:240`).
- `AlarmAccount` lets `alarm_age` reach `alarm_config_time`: the tick that brings
  the count to zero does not raise SIGALRM, the next one does, so alarm(n) takes
  n+1 ticks (`schedule.c:176`).
- A write on a full disk returns its full size and loses data (`WriteShort`).
- After the page counter has wrapped, the page left behind by a freed table can be
  above the page that replaced it, and `cache_sync` would write the older one last
  (`BlockCache` does not unmount then).
- Where the data page shares a directory with the code and not with the stack, the
  directory has the code's write bit and data cannot be written (`Separated`); the
  fixed addresses of gemOS do not do this.

## Bounds

Two threads suffice for every race above; each property relates two calls.
Three colliding keys in three slots give probe sequences that wrap, collide and
pass a hole. `MaxSleep` and `MaxAlarm` of 2 separate zero, last and earlier
ticks. `Exclusive` says whether two calls may use the same key at once.

`Turn` of `BlockCache`: the page counter wraps only while no other thread is in a
call. A thread that is delayed for a whole turn of the counter shares its page with
another, since the page is unmarked until it continues (32766 misses in the source).
Two usable pages hold the page a freed table left behind and the one that replaces
it, or the pages of two threads between their two stores; a third miss wraps.

`store`: an object of three blocks needs two tables and three data blocks, which is
the whole disk; so tables, data, or both run out, and blocks are reused after
deletions. `MaxSteps` of 8 allows, for instance, create, write, write, remount,
remove, create, write, crash. `InTable`: a request is whole blocks inside one table.
A write leaves no gap. The cache does not fill (`cache` has that) and keys do not
collide (`table_*` have that). Keys are symmetric.

`memory`: `SPAN` 2 puts the three data pages under two first-level tables.
`MCLayouts` has one layout for each way the three walks can share tables.
`MaxSize` of 3 reaches past the end and the start of each segment; `U32_PAGES`
keeps the 32-bit shift, and sizes stay below it as the assignment's limit of 512
pages does. One cached translation is enough for a stale one. Frames do not run
out: `FramesLeft` keeps three tables and a page free where a page is mapped, which
is all that one mapping can take, and the instance has enough for every page.

Deadlock checking is off where the system may stop: after `do_cleanup`, at the page
bound, and in an eviction.

## Fairness

A thread inside a call keeps running (weak fairness of its steps). Nothing is
assumed about clients, nor about who gets a contended lock. The timer keeps
ticking (weak fairness of `handle_timer_tick`); user code may do nothing for ever.
The processor goes on with an instruction that it has begun: it performs the access
or raises the fault again (weak fairness of `Perform \/ Fault`).

## Proofs

`ObjTableProofs`, for any threads, keys, slots and hash function:
- `TypeCorrect`, `FindComplete`, `LiveKeysStay`;
- `NoDuplicatesWhenGrowing`, `WritesLandWhenGrowing`, if nothing is deleted or
  renamed (`GrowOnly`). `table_duplicate` shows that the condition is needed.

`FindNeverMisses` is not inductive: `FindInv` adds that every slot in `held` is
still ahead of the scan. `LockInv` puts creators inside the lock. `GrowInv` adds
that the slots between a key's hash and its place are all in use, so that a free
slot ends the search rightly. It is the conjunction of `TableGrow` (the slots) and
`ThreadGrow(t)` (what one thread's probe has seen): a step that changes no id and
no key has only its own thread to answer for (`GrowFrame`), which leaves
`GrowClaim` and `GrowSetKey` as the real cases. In the longer modules a leaf that
Zenon proves at once names it, and one that takes SMT long names a limit
(`SMTT(30)`): tlapm's SMT translation slows down with every obligation it makes.

`BlockCacheProofs`, for any blocks, values and threads and any number of pages,
whether the counter wraps or not: `TypeCorrect`, `ReadsCurrent`, `PagesNeverShared`,
`UnmountSavesAll`. None is inductive. `CacheInv` says of each thread what it has
stored already (`ThreadOK`: between its two stores only one of `block_bitmap` and
`cache_bitmap` knows of the page) and that no two threads have an unmarked page in
common; of each block in use that its page knows it, or a thread is about to say so
(`BlockOK`); and where the last version is (`ContentOK`): in the page, which is
dirty then, or on disk with no dirty page left. Until the counter wraps, the
page of a block is above all that it left behind (`AgeOK`), which is why
`cache_sync`, going upwards, leaves the right one on disk. A step touches one
thread, its block and at most one page, which nobody else can reach (`Private`); so
`LocalInv` leaves to each action only its own thread, block and page. The
exceptions are `flush_cache`, which may write any block, but only one that stays
dirty in its page, and mount and unmount, when every thread is idle.

`SchedulerProofs`, for a table of any size: `TypeCorrect`, `OneActive`,
`ResumesExactly`, `StacksUnique`, `AlarmsAddUp`, `SleepsOnTime`, and
`ExitInTable` if only init clones (`InitClones`). `SchedInv` says that while a
user context has the CPU nobody sleeps, and while one sleeps the swapper has the
CPU; so a tick takes the CPU from the swapper only, whose registers are not
saved. This also means that gemOS never preempts: exactness is bought with the
starvation that `sched_starve` shows. `ActiveLowest` adds that the active context
has the least live pid, so the upward scan of `pick_next_context` meets all others.

`AbstractProofs`, for any segments and any frames: `SpaceCorrect`,
`FramesNeverShared`, `TLBNeverStale`, `NothingMappedBeyond`. Each needs the others:
a shrink keeps the TLB coherent because it drops the translations of exactly the
pages it frees, which are all that is mapped there because nothing is mapped
beyond `next_free`; a fault hands out a frame no page has because the unused ones
are exactly those.

The same module, for any keys and data: `CrashSafe`, and `CrashRestores`: a crash
brings back every object that was not removed since the last unmount, with the
contents it had then. `KVInv` adds that the objects and `origin` have the same
keys; then no step but an unmount or a crash adds an origin, a rename moves one,
and a write harms on disk only what has none left. The run `store` shows that
`ObjStore` implements this module.

`UserMemoryProofs`, for segments, tables, frames and a TLB of any size:
`MemoryImplementsSpace` (every step of system calls, faults and processor is a step
of `AddressSpace` or changes nothing of it), `MemoryFramesOwned`,
`MemoryTLBCoherent`, `MemoryNothingBeyond`, `MemoryPermissionsHeld`,
`MemoryTablesOwned`. `MemoryInv` has four parts: the memory (`MemOK`), what is mapped
is below `next_free` (`Bounded`), what is cached is in the tables with the write bit
of its segment (`Coherent`), and there is an access only if there is a process. All
the difficulty is in the memory. `MapOK` says that the tables in use are a tree: each
has a level, an entry of a table leads one level down, no two entries lead to the
same frame, and every frame that is not free is led to (`Tree`). A walk therefore
meets four different tables, two pages have different frames, and what `do_exit`
collects is all that is in use. It also says that a directory entry without the
write bit is on the way to the read-only segment (`RodataDir`). The segments
have different entries of the third-level table, so no other segment has such an
entry on its way; and that table hangs from an entry that loading the process made,
with the write bit, before any fault (`mem[pgd][0]` in `MemOK`). That is why
a fault in the read-only segment cannot take the write permission from
the others, although `assign_page_table_pages` gives its tables the permission of
the page that needs them first.

`PageTableProofs` follows the code. `Linked` is one call of `assign_page_table_page`,
`Grown` the three of `assign_page_table_pages`, `Placed` the call of
`assign_data_page`, `Maps` all four, each a predicate that says what
became of every entry and every frame, with the lemma that the code satisfies it.
`Adds` and `Trimmed` carry `MapOK` over a mapping and over `free_data_pages`.

`ContextProofs`, for any contexts, layouts and frames: `ContextsApart`, `CleanedUp`
(`CleanupExact`), `NothingStray` (`NoStrayEntries`), `SegmentRights`
(`PermissionsReflected`). None of the three properties is inductive: each speaks of
one context, and all contexts take frames from the same memory. `ContextInv` says
that no frame was given to two contexts or is free while one has it, and of each
context (`Built`, `BitsOK`) that its frames are the top table and those of its three
walks, that each table has a level, that its three pages are different frames, and
that an entry in use is on one of the walks or is the system's. A step for one
context then leaves the walks of the others as they were (`ContextKept`).
- `prepare_context_mm` is followed mapping by mapping. `Holding` is what is true
  between two of them, with the pages mapped so far; `MapExtends` (one `MapPage`
  adds one walk and nothing else) rests on `PageTableProofs`. A directory entry has
  the write bit of the page that was mapped when it was made (`Covered`); the stack
  comes first, so an entry without the bit was made for the code, and `Separated`
  says that data does not pass it. The code page is read-only through its last
  entry, which it shares with no one.
- `cleanup_context_mm` lists the top table, then what is new on each walk
  (`AddOnce`): a list without repetition (`Listed`) of at most 1 + 3 * 3 frames,
  which fits the 16 places. Tables of different levels are different and so are the
  three pages, hence each frame is given back once, and by `Built` all of them are.
- A table starts empty because `initialize_page` clears it, whatever the frame held
  before; that is all `NothingStray` needs beyond `MapExtends`.

The assumptions are `LayoutAssumption` (frames of the two regions are disjoint and
not 0, segments are not empty), `SpanAssumption` (a table has at least four entries
and a segment fits under one second-level table), `UserAssumption` (sizes of
`expand` and `shrink` stay below 2^20 pages), `ContextAssumption` (the three pages
of a layout are different, and none lies under the system's entry), and those named in `ObjTable`,
`BlockCache` and `Scheduler`; TLC evaluates each. That frames do not run out is a
guard of the model (`FramesLeft`), not an assumption of the proofs.

Only model-checked: everything about `ObjStore`, its refinement of `KVStore`
included, since a write and a deletion are folds over the blocks of the request, and
what a fold computes needs induction over the data; and all liveness, which is out
of the prover's reach.

## Not modelled

- Unaligned requests: `read_indirect_helper` reads the table as bytes and takes a
  byte for a block number, and data before the offset come from the wrong block.
- Requests that cross a table from its middle: `my_offset` counts whole tables, so
  the part of the buffer between is skipped. Writes come page by page unless FUSE
  is told otherwise; a long read could cross.
- Writes beyond the end of an object, which would leave entries of -1 before others.
- A crash inside `objstore_destroy`, between `cache_sync` and the super block:
  nothing in the repository says what should hold then.
- The composition of `ObjTable`, `BlockCache` and `ObjStore` into one model. Each
  takes from the others what it needs: no collisions, no concurrency, one value per
  block.
- `write` of assignment 2 checks the first and the last byte of the buffer, which
  covers it as long as it lies in two pages. `expand` and `shrink` with neither flag
  use a null segment. Sizes of 2^20 pages and more wrap in `size << 12`.
- Exhaustion of frames in gemOS: the callers do not look at what the allocator
  returns, and it has no source here.
- The string handling of keys (32 characters leave no terminating NUL).
- gem5, which is vendored and makes up nearly all lines of the repository; the
  course's example store, the test clients, the homework program, and the parts of
  gemOS that exist as object files only.
