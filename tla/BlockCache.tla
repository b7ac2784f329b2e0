----------------------------- MODULE BlockCache -----------------------------
(***************************************************************************)
(* The write-back page cache between the object store and its disk:        *)
(* block_bitmap, cache_bitmap, dirty_flag and the cache pages, used by     *)
(* several FUSE worker threads, and written back at unmount.  One step is  *)
(* one store to shared memory, one disk access, or one critical section.   *)
(*                                                                         *)
(* A block holds one value.  Which block an object uses is not modelled:   *)
(* blocks are handed out as data blocks or as tables (indirect blocks),    *)
(* and given back, the way write_indirect_block and free_data_block do,    *)
(* but independently of each other.  That allows more than the store does: *)
(* there, a table is always read before its data, and freed with it.       *)
(***************************************************************************)
EXTENDS Integers, FiniteSets

CONSTANTS
    Blocks,         \* data block numbers, all positive
    CACHE_PAGES,    \* pages of the cache; pages 0 and 1 are never used
    Threads,
    Values,         \* contents of a block
    Blank,          \* contents of a fresh table: all entries -1
    Junk,           \* contents of a page nobody has filled
    NoThread,
    Ops,            \* which operations the clients call
    Preallocated,   \* blocks in use at the first mount
    Wrap            \* FALSE: bound, the page counter stops before it wraps

ASSUME CacheAssumption ==
    /\ Blocks \subseteq Nat \ {0}
    /\ CACHE_PAGES \in Nat
    /\ CACHE_PAGES > 2
    /\ Preallocated \subseteq Blocks
    /\ NoThread \notin Threads
    /\ Blank \in Values
    /\ Junk \notin Values
    /\ Wrap \in BOOLEAN

Pages == 2 .. CACHE_PAGES - 1

VARIABLES
    block_bitmap,       \* 0 unused, 1 used, otherwise the page of the block
    cache_bitmap,       \* the block each page holds, 0 for none
    dirty_flag,
    cache,              \* contents of the pages
    disk,               \* contents of the blocks on disk
    last_cache_index,
    wrapped,            \* history: the page counter has wrapped since the mount
    mutex,              \* owner of cache_bitmap_mutex
    mounted,
    pc,
    op,                 \* what each thread does: "read", "write", "table"
    block,              \* the block it does it to
    page,               \* its cache_index
    buf,                \* its user_buf
    kind,               \* history: what each block is used for
    latest              \* history: the last value written to each block

counter == <<last_cache_index, wrapped>>
store == <<block_bitmap, cache_bitmap, dirty_flag, cache, disk>>
locals == <<op, block, page, buf>>
vars == <<store, counter, mutex, mounted, pc, locals, kind, latest>>

Init ==
    /\ block_bitmap = [b \in Blocks |-> IF b \in Preallocated THEN 1 ELSE 0]
    /\ cache_bitmap = [i \in Pages |-> 0]
    /\ dirty_flag = [i \in Pages |-> 0]
    /\ cache = [i \in Pages |-> Junk]
    /\ disk = [b \in Blocks |-> Blank]
    /\ last_cache_index = 1
    /\ wrapped = FALSE
    /\ mutex = NoThread
    /\ mounted = TRUE
    /\ pc = [t \in Threads |-> "idle"]
    /\ op = [t \in Threads |-> "none"]
    /\ block = [t \in Threads |-> 0]
    /\ page = [t \in Threads |-> 0]
    /\ buf = [t \in Threads |-> Junk]
    /\ kind = [b \in Blocks |-> IF b \in Preallocated THEN "data" ELSE "free"]
    /\ latest = [b \in Blocks |-> Blank]

Move(t, to) == pc' = [pc EXCEPT ![t] = to]

\* The call is over; its locals are gone.
Return(t) ==
    /\ Move(t, "idle")
    /\ op' = [op EXCEPT ![t] = "none"]
    /\ block' = [block EXCEPT ![t] = 0]
    /\ page' = [page EXCEPT ![t] = 0]
    /\ buf' = [buf EXCEPT ![t] = Junk]

Unshared(b) == \A t \in Threads : block[t] # b

Enter(t, o, b, v) ==
    /\ op' = [op EXCEPT ![t] = o]
    /\ block' = [block EXCEPT ![t] = b]
    /\ buf' = [buf EXCEPT ![t] = v]
    /\ Move(t, "look")
    /\ UNCHANGED page

\* The store reads or overwrites a block of an object.  The assignment assures
\* that no two threads use the same object at once.
Access(t, o, b, v) ==
    /\ mounted
    /\ pc[t] = "idle"
    /\ kind[b] # "free"
    /\ Unshared(b)
    /\ Enter(t, o, b, IF o = "read" THEN Junk ELSE v)
    /\ UNCHANGED <<store, counter, mutex, mounted, kind, latest>>

\* get_new_datablock takes the first unused block.  write_indirect_block
\* overwrites a new data block at once; it initialises a new table on disk,
\* reads it and overwrites it.
get_new_datablock(t, k, v) ==
    /\ mounted
    /\ pc[t] = "idle"
    /\ \E b \in Blocks :
          /\ block_bitmap[b] = 0
          /\ \A c \in Blocks : c < b => block_bitmap[c] # 0
          /\ block_bitmap' = [block_bitmap EXCEPT ![b] = 1]
          /\ disk' = IF k = "table" THEN [disk EXCEPT ![b] = Blank] ELSE disk
          /\ kind' = [kind EXCEPT ![b] = k]
          /\ Enter(t, IF k = "table" THEN "table" ELSE "write", b, v)
    /\ UNCHANGED <<cache_bitmap, dirty_flag, cache, counter, mutex,
                   mounted, latest>>

\* free_data_block drops the page of a data block with the block.  The page
\* of the table itself stays behind in cache_bitmap.
free_data_block(t, b) ==
    /\ mounted
    /\ pc[t] = "idle"
    /\ kind[b] # "free"
    /\ Unshared(b)
    /\ IF kind[b] = "data" /\ block_bitmap[b] > 1
       THEN /\ mutex = NoThread
            /\ cache_bitmap' = [cache_bitmap EXCEPT ![block_bitmap[b]] = 0]
            /\ dirty_flag' = [dirty_flag EXCEPT ![block_bitmap[b]] = 0]
       ELSE UNCHANGED <<cache_bitmap, dirty_flag>>
    /\ block_bitmap' = [block_bitmap EXCEPT ![b] = 0]
    /\ kind' = [kind EXCEPT ![b] = "free"]
    /\ UNCHANGED <<cache, disk, counter, mutex, mounted, pc, locals, latest>>

(***************************************************************************)
(* read_cached and write_cached.                                           *)
(***************************************************************************)
\* Mutant: a read ignores the page that the block already has.
LookNoHit(t) ==
    /\ pc[t] = "look"
    /\ IF block_bitmap[block[t]] = 1 \/ op[t] # "write"
       THEN Move(t, "getpage") /\ UNCHANGED page
       ELSE /\ page' = [page EXCEPT ![t] = block_bitmap[block[t]]]
            /\ Move(t, "fill")
    /\ UNCHANGED <<store, counter, mutex, mounted, op, block, buf, kind, latest>>

Look(t) ==
    /\ pc[t] = "look"
    /\ IF block_bitmap[block[t]] = 1
       THEN Move(t, "getpage") /\ UNCHANGED page
       ELSE /\ page' = [page EXCEPT ![t] = block_bitmap[block[t]]]
            /\ Move(t, IF op[t] = "write" THEN "fill" ELSE "hit")
    /\ UNCHANGED <<store, counter, mutex, mounted, op, block, buf, kind, latest>>

NextPage ==
    LET i == (last_cache_index + 1) % CACHE_PAGES
    IN  IF i < 2 THEN 2 ELSE i

\* The counter wraps with Wrap only, and only while no other thread is inside a
\* call: none that has taken a page and not marked it is lapped.
Turn(t) ==
    \/ last_cache_index < CACHE_PAGES - 1
    \/ Wrap /\ \A u \in Threads \ {t} : pc[u] = "idle"

Advance ==
    /\ last_cache_index' = NextPage
    /\ wrapped' = (wrapped \/ last_cache_index = CACHE_PAGES - 1)

\* Mutant: a page in use is taken without being flushed.
get_page_unflushed(t) ==
    /\ pc[t] = "getpage"
    /\ mutex = NoThread
    /\ Turn(t)
    /\ Advance
    /\ page' = [page EXCEPT ![t] = NextPage]
    /\ Move(t, IF op[t] = "write" THEN "map" ELSE "name")
    /\ UNCHANGED <<store, mutex, mounted, op, block, buf, kind, latest>>

\* get_free_cache_page, when the next page in turn is unused.
get_free_cache_page(t) ==
    /\ pc[t] = "getpage"
    /\ mutex = NoThread
    /\ Turn(t)
    /\ cache_bitmap[NextPage] = 0
    /\ Advance
    /\ page' = [page EXCEPT ![t] = NextPage]
    /\ Move(t, IF op[t] = "write" THEN "map" ELSE "name")
    /\ UNCHANGED <<store, mutex, mounted, op, block, buf, kind, latest>>

\* When it is used, flush_cache writes it back and then takes the mutex that
\* this very thread holds: a default mutex, so the thread waits for itself.
flush_cache(t) ==
    /\ pc[t] = "getpage"
    /\ mutex = NoThread
    /\ Turn(t)
    /\ cache_bitmap[NextPage] # 0
    /\ Advance
    /\ mutex' = t
    /\ disk' = IF dirty_flag[NextPage] = 0 THEN disk
               ELSE [disk EXCEPT ![cache_bitmap[NextPage]] = cache[NextPage]]
    /\ Move(t, "relock")
    /\ UNCHANGED <<block_bitmap, cache_bitmap, dirty_flag, cache, mounted, locals,
                   kind, latest>>

\* cache_bitmap[cache_index] = block_num: first in a read, second in a write.
SetCacheBitmap(t) ==
    /\ pc[t] = "name"
    /\ cache_bitmap' = [cache_bitmap EXCEPT ![page[t]] = block[t]]
    /\ Move(t, IF op[t] = "write" THEN "fill" ELSE "map")
    /\ UNCHANGED <<block_bitmap, dirty_flag, cache, disk, counter, mutex,
                   mounted, locals, kind, latest>>

\* block_bitmap[block_num] = cache_index.
SetBlockBitmap(t) ==
    /\ pc[t] = "map"
    /\ block_bitmap' = [block_bitmap EXCEPT ![block[t]] = page[t]]
    /\ Move(t, IF op[t] = "write" THEN "name" ELSE "load")
    /\ UNCHANGED <<cache_bitmap, dirty_flag, cache, disk, counter, mutex,
                   mounted, locals, kind, latest>>

\* The block is read from disk into the caller's buffer (for a new table, a
\* buffer that its new contents replace) and copied to the page.
LoadBlock(t) ==
    /\ pc[t] = "load"
    /\ dirty_flag' = [dirty_flag EXCEPT ![page[t]] = 0]
    /\ buf' = IF op[t] = "read" THEN [buf EXCEPT ![t] = disk[block[t]]] ELSE buf
    /\ Move(t, "copy")
    /\ UNCHANGED <<block_bitmap, cache_bitmap, cache, disk, counter, mutex,
                   mounted, op, block, page, kind, latest>>

CopyToPage(t) ==
    /\ pc[t] = "copy"
    /\ cache' = [cache EXCEPT ![page[t]] = IF op[t] = "read" THEN buf[t] ELSE Blank]
    /\ Move(t, IF op[t] = "read" THEN "done" ELSE "fill")
    /\ UNCHANGED <<block_bitmap, cache_bitmap, dirty_flag, disk, counter,
                   mutex, mounted, locals, kind, latest>>

\* A hit: only reads get here, a table is read when it is new.
ReadHit(t) ==
    /\ pc[t] = "hit"
    /\ buf' = [buf EXCEPT ![t] = cache[page[t]]]
    /\ Move(t, "done")
    /\ UNCHANGED <<store, counter, mutex, mounted, op, block, page, kind, latest>>

ReadReturn(t) ==
    /\ pc[t] = "done"
    /\ Return(t)
    /\ UNCHANGED <<store, counter, mutex, mounted, kind, latest>>

WriteFill(t) ==
    /\ pc[t] = "fill"
    /\ cache' = [cache EXCEPT ![page[t]] = buf[t]]
    /\ Move(t, "dirty")
    /\ UNCHANGED <<block_bitmap, cache_bitmap, dirty_flag, disk, counter,
                   mutex, mounted, locals, kind, latest>>

\* Mutant: a written page is not marked dirty.
WriteClean(t) ==
    /\ pc[t] = "dirty"
    /\ latest' = [latest EXCEPT ![block[t]] = buf[t]]
    /\ Return(t)
    /\ UNCHANGED <<store, counter, mutex, mounted, kind>>

WriteDirty(t) ==
    /\ pc[t] = "dirty"
    /\ dirty_flag' = [dirty_flag EXCEPT ![page[t]] = 1]
    /\ latest' = [latest EXCEPT ![block[t]] = buf[t]]
    /\ Return(t)
    /\ UNCHANGED <<block_bitmap, cache_bitmap, cache, disk, counter, mutex,
                   mounted, kind>>

(***************************************************************************)
(* Unmount and mount.                                                      *)
(***************************************************************************)
Caching(b) == {i \in Pages : cache_bitmap[i] = b}
DirtyPages(b) == {i \in Caching(b) : dirty_flag[i] # 0}

\* cache_sync goes through the pages upwards: of two dirty pages of a block
\* the higher one stays on disk.
cache_sync ==
    /\ disk' = [b \in Blocks |->
          IF DirtyPages(b) = {} THEN disk[b]
          ELSE cache[CHOOSE i \in DirtyPages(b) : \A j \in DirtyPages(b) : j <= i]]
    /\ block_bitmap' = [b \in Blocks |->
          IF Caching(b) = {} THEN block_bitmap[b] ELSE 1]

\* FUSE calls destroy when no request is in progress.  The super block,
\* block_bitmap in it, goes to disk.  Bound: not after the counter has wrapped;
\* a page left behind could then be above the one that replaced it.
objstore_destroy ==
    /\ mounted
    /\ ~wrapped
    /\ \A t \in Threads : pc[t] = "idle"
    /\ cache_sync
    /\ mounted' = FALSE
    /\ UNCHANGED <<cache_bitmap, dirty_flag, cache, counter, mutex, pc,
                   locals, kind, latest>>

\* Mutant: the page counter restarts at 0.
objstore_init_zero ==
    /\ ~mounted
    /\ mounted' = TRUE
    /\ cache_bitmap' = [i \in Pages |-> 0]
    /\ dirty_flag' = [i \in Pages |-> 0]
    /\ cache' = [i \in Pages |-> Junk]
    /\ last_cache_index' = 0
    /\ wrapped' = FALSE
    /\ UNCHANGED <<block_bitmap, disk, mutex, pc, locals, kind, latest>>

objstore_init ==
    /\ ~mounted
    /\ mounted' = TRUE
    /\ cache_bitmap' = [i \in Pages |-> 0]
    /\ dirty_flag' = [i \in Pages |-> 0]
    /\ cache' = [i \in Pages |-> Junk]
    /\ last_cache_index' = 1
    /\ wrapped' = FALSE
    /\ UNCHANGED <<block_bitmap, disk, mutex, pc, locals, kind, latest>>

Step(t) ==
    \/ Look(t) \/ get_free_cache_page(t) \/ flush_cache(t)
    \/ SetCacheBitmap(t) \/ SetBlockBitmap(t) \/ LoadBlock(t) \/ CopyToPage(t)
    \/ ReadHit(t) \/ ReadReturn(t) \/ WriteFill(t) \/ WriteDirty(t)

Client(t) ==
    \/ \E o \in Ops \cap {"read", "write"}, b \in Blocks, v \in Values : Access(t, o, b, v)
    \/ "new" \in Ops /\ \E k \in {"data", "table"}, v \in Values : get_new_datablock(t, k, v)
    \/ "free" \in Ops /\ \E b \in Blocks : free_data_block(t, b)

Next ==
    \/ \E t \in Threads : Client(t) \/ Step(t)
    \/ "mount" \in Ops /\ (objstore_destroy \/ objstore_init)

Spec == Init /\ [][Next]_vars

\* A thread inside a call keeps running.
FairSpec == Spec /\ \A t \in Threads : WF_vars(Step(t))

-----------------------------------------------------------------------------

\* Every variable has its type; get_free_cache_page: "Ensure returned index > 1".
TypeOK ==
    /\ block_bitmap \in [Blocks -> {0, 1} \cup Pages]
    /\ cache_bitmap \in [Pages -> Blocks \cup {0}]
    /\ dirty_flag \in [Pages -> {0, 1}]
    /\ cache \in [Pages -> Values \cup {Junk}]
    /\ disk \in [Blocks -> Values]
    /\ last_cache_index \in 1 .. CACHE_PAGES - 1
    /\ wrapped \in BOOLEAN
    /\ mutex \in Threads \cup {NoThread}
    /\ mounted \in BOOLEAN
    /\ page \in [Threads -> {0} \cup Pages]
    /\ block \in [Threads -> {0} \cup Blocks]
    /\ buf \in [Threads -> Values \cup {Junk}]
    /\ latest \in [Blocks -> Values]

\* read_cached returns what was last written to the block, from the page or
\* from the disk, across frees, reuse, remounts and a page counter that wraps.
ReadsLatest ==
    \A t \in Threads : pc[t] = "done" => buf[t] = latest[block[t]]

\* Two blocks in use never have the same page, although the page taken is not
\* marked before the mutex is released.
PagesUnshared ==
    \A b, c \in Blocks :
        kind[b] # "free" /\ kind[c] # "free" /\ block_bitmap[b] > 1
            /\ block_bitmap[b] = block_bitmap[c] => b = c

\* After unmount every block in use is on disk in its last version and no
\* block refers to a page, even where a freed table left its page behind.
UnmountSaves ==
    ~mounted => \A b \in Blocks : kind[b] # "free" =>
                    disk[b] = latest[b] /\ block_bitmap[b] = 1

\* read_cached and write_cached return.
CallReturns == \A t \in Threads : pc[t] = "look" ~> pc[t] = "idle"

=============================================================================
