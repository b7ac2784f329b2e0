------------------------------ MODULE ObjStore ------------------------------
(***************************************************************************)
(* The object store of assignment 4 from the FUSE requests down to the     *)
(* disk: objects with pointers to tables (indirect blocks), data blocks,   *)
(* the block bitmap, the write-back cache, and the super block that is     *)
(* written at unmount.  Requests come one at a time (BlockCache has the    *)
(* threads) and keys do not collide (ObjTable has the collisions), so that *)
(* an object is known by its key.                                          *)
(*                                                                         *)
(* A store m has the used blocks (block_bitmap is not 0), a page for each  *)
(* block in the cache (block_bitmap is above 1), the pages left behind by  *)
(* freed tables, and the disk.  The cache does not fill up.                *)
(***************************************************************************)
EXTENDS Integers, SequencesExt, FiniteSetsExt, Functions

CONSTANTS
    Keys,
    Blocks,         \* data block numbers
    POINTERS,       \* data_block_pointers of an object (4)
    ENTRIES,        \* entries of a table (1024)
    Bufs,           \* the data that clients write: sequences of blocks
    Zero,           \* a block of zeros, as in a fresh buffer
    NoKey

VARIABLES
    obj,            \* the objects: size in blocks, data_block_pointers
    used,
    page,
    left,
    disk,
    super,          \* the objects and the used blocks in the super block on disk
    store,          \* history: the contents that reads return
    saved,          \* history: those that they would return after a crash
    synced,         \* history: those at the last unmount
    origin          \* history: the key of each object then, or NoKey

vars == <<obj, used, page, left, disk, super, store, saved, synced, origin>>

MaxBlocks == POINTERS * ENTRIES
Blank == [i \in 0 .. ENTRIES - 1 |-> -1]
Device == [used |-> used, page |-> page, left |-> left, disk |-> disk]
Empty == [x \in {} |-> x]

Put(f, x, v) == [y \in DOMAIN f \cup {x} |-> IF y = x THEN v ELSE f[y]]

Apply(m) ==
    /\ used' = m.used
    /\ page' = m.page
    /\ left' = m.left
    /\ disk' = m.disk

\* An image of zeros has no object and no used block.
Init ==
    /\ obj = Empty
    /\ used = {}
    /\ page = Empty
    /\ left = Empty
    /\ disk = [b \in Blocks |-> Zero]
    /\ super = [obj |-> Empty, used |-> {}]
    /\ store = Empty
    /\ saved = Empty
    /\ synced = Empty
    /\ origin = Empty

(***************************************************************************)
(* The cache.                                                              *)
(***************************************************************************)
\* What read_cached, or else read_block, puts in the buffer.
Block(m, b) == IF b \in DOMAIN m.page THEN m.page[b].data ELSE m.disk[b]

\* read_cached of blocks bs, in any order.
read_cached(m, bs) ==
    [m EXCEPT !.page = [b \in DOMAIN @ \cup (bs \cap m.used) |->
        IF b \in DOMAIN @ THEN @[b] ELSE [data |-> m.disk[b], dirty |-> FALSE]]]

\* Mutant: the block goes to the disk at once.
write_through(m, b, data) ==
    [m EXCEPT !.page = Put(@, b, [data |-> data, dirty |-> FALSE]), !.disk[b] = data]

\* Mutant: the page is not marked.
write_clean(m, b, data) ==
    [m EXCEPT !.page = Put(@, b, [data |-> data, dirty |-> FALSE])]

\* write_cached, or else write_block.
write_cached(m, b, data) ==
    IF b \in m.used
    THEN [m EXCEPT !.page = Put(@, b, [data |-> data, dirty |-> TRUE])]
    ELSE [m EXCEPT !.disk[b] = data]

\* Pages go to the disk in the order in which they were taken, so that the page
\* of a block comes after one left behind.  Every block with a page is then used.
cache_sync(m) ==
    LET dirty(f, b) == b \in DOMAIN f /\ f[b].dirty
    IN  [used |-> m.used \cup DOMAIN m.page \cup DOMAIN m.left,
         page |-> Empty,
         left |-> Empty,
         disk |-> [b \in Blocks |-> IF dirty(m.page, b) THEN m.page[b].data
                                    ELSE IF dirty(m.left, b) THEN m.left[b].data
                                    ELSE m.disk[b]]]

(***************************************************************************)
(* Objects.                                                                *)
(***************************************************************************)
\* Mutant: the last block is not looked at.
get_new_but_last(m) ==
    LET free == Blocks \ (m.used \cup {Max(Blocks)})
    IN  IF free = {} THEN -1 ELSE Min(free)

\* -1 if there is none.
get_new_datablock(m) == IF m.used = Blocks THEN -1 ELSE Min(Blocks \ m.used)

reserve(m, b) == [m EXCEPT !.used = @ \cup ({b} \cap Blocks)]

create_object(k) ==
    /\ k \notin DOMAIN obj
    /\ obj' = Put(obj, k, [size |-> 0, ptrs |-> [i \in 0 .. POINTERS - 1 |-> -1]])
    /\ origin' = Put(origin, k, NoKey)
    /\ UNCHANGED <<used, page, left, disk, super, synced>>

\* The entries before the first -1.
Prefix(table) == {i \in DOMAIN table : \A h \in 0 .. i : table[h] # -1}
Entries(table) == {table[i] : i \in Prefix(table)}

\* The table is read from the disk, where it is as it was at the last unmount or
\* when it was new.  The pages of the data blocks are dropped; the table's own
\* page stays in cache_bitmap.
free_data_block(m, t) ==
    LET freed == Entries(m.disk[t])
        keep == t \notin DOMAIN m.page \/ (t \in DOMAIN m.left /\ ~m.page[t].dirty)
    IN  [m EXCEPT !.used = @ \ (freed \cup {t}),
                  !.page = Restrict(@, DOMAIN @ \ (freed \cup {t})),
                  !.left = IF keep THEN @ ELSE Put(@, t, m.page[t])]

destroy_object(k) ==
    /\ k \in DOMAIN obj
    /\ Apply(FoldLeft(free_data_block, Device, SetToSeq(Entries(obj[k].ptrs))))
    /\ obj' = Restrict(obj, DOMAIN obj \ {k})
    /\ origin' = Restrict(origin, DOMAIN origin \ {k})
    /\ UNCHANGED <<super, synced>>

\* Mutant: the old object stays.
rename_copies(k, l) ==
    /\ k \in DOMAIN obj
    /\ l \notin DOMAIN obj
    /\ obj' = Put(obj, l, obj[k])
    /\ origin' = Put(origin, l, origin[k])
    /\ UNCHANGED <<used, page, left, disk, super, synced>>

rename_object(k, l) ==
    /\ k \in DOMAIN obj
    /\ l \notin DOMAIN obj
    /\ obj' = Restrict(Put(obj, l, obj[k]), (DOMAIN obj \cup {l}) \ {k})
    /\ origin' = Restrict(Put(origin, l, origin[k]), (DOMAIN obj \cup {l}) \ {k})
    /\ UNCHANGED <<used, page, left, disk, super, synced>>

(***************************************************************************)
(* Reads and writes of whole blocks.                                       *)
(***************************************************************************)
\* Block pos of a request at block off is at Entry(off, pos) of the table of
\* Pointer(off, pos); the first table is used from the block offset on.
Pointer(off, pos) == (off \div ENTRIES) + (pos \div ENTRIES)
First(off, pos) == IF pos < ENTRIES THEN off % ENTRIES ELSE 0
Entry(off, pos) == First(off, pos) + (pos % ENTRIES)

\* The data block that read_indirect_block reads for it: the loop ends with the
\* table, or at an entry that is missing.
Found(m, o, off, pos) ==
    LET t == o.ptrs[Pointer(off, pos)]
        table == Block(m, t)
        i == Entry(off, pos)
    IN  IF t # -1 /\ i < ENTRIES /\ \A j \in First(off, pos) .. i : table[j] # -1
        THEN table[i]
        ELSE -1

\* Mutant: the block offset is not added.
read_from_start(m, o, off, n) ==
    [pos \in 1 .. n |-> LET b == Found(m, o, off - (off % ENTRIES), pos - 1)
                        IN  IF b = -1 THEN Zero ELSE Block(m, b)]

\* The n blocks that objstore_read returns.
ReadResult(m, o, off, n) ==
    [pos \in 1 .. n |-> LET b == Found(m, o, off, pos - 1)
                        IN  IF b = -1 THEN Zero ELSE Block(m, b)]

\* A read puts every block that it visits in the cache.
objstore_read(k, off, n) ==
    /\ k \in DOMAIN obj
    /\ off + n <= obj[k].size
    /\ LET tables == {obj[k].ptrs[Pointer(off, pos)] : pos \in 0 .. n - 1}
           data == {Found(Device, obj[k], off, pos) : pos \in 0 .. n - 1}
       IN  Apply(read_cached(Device, tables \cup data))
    /\ UNCHANGED <<obj, super, synced, origin>>

\* Mutant: the entries after the data stay.
KeepTail(table, last) == table

\* The entries after the data are dropped; their blocks stay used.
DropTail(table, last) == [i \in DOMAIN table |-> IF i > last THEN -1 ELSE table[i]]

initialize_block(m, b) == [m EXCEPT !.disk[b] = Blank]

\* The data from entry "first" of table t on, as far as the table goes.  Without
\* a free block the entry or the pointer is -1 and the data are lost.
write_indirect_block(m, t, first, data) ==
    LET block_num == IF t = -1 THEN get_new_datablock(m) ELSE t
        m1 == IF t = -1 THEN initialize_block(reserve(m, block_num), block_num) ELSE m
        m2 == read_cached(m1, {block_num})
        last == Min({first + Len(data), ENTRIES}) - 1
        put(acc, i) ==
            LET b == IF acc.table[i] = -1 THEN get_new_datablock(acc.m) ELSE acc.table[i]
            IN  IF b = -1 THEN acc
                ELSE [m |-> write_cached(reserve(acc.m, b), b, data[i - first + 1]),
                      table |-> [acc.table EXCEPT ![i] = b]]
        done == FoldLeft(put, [m |-> m2, table |-> Block(m2, block_num)],
                         [i \in 1 .. last - first + 1 |-> first + i - 1])
    IN  IF block_num = -1 THEN [m |-> m, ptr |-> -1]
        ELSE [m |-> write_cached(done.m, block_num, DropTail(done.table, last)),
              ptr |-> block_num]

\* The data are cut at the largest size and written table by table; the pointers
\* after them are dropped.
objstore_write(k, off, buf) ==
    LET data == SubSeq(buf, 1, Min({Len(buf), MaxBlocks - off}))
        dpi == off \div ENTRIES
        tables == (Len(data) + ENTRIES - 1) \div ENTRIES
        put(acc, i) ==
            LET w == write_indirect_block(acc.m, acc.ptrs[i],
                         IF i = dpi THEN off % ENTRIES ELSE 0,
                         SubSeq(data, (i - dpi) * ENTRIES + 1, Len(data)))
            IN  [m |-> w.m, ptrs |-> [acc.ptrs EXCEPT ![i] = w.ptr]]
        done == FoldLeft(put, [m |-> Device, ptrs |-> obj[k].ptrs],
                         [i \in 1 .. Min({tables, POINTERS - dpi}) |-> dpi + i - 1])
    IN  /\ k \in DOMAIN obj
        /\ UNCHANGED <<super, synced, origin>>
        /\ Apply(done.m)
        /\ obj' = [obj EXCEPT ![k] =
               [size |-> off + Len(data),
                ptrs |-> [i \in 0 .. POINTERS - 1 |->
                             IF i < dpi + tables THEN done.ptrs[i] ELSE -1]]]

cal_number_blocks(m, t) == Cardinality(Prefix(Block(m, t)))

\* st_blocks; the tables are put in the cache.
NumBlocks(m, o) ==
    LET count(i) == cal_number_blocks(m, o.ptrs[i])
    IN  MapThenSumSet(count, Prefix(o.ptrs))

fillup_size_details(k) ==
    /\ k \in DOMAIN obj
    /\ Apply(read_cached(Device, Entries(obj[k].ptrs)))
    /\ UNCHANGED <<obj, super, synced, origin>>

(***************************************************************************)
(* Unmount, mount and crash.                                               *)
(***************************************************************************)
Contents(m, objs) ==
    [k \in DOMAIN objs |->
        [i \in 1 .. objs[k].size |-> ReadResult(m, objs[k], i - 1, 1)[1]]]

\* What a mount finds: the super block, and nothing in the cache.
OnDisk == [used |-> super.used, page |-> Empty, left |-> Empty, disk |-> disk]

\* objstore_destroy, and objstore_init by the next process.
Remount ==
    /\ Apply(cache_sync(Device))
    /\ super' = [obj |-> obj, used |-> used']
    /\ synced' = store
    /\ origin' = [k \in DOMAIN obj |-> k]
    /\ UNCHANGED obj

\* The process ends without objstore_destroy; objstore_init by the next one.
Crash ==
    /\ Apply(OnDisk)
    /\ obj' = super.obj
    /\ synced' = saved
    /\ origin' = [k \in DOMAIN obj' |-> k]
    /\ UNCHANGED super

\* The requests that change something.  One of reading or writing is of at least
\* one block and inside the blocks of a table; a write leaves no gap.
InTable(off, n) == (off % ENTRIES) + n <= ENTRIES

objfs_operations ==
    \E k \in Keys :
        \/ create_object(k)
        \/ destroy_object(k)
        \/ \E l \in Keys : rename_object(k, l)
        \/ fillup_size_details(k)
        \/ /\ k \in DOMAIN obj
           /\ \E off \in 0 .. obj[k].size :
                 \/ \E n \in 1 .. ENTRIES : InTable(off, n) /\ objstore_read(k, off, n)
                 \/ \E buf \in Bufs : InTable(off, Len(buf)) /\ objstore_write(k, off, buf)

Next ==
    /\ objfs_operations \/ Remount \/ Crash
    /\ store' = Contents(Device, obj)'
    /\ saved' = Contents(OnDisk, super.obj)'

Spec == Init /\ [][Next]_vars

-----------------------------------------------------------------------------

KV == INSTANCE KVStore WITH room <- Cardinality(Blocks \ used)

\* Tables, pointers, bitmap, cache and super block together implement the map
\* from keys to contents, across requests, remounts and crashes.
ImplementsKV == KV!KVSpec

\* A write does what its own request says, and it falls short only on a full disk.
WriteExact ==
    [][\A k \in DOMAIN obj, buf \in Bufs : \A off \in 0 .. obj[k].size :
          InTable(off, Len(buf)) /\ objstore_write(k, off, buf)
            => KV!Write(k, off, buf) \/ KV!WriteShort(k, off, buf)]_vars

\* A crash loses no object that was saved and not removed since (see KVStore).
CrashKeeps == KV!CrashKeeps

Tables(o) == {o.ptrs[i] : i \in 0 .. POINTERS - 1} \ {-1}
Data(o) == UNION {Range(Block(Device, t)) : t \in Tables(o)} \ {-1}
Reached == UNION {Tables(obj[k]) \cup Data(obj[k]) : k \in DOMAIN obj}

\* A block that an object reaches is used, and is reached in one way only: as a
\* table or as data, by one entry of one object.
BlocksUnshared ==
    LET tables == {<<k, i>> \in (DOMAIN obj) \X (0 .. POINTERS - 1) : obj[k].ptrs[i] # -1}
        at(x) == obj[x[1]].ptrs[x[2]]
        entries == {<<x, j>> \in tables \X (0 .. ENTRIES - 1) : Block(Device, at(x))[j] # -1}
    IN  /\ Reached \subseteq used
        /\ Cardinality(Reached) = Cardinality(tables) + Cardinality(entries)

\* stat counts all blocks of an object, or some of them are lost.
StatAgrees ==
    \A k \in DOMAIN obj :
        NumBlocks(Device, obj[k]) = obj[k].size
            <=> Zero \notin Range(store[k])

\* A read inside a table returns the blocks that reads of one block return.
ReadsAgree ==
    \A k \in DOMAIN obj :
        \A off \in 0 .. obj[k].size, n \in 1 .. ENTRIES :
            LET blocks == SubSeq(store[k], off + 1, off + n)
            IN  InTable(off, n) /\ off + n <= obj[k].size /\ Zero \notin Range(blocks)
                    => ReadResult(Device, obj[k], off, n) = blocks

\* block_bitmap: "Store 0 for unused, otherwise used".  A block that no
\* object reaches is not marked used.
UnreachedUnused == \A b \in Blocks \ Reached : b \notin used

=============================================================================
