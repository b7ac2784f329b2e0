--------------------------- MODULE BlockCacheInv ----------------------------
(***************************************************************************)
(* The inductive invariant of BlockCache, what a step that only concerns   *)
(* one thread, its block and its page leaves alone, and the steps of       *)
(* read_cached and write_cached after the page is taken.                   *)
(***************************************************************************)
EXTENDS BlockCache, TLAPS

Used(b) == kind[b] # "free"

\* Types of the variables that TypeOK leaves out.
Labels == {"idle", "look", "getpage", "relock", "name", "map", "load", "copy",
           "hit", "done", "fill", "dirty"}

ControlOK ==
    /\ pc \in [Threads -> Labels]
    /\ op \in [Threads -> {"none", "read", "write", "table"}]
    /\ kind \in [Blocks -> {"free", "data", "table"}]

\* Thread t has a page; it has not stored cache_bitmap, or block_bitmap, yet.
Holds(t) == pc[t] \in {"name", "map", "load", "copy", "hit", "done", "fill", "dirty"}
Unmarked(t) == pc[t] = "name" \/ (pc[t] = "map" /\ op[t] = "write")
Unmapped(t) == pc[t] = "map" \/ (pc[t] = "name" /\ op[t] # "write")

\* Where thread t is, what it does, and what it has stored.
ThreadOK(t) ==
    /\ pc[t] = "idle" <=> block[t] = 0
    /\ pc[t] # "idle" => mounted /\ op[t] # "none" /\ Used(block[t])
    /\ pc[t] \in {"getpage", "relock"} => block_bitmap[block[t]] = 1
    /\ pc[t] = "look" /\ op[t] = "table" => block_bitmap[block[t]] = 1
    /\ pc[t] \in {"hit", "done"} => op[t] = "read"
    /\ pc[t] \in {"load", "copy"} => op[t] # "write"
    /\ pc[t] \in {"fill", "dirty"} => op[t] # "read"
    /\ Holds(t) => page[t] \in Pages
    /\ Unmapped(t) => block_bitmap[block[t]] = 1
    /\ Holds(t) /\ ~Unmapped(t) => block_bitmap[block[t]] = page[t]
    /\ Unmarked(t) => cache_bitmap[page[t]] = 0 /\ page[t] <= last_cache_index
    /\ Holds(t) /\ ~Unmarked(t) => cache_bitmap[page[t]] = block[t]

\* No two threads use the same block, nor the same page before it is marked.
PairsOK ==
    \A t, u \in Threads : t # u =>
        /\ block[t] = block[u] => block[t] = 0
        /\ Unmarked(t) /\ Unmarked(u) => page[t] # page[u]

\* A block in use has a mark, and its page knows it, or soon will.
BlockOK(b) ==
    Used(b) =>
        /\ block_bitmap[b] # 0
        /\ mounted /\ block_bitmap[b] > 1 /\ cache_bitmap[block_bitmap[b]] # b
             => \E t \in Threads : block[t] = b /\ Unmarked(t) /\ page[t] = block_bitmap[b]

\* An unused page is clean, and a dirty one filled; before the counter wraps the
\* used ones are behind it.
PageOK(i) ==
    /\ dirty_flag[i] = 1 => cache[i] \in Values
    /\ mounted /\ cache_bitmap[i] = 0 => dirty_flag[i] = 0
    /\ mounted /\ ~wrapped /\ cache_bitmap[i] # 0 => i <= last_cache_index

\* Before the counter wraps the page of a block is above those it left behind.
AgeOK ==
    mounted /\ ~wrapped =>
        \A i \in Pages :
            /\ \A b \in Blocks : Used(b) /\ block_bitmap[b] > 1 /\ cache_bitmap[i] = b
                  => i <= block_bitmap[b]
            /\ \A t \in Threads : Holds(t) /\ cache_bitmap[i] = block[t] => i <= page[t]

\* No page of the block is dirty and the disk is current.
Clean(b) ==
    /\ disk[b] = latest[b]
    /\ \A i \in Pages : cache_bitmap[i] = b => dirty_flag[i] = 0

Unwritten(b) == \A t \in Threads : block[t] = b => op[t] = "read"
Loaded(b) == \A t \in Threads : block[t] = b => pc[t] \notin {"name", "map", "load", "copy"}

\* The last version of a block that no thread writes is in its page and the page
\* is dirty, or it is on disk.
ContentOK(b) ==
    mounted /\ Used(b) /\ Unwritten(b) =>
        /\ Clean(b) \/ (block_bitmap[b] > 1 /\ dirty_flag[block_bitmap[b]] = 1 /\ Loaded(b))
        /\ block_bitmap[b] > 1 /\ Loaded(b) => cache[block_bitmap[b]] = latest[b]

\* What a reader has read, and what a writer writes and has put in its page.
BufferOK(t) ==
    /\ op[t] \in {"write", "table"} => buf[t] \in Values
    /\ pc[t] \in {"copy", "done"} /\ op[t] = "read" => buf[t] = latest[block[t]]
    /\ pc[t] = "dirty" => cache[page[t]] = buf[t]

Unmounted ==
    ~mounted => \A b \in Blocks : Used(b) => block_bitmap[b] = 1 /\ disk[b] = latest[b]

CacheInv ==
    /\ TypeOK
    /\ ControlOK
    /\ \A t \in Threads : ThreadOK(t)
    /\ PairsOK
    /\ \A b \in Blocks : BlockOK(b)
    /\ \A i \in Pages : PageOK(i)
    /\ AgeOK
    /\ \A b \in Blocks : ContentOK(b)
    /\ \A t \in Threads : BufferOK(t)
    /\ Unmounted

-----------------------------------------------------------------------------

\* The next page in turn is the one after the last, or page 2.
LEMMA NextPageIs ==
    ASSUME TypeOK
    PROVE  /\ NextPage \in Pages
           /\ last_cache_index < CACHE_PAGES - 1 => NextPage = last_cache_index + 1
  <1>1. last_cache_index \in 1 .. CACHE_PAGES - 1 /\ CACHE_PAGES \in Nat /\ CACHE_PAGES > 2
    BY CacheAssumption, Zenon DEF TypeOK
  <1>2. CASE last_cache_index < CACHE_PAGES - 1
    <2>1. (last_cache_index + 1) % CACHE_PAGES = last_cache_index + 1
      BY <1>1, <1>2
    <2> QED BY <1>1, <1>2, <2>1 DEF NextPage, Pages
  <1>3. CASE last_cache_index = CACHE_PAGES - 1
    <2>1. (last_cache_index + 1) % CACHE_PAGES = 0
      BY <1>1, <1>3
    <2> QED BY <1>1, <1>3, <2>1 DEF NextPage, Pages
  <1> QED BY <1>1, <1>2, <1>3

\* The cache starts empty.
LEMMA CacheInit == Init => CacheInv
  <1> SUFFICES ASSUME Init PROVE CacheInv
    BY Zenon
  <1> USE CacheAssumption DEF Init
  <1>0. wrapped \in BOOLEAN /\ mounted \in BOOLEAN
    BY Zenon
  <1>1. TypeOK /\ ControlOK
    BY <1>0 DEF TypeOK, ControlOK, Pages, Labels
  <1>2. \A t \in Threads : ThreadOK(t)
    BY Zenon DEF ThreadOK, Holds, Unmapped, Unmarked
  <1>3. PairsOK
    BY Zenon DEF PairsOK, Unmarked
  <1>4. \A b \in Blocks : BlockOK(b)
    BY DEF BlockOK, Used
  <1>5. \A i \in Pages : PageOK(i)
    BY DEF PageOK
  <1>6. AgeOK
    BY Zenon DEF AgeOK, Holds
  <1>7. \A b \in Blocks : ContentOK(b)
    BY DEF ContentOK, Clean, Used
  <1>8. (\A t \in Threads : BufferOK(t)) /\ Unmounted
    BY Zenon DEF BufferOK, Unmounted
  <1> QED BY <1>1, <1>2, <1>3, <1>4, <1>5, <1>6, <1>7, <1>8, Zenon DEF CacheInv

\* Two threads that hold pages hold different ones.
LEMMA HeldApart ==
    ASSUME CacheInv, NEW t \in Threads, NEW u \in Threads, t # u, Holds(t), Holds(u)
    PROVE  page[t] # page[u]
  <1>1. block[t] # block[u] /\ block[t] # 0 /\ block[u] # 0
    BY Zenon DEF CacheInv, ThreadOK, PairsOK, Holds
  <1>2. Unmarked(t) /\ Unmarked(u) => page[t] # page[u]
    BY Zenon DEF CacheInv, PairsOK
  <1> QED BY <1>1, <1>2 DEF CacheInv, ThreadOK

\* No block that is in use has the page that a thread holds for another.
LEMMA PageApart ==
    ASSUME CacheInv, mounted, NEW t \in Threads, Holds(t),
           NEW b \in Blocks, Used(b), block_bitmap[b] > 1, block[t] # b
    PROVE  block_bitmap[b] # page[t]
  <1>1. CASE cache_bitmap[block_bitmap[b]] = b
    <2>1. b # 0
      BY CacheAssumption, Zenon
    <2> QED BY <1>1, <2>1, ZenonT(30) DEF CacheInv, ThreadOK
  <1>2. CASE cache_bitmap[block_bitmap[b]] # b
    <2>1. PICK u \in Threads : block[u] = b /\ Unmarked(u) /\ page[u] = block_bitmap[b]
      BY <1>2, Zenon DEF CacheInv, BlockOK
    <2> QED BY <2>1, HeldApart, Zenon DEF Unmarked, Holds
  <1> QED BY <1>1, <1>2, Zenon

\* Two blocks in use have different pages.
LEMMA BlocksApart ==
    ASSUME CacheInv, mounted, NEW b \in Blocks, NEW c \in Blocks, b # c, Used(b), Used(c),
           block_bitmap[b] > 1, block_bitmap[c] > 1
    PROVE  block_bitmap[b] # block_bitmap[c]
  <1>1. CASE cache_bitmap[block_bitmap[b]] = b /\ cache_bitmap[block_bitmap[c]] = c
    BY <1>1, Zenon
  <1>2. ASSUME NEW x \in Blocks, NEW y \in Blocks, x # y, Used(x), Used(y),
               block_bitmap[x] > 1, block_bitmap[y] > 1, cache_bitmap[block_bitmap[x]] # x
        PROVE  block_bitmap[x] # block_bitmap[y]
    <2>1. PICK u \in Threads : block[u] = x /\ Unmarked(u) /\ page[u] = block_bitmap[x]
      BY <1>2, Zenon DEF CacheInv, BlockOK
    <2> QED BY <1>2, <2>1, PageApart, Zenon DEF Unmarked, Holds
  <1> QED BY <1>1, <1>2, Zenon

\* Thread u is where it was.
SameThread(u) ==
    /\ pc'[u] = pc[u]
    /\ op'[u] = op[u]
    /\ block'[u] = block[u]
    /\ page'[u] = page[u]
    /\ buf'[u] = buf[u]

Others(t) == \A u \in Threads \ {t} : SameThread(u)

\* All that is stored about block c is as it was.
SameBlock(c) ==
    /\ kind'[c] = kind[c]
    /\ block_bitmap'[c] = block_bitmap[c]
    /\ disk'[c] = disk[c]
    /\ latest'[c] = latest[c]

SamePage(i) ==
    /\ cache_bitmap'[i] = cache_bitmap[i]
    /\ dirty_flag'[i] = dirty_flag[i]
    /\ cache'[i] = cache[i]

\* Page p is only block b's business, and only thread t may hold it.
Private(t, b, p) ==
    /\ p \in Pages
    /\ cache_bitmap[p] \in {0, b}
    /\ cache_bitmap'[p] \in {0, b}
    /\ \A u \in Threads \ {t} : Holds(u) => page[u] # p
    /\ \A c \in Blocks \ {b} : Used(c) /\ block_bitmap[c] > 1 => block_bitmap[c] # p

\* What a step of thread t on block b leaves alone.
Local(t, b) ==
    /\ mounted
    /\ mounted'
    /\ Others(t)
    /\ \A u \in Threads \ {t} : block[u] # b
    /\ block'[t] \in {0, b}
    /\ block[t] \in {0, b}
    /\ \A c \in Blocks \ {b} : SameBlock(c)
    /\ \A u \in Threads \ {t} : Unmarked(u) => page[u] <= last_cache_index'
    /\ \/ \A i \in Pages : SamePage(i)
       \/ \E p \in Pages : Private(t, b, p) /\ \A i \in Pages \ {p} : SamePage(i)

\* A step on a block leaves the other threads right,
LEMMA LocalThreads ==
    ASSUME CacheInv, NEW t \in Threads, NEW b \in Blocks, Local(t, b),
           NEW u \in Threads, u # t
    PROVE  ThreadOK(u)' /\ BufferOK(u)'
  <1>1. ThreadOK(u) /\ BufferOK(u) /\ SameThread(u) /\ block[u] # b
    BY Zenon DEF CacheInv, Local, Others
  <1>2. Holds(u) => SamePage(page[u])
    BY <1>1, Zenon DEF Local, Private, ThreadOK
  <1>3. pc[u] # "idle" => SameBlock(block[u])
    BY <1>1, Zenon DEF Local, ThreadOK, CacheInv, TypeOK
  <1>4. /\ Unmarked(u) => page[u] <= last_cache_index'
        /\ mounted'
    BY Zenon DEF Local
  <1>5. ThreadOK(u)'
    BY <1>1, <1>2, <1>3, <1>4 DEF ThreadOK, SameThread, SamePage, SameBlock, Holds,
       Unmarked, Unmapped, Used
  <1>6. BufferOK(u)'
    BY <1>1, <1>2, <1>3, Zenon DEF BufferOK, ThreadOK, SameThread, SamePage, SameBlock,
       Holds
  <1> QED BY <1>5, <1>6, Zenon

\* and the other blocks.
LEMMA LocalBlocks ==
    ASSUME CacheInv, NEW t \in Threads, NEW b \in Blocks, Local(t, b),
           NEW c \in Blocks, c # b
    PROVE  BlockOK(c)' /\ ContentOK(c)'
  <1>1. BlockOK(c) /\ ContentOK(c) /\ SameBlock(c) /\ mounted /\ mounted' /\ c # 0
    BY CacheAssumption, Zenon DEF CacheInv, Local
  <1>2. \A u \in Threads : block[u] = c => SameThread(u)
    BY <1>1, Zenon DEF Local, Others
  <1>3. \A u \in Threads : block'[u] = c => block[u] = c
    BY <1>1, Zenon DEF Local, Others, SameThread
  <1>4. Used(c) /\ block_bitmap[c] > 1 => SamePage(block_bitmap[c])
    <2>1. block_bitmap[c] > 1 => block_bitmap[c] \in Pages
      BY DEF CacheInv, TypeOK
    <2> QED BY <2>1, Zenon DEF Local, Private
  <1>5. \A i \in Pages : cache_bitmap'[i] = c => SamePage(i)
    BY <1>1, Zenon DEF Local, Private
  <1>6. BlockOK(c)'
    BY <1>1, <1>2, <1>4 DEF BlockOK, SameBlock, SamePage, SameThread, Used, Unmarked
  <1>7. (Unwritten(c)' => Unwritten(c)) /\ (Loaded(c)' <=> Loaded(c))
    BY <1>2, <1>3, Zenon DEF Unwritten, Loaded, SameThread
  <1>8. Clean(c) => Clean(c)'
    BY <1>1, <1>5, Zenon DEF Clean, SameBlock, SamePage
  <1>9. ContentOK(c)'
    BY <1>1, <1>4, <1>7, <1>8, Zenon DEF ContentOK, SameBlock, SamePage, Used
  <1> QED BY <1>6, <1>9, Zenon

\* A thread inside a call is the only one that uses its block.
LEMMA Sole ==
    ASSUME CacheInv, NEW t \in Threads, pc[t] # "idle"
    PROVE  /\ block[t] \in Blocks
           /\ mounted
           /\ \A u \in Threads \ {t} : block[u] # block[t]
           /\ Unwritten(block[t]) <=> op[t] = "read"
           /\ Loaded(block[t]) <=> pc[t] \notin {"name", "map", "load", "copy"}
  <1>1. ThreadOK(t) /\ block[t] \in Blocks
    BY Zenon DEF CacheInv, ThreadOK, TypeOK
  <1>2. \A u \in Threads \ {t} : block[u] # block[t]
    BY <1>1, CacheAssumption, Zenon DEF CacheInv, PairsOK
  <1> QED BY <1>1, <1>2, Zenon DEF ThreadOK, Unwritten, Loaded

\* And after a step of it.
LEMMA SoleAfter ==
    ASSUME NEW t \in Threads, NEW b \in Blocks, Others(t),
           \A u \in Threads \ {t} : block[u] # b
    PROVE  /\ block'[t] = b => /\ Unwritten(b)' <=> op'[t] = "read"
                               /\ Loaded(b)' <=> pc'[t] \notin {"name", "map", "load", "copy"}
           /\ block'[t] = 0 => Unwritten(b)' /\ Loaded(b)'
  <1>1. \A u \in Threads \ {t} : block'[u] # b
    BY Zenon DEF Others, SameThread
  <1> QED BY <1>1, CacheAssumption, Zenon DEF Unwritten, Loaded

\* If the counter has not lapped a thread, the invariant is what it says of the
\* step's own thread and block, and of pages.
LEMMA LocalInv ==
    ASSUME CacheInv, NEW t \in Threads, NEW b \in Blocks, Local(t, b),
           TypeOK', ControlOK', ThreadOK(t)', BufferOK(t)', PairsOK', BlockOK(b)',
           ContentOK(b)', AgeOK', \A i \in Pages : PageOK(i)'
    PROVE  CacheInv'
  <1>1. \A u \in Threads : ThreadOK(u)' /\ BufferOK(u)'
    BY LocalThreads, Zenon
  <1>2. \A c \in Blocks : BlockOK(c)' /\ ContentOK(c)'
    BY LocalBlocks, Zenon
  <1>3. Unmounted'
    BY Zenon DEF Unmounted, Local
  <1> QED BY <1>1, <1>2, <1>3, Zenon DEF CacheInv


\* A page that a thread holds is private to it.
LEMMA HeldPrivate ==
    ASSUME CacheInv, NEW t \in Threads, Holds(t), cache_bitmap'[page[t]] \in {0, block[t]}
    PROVE  Private(t, block[t], page[t])
  <1>1. page[t] \in Pages /\ cache_bitmap[page[t]] \in {0, block[t]} /\ mounted
    BY Zenon DEF CacheInv, ThreadOK, Holds
  <1>2. \A u \in Threads \ {t} : Holds(u) => page[u] # page[t]
    BY HeldApart, Zenon
  <1>3. \A c \in Blocks \ {block[t]} : Used(c) /\ block_bitmap[c] > 1
            => block_bitmap[c] # page[t]
    BY <1>1, PageApart, Zenon
  <1> QED BY <1>1, <1>2, <1>3, Zenon DEF Private

\* Pairs of threads are right if the step takes no block and no page.
LEMMA PairsFrame ==
    ASSUME CacheInv, NEW t \in Threads, Others(t), block'[t] \in {0, block[t]},
           Unmarked(t)' => Unmarked(t) /\ page'[t] = page[t]
    PROVE  PairsOK'
  <1>1. \A u \in Threads \ {t} : /\ block'[u] = block[u] /\ page'[u] = page[u]
                                 /\ Unmarked(u)' <=> Unmarked(u)
    BY Zenon DEF Others, SameThread, Unmarked
  <1>2. PairsOK
    BY Zenon DEF CacheInv
  <1> QED BY <1>1, <1>2 DEF PairsOK

\* The invariant for thread t and its block.
LEMMA Known ==
    ASSUME CacheInv, NEW t \in Threads, pc[t] # "idle"
    PROVE  /\ TypeOK /\ ControlOK /\ ThreadOK(t) /\ BufferOK(t)
           /\ BlockOK(block[t]) /\ ContentOK(block[t])
           /\ block[t] \in Blocks /\ mounted
  BY Sole, Zenon DEF CacheInv

\* A step that stores to the page of its thread is local,
LEMMA HeldLocal ==
    ASSUME CacheInv, NEW t \in Threads, Holds(t), NEW b \in Blocks, b = block[t],
           Others(t), block'[t] \in {0, b}, UNCHANGED <<mounted, last_cache_index>>,
           \A c \in Blocks \ {b} : SameBlock(c),
           cache_bitmap'[page[t]] \in {0, b}, \A i \in Pages \ {page[t]} : SamePage(i)
    PROVE  Local(t, b)
  <1>1. mounted /\ \A u \in Threads \ {t} : block[u] # b
    BY Sole, Zenon DEF Holds
  <1>2. \A u \in Threads \ {t} : Unmarked(u) => page[u] <= last_cache_index'
    BY Zenon DEF CacheInv, ThreadOK
  <1>3. Private(t, b, page[t])
    BY HeldPrivate, Zenon
  <1>4. \E p \in Pages : Private(t, b, p) /\ \A i \in Pages \ {p} : SamePage(i)
    BY <1>3, Zenon DEF Private
  <1> QED BY <1>1, <1>2, <1>4, Zenon DEF Local

\* and so is one that stores to no page.
LEMMA QuietLocal ==
    ASSUME CacheInv, NEW t \in Threads, pc[t] # "idle", NEW b \in Blocks, b = block[t],
           Others(t), block'[t] \in {0, b}, UNCHANGED <<mounted, last_cache_index>>,
           \A c \in Blocks \ {b} : SameBlock(c), \A i \in Pages : SamePage(i)
    PROVE  Local(t, b)
  <1>1. mounted /\ \A u \in Threads \ {t} : block[u] # b
    BY Sole, Zenon
  <1>2. \A u \in Threads \ {t} : Unmarked(u) => page[u] <= last_cache_index'
    BY Zenon DEF CacheInv, ThreadOK
  <1> QED BY <1>1, <1>2, Zenon DEF Local

\* The page of a block knows it, unless the thread that uses it is about to say so.
LEMMA Marked ==
    ASSUME CacheInv, NEW t \in Threads, pc[t] # "idle", ~Unmarked(t),
           block_bitmap[block[t]] > 1
    PROVE  cache_bitmap[block_bitmap[block[t]]] = block[t]
  BY Sole DEF CacheInv, BlockOK, ThreadOK

\* The pages left behind stay below if the step takes no page and marks none.
LEMMA AgeFrame ==
    ASSUME CacheInv, NEW t \in Threads, Others(t),
           UNCHANGED <<cache_bitmap, block_bitmap, kind, mounted, wrapped>>,
           Holds(t)' => Holds(t) /\ page'[t] = page[t] /\ block'[t] = block[t]
    PROVE  AgeOK'
  <1>1. \A u \in Threads : Holds(u)' => Holds(u) /\ page'[u] = page[u] /\ block'[u] = block[u]
    BY Zenon DEF Others, SameThread, Holds
  <1>2. AgeOK
    BY Zenon DEF CacheInv
  <1> QED BY <1>1, <1>2, Zenon DEF AgeOK, Used

\* So a step on a page that is the block's has four things to show.
LEMMA PageStep ==
    ASSUME CacheInv, NEW t \in Threads, NEW b \in Blocks, b = block[t],
           NEW p \in Pages, p = page[t], Holds(t), ~Unmarked(t), ~Unmarked(t)',
           Others(t), block'[t] \in {0, b},
           Holds(t)' => page'[t] = p /\ block'[t] = b,
           UNCHANGED <<cache_bitmap, block_bitmap, kind, disk, counter, mounted>>,
           \A c \in Blocks \ {b} : latest'[c] = latest[c],
           \A i \in Pages \ {p} : SamePage(i),
           TypeOK', ControlOK',
           ThreadOK(t)', BufferOK(t)', ContentOK(b)', PageOK(p)'
    PROVE  CacheInv'
  <1>1. ThreadOK(t) /\ BlockOK(b) /\ \A i \in Pages : PageOK(i)
    BY Zenon DEF CacheInv
  <1>2. last_cache_index' = last_cache_index /\ wrapped' = wrapped
    BY Zenon DEF counter
  <1>3. Local(t, b)
    <2>1. \A c \in Blocks \ {b} : SameBlock(c)
      BY Zenon DEF SameBlock
    <2>2. cache_bitmap'[page[t]] = b
      BY <1>1, Zenon DEF ThreadOK
    <2> QED BY <1>2, <2>1, <2>2, HeldLocal, Zenon
  <1>4. BlockOK(b)'
    <2>1. block_bitmap[b] > 1 => cache_bitmap[block_bitmap[b]] = b
      BY Marked, Zenon DEF Holds
    <2> QED BY <1>1, <2>1, Zenon DEF BlockOK, Used
  <1>5. ASSUME NEW i \in Pages PROVE PageOK(i)'
    <2>1. i # p => PageOK(i)'
      BY <1>1, <1>2, Zenon DEF PageOK, SamePage
    <2> QED BY <2>1, Zenon
  <1>6. PairsOK' /\ AgeOK'
    BY <1>2, PairsFrame, AgeFrame, Zenon
  <1> QED BY <1>3, <1>4, <1>5, <1>6, LocalInv, Zenon

\* Where a thread is once its block has its page and the page its block.
LEMMA OnPage ==
    ASSUME CacheInv, NEW t \in Threads,
           pc[t] \in {"load", "copy", "hit", "done", "fill", "dirty"}
    PROVE  \E b \in Blocks, p \in Pages :
             /\ p = page[t] /\ b = block[t] /\ \A u \in Threads \ {t} : block[u] # b
             /\ TypeOK /\ ControlOK /\ ThreadOK(t) /\ BufferOK(t) /\ ContentOK(b) /\ mounted
             /\ PageOK(p) /\ cache_bitmap[p] = b /\ block_bitmap[b] = p
  <1>1. /\ TypeOK /\ ControlOK /\ ThreadOK(t) /\ BufferOK(t) /\ ContentOK(block[t])
        /\ block[t] \in Blocks /\ mounted /\ \A u \in Threads \ {t} : block[u] # block[t]
    BY Known, Sole, Zenon
  <1>2. /\ page[t] \in Pages
        /\ cache_bitmap[page[t]] = block[t] /\ block_bitmap[block[t]] = page[t]
    BY <1>1, Zenon DEF ThreadOK, Holds, Unmarked, Unmapped
  <1> QED BY <1>1, <1>2, Zenon DEF CacheInv

-----------------------------------------------------------------------------

\* read_cached and write_cached look for the block: its page is its own.
LEMMA LookInv == ASSUME CacheInv, NEW t \in Threads, Look(t) PROVE CacheInv'
  <1> USE DEF Look, Move, store, counter, locals
  <1>0. pc[t] # "idle"
    BY Zenon
  <1>b. PICK b \in Blocks : b = block[t]
    BY <1>0, Known, Zenon
  <1>k. /\ TypeOK /\ ControlOK /\ ThreadOK(t) /\ BufferOK(t)
        /\ BlockOK(b) /\ ContentOK(b) /\ mounted
    BY <1>0, <1>b, Known, Zenon
  <1>p. /\ block_bitmap[b] = 1 \/ block_bitmap[b] \in Pages
        /\ block_bitmap[b] \in Pages => cache_bitmap[block_bitmap[b]] = b
    <2>1. block_bitmap[b] = 1 \/ block_bitmap[b] \in Pages
      BY <1>0, <1>b, <1>k, Zenon DEF TypeOK, BlockOK, ThreadOK
    <2> QED BY <1>0, <1>b, <2>1, Marked, CacheAssumption DEF Unmarked, Pages
  <1>q. \/ /\ block_bitmap[b] = 1 /\ UNCHANGED page
           /\ pc' = [pc EXCEPT ![t] = "getpage"]
        \/ /\ block_bitmap[b] \in Pages /\ page' = [page EXCEPT ![t] = block_bitmap[b]]
           /\ pc' = [pc EXCEPT ![t] = IF op[t] = "write" THEN "fill" ELSE "hit"]
    BY <1>b, <1>p, Zenon DEF Pages
  <1>1. TypeOK'
    BY <1>k, <1>q, CacheAssumption, Zenon DEF TypeOK
  <1>2. ControlOK'
    BY <1>k, Zenon DEF ControlOK, Labels
  <1>3. Others(t) /\ block'[t] \in {0, b}
    BY <1>b, <1>k, ZenonT(30) DEF Others, SameThread, TypeOK, ControlOK
  <1>4. Local(t, b)
    <2>1. \A i \in Pages : SamePage(i)
      BY Zenon DEF SamePage
    <2>2. \A c \in Blocks \ {b} : SameBlock(c)
      BY <1>b, <1>k, ZenonT(30) DEF SameBlock, TypeOK
    <2> QED BY <1>0, <1>b, <1>3, <2>1, <2>2, QuietLocal, Zenon
  <1>5. ThreadOK(t)'
    BY <1>b, <1>k, <1>p, <1>q, CacheAssumption DEF TypeOK, ControlOK, ThreadOK, Holds,
       Unmapped, Unmarked, Used, Pages
  <1>6. BufferOK(t)'
    BY <1>b, <1>k, ZenonT(30) DEF TypeOK, ControlOK, ThreadOK, BufferOK, Holds
  <1>7. PairsOK'
    BY <1>b, <1>k, <1>3, PairsFrame, Zenon DEF TypeOK, ControlOK, Unmarked
  <1>8. BlockOK(b)'
    BY <1>b, <1>k, Marked, ZenonT(30) DEF TypeOK, ControlOK, ThreadOK, BlockOK, Holds, Unmapped,
       Unmarked, Used
  <1>9. ContentOK(b)'
    BY <1>0, <1>b, <1>k, <1>3, Sole, SoleAfter DEF TypeOK, ControlOK, ThreadOK, BufferOK,
       ContentOK, Clean, Holds, Unmapped, Unmarked, Used
  <1>10. ASSUME NEW i \in Pages PROVE PageOK(i)'
    BY <1>b, <1>k, ZenonT(30) DEF CacheInv, TypeOK, ControlOK, ThreadOK, BufferOK, PageOK,
       Holds, Unmarked, Pages
  <1>11. AgeOK'
    <2>1. AgeOK
      BY Zenon DEF CacheInv
    <2>2. /\ \A u \in Threads \ {t} : Holds(u)' = Holds(u) /\ block'[u] = block[u]
                                     /\ page'[u] = page[u]
          /\ block'[t] = b /\ Used(b)
          /\ Holds(t)' => page'[t] = block_bitmap[b] /\ page'[t] \in Pages
      BY <1>0, <1>b, <1>k, <1>3, <1>q, ZenonT(30) DEF Holds, Others, SameThread, TypeOK, ControlOK,
         ThreadOK
    <2>3. UNCHANGED <<mounted, wrapped, block_bitmap, cache_bitmap, kind>>
      BY Zenon
    <2>4. CACHE_PAGES \in Nat
      BY CacheAssumption, Zenon
    <2> HIDE DEF Look, Move, store, counter, locals
    <2>5. Holds(t)' => block_bitmap[b] > 1
      BY <2>2, <2>4 DEF Pages
    <2> QED BY <2>1, <2>2, <2>3, <2>5, ZenonT(30) DEF AgeOK, Used
  <1> QED BY ZenonT(30), <1>1, <1>2, <1>3, <1>4, <1>5, <1>6, <1>7, <1>8, <1>9, <1>10, <1>11, LocalInv,
             Zenon

\* The page is marked: it was unused and so it is clean.
LEMMA SetCacheBitmapInv == ASSUME CacheInv, NEW t \in Threads, SetCacheBitmap(t) PROVE CacheInv'
  <1> USE DEF SetCacheBitmap, Move, store, counter, locals
  <1>0. pc[t] # "idle"
    BY Zenon
  <1>b. PICK b \in Blocks : b = block[t]
    BY <1>0, Known, Zenon
  <1>k. /\ TypeOK /\ ControlOK /\ ThreadOK(t) /\ BufferOK(t)
        /\ BlockOK(b) /\ ContentOK(b) /\ mounted
    BY <1>0, <1>b, Known, Zenon
  <1>p. page[t] \in Pages /\ cache_bitmap[page[t]] = 0 /\ dirty_flag[page[t]] = 0
    BY <1>k, Zenon DEF CacheInv, ThreadOK, PageOK, Holds, Unmarked
  <1>1. TypeOK'
    BY <1>b, <1>k, CacheAssumption, Zenon DEF TypeOK, ControlOK, ThreadOK, BufferOK, Holds,
       Pages
  <1>2. ControlOK'
    BY <1>k, Zenon DEF ControlOK, Labels
  <1>3. Others(t) /\ block'[t] \in {0, b}
    BY <1>b, <1>k, Zenon DEF Others, SameThread, TypeOK, ControlOK
  <1>4. Local(t, b)
    <2>1. Holds(t) /\ cache_bitmap'[page[t]] \in {0, b}
      BY <1>b, <1>k, Zenon DEF Holds, TypeOK, ThreadOK, Unmarked
    <2>2. \A i \in Pages \ {page[t]} : SamePage(i)
      BY <1>k, Zenon DEF SamePage, TypeOK
    <2>3. \A c \in Blocks \ {b} : SameBlock(c)
      BY <1>b, <1>k, Zenon DEF SameBlock, TypeOK
    <2> QED BY <1>b, <1>3, <2>1, <2>2, <2>3, HeldLocal, Zenon
  <1>5. ThreadOK(t)'
    BY <1>b, <1>k, CacheAssumption, Zenon DEF TypeOK, ControlOK, ThreadOK, Holds, Unmapped,
       Unmarked, Used, Pages
  <1>6. BufferOK(t)'
    BY <1>b, <1>k, Zenon DEF TypeOK, ControlOK, ThreadOK, BufferOK, Holds
  <1>7. PairsOK'
    BY <1>b, <1>k, <1>3, PairsFrame, ZenonT(30) DEF TypeOK, ControlOK, Unmarked
  <1>8. BlockOK(b)'
    BY <1>b, <1>k, Marked, SMTT(30) DEF TypeOK, ControlOK, ThreadOK, BlockOK, Holds, Unmapped,
       Unmarked, Used
  <1>9. ContentOK(b)'
    BY <1>0, <1>b, <1>k, <1>p, <1>3, Sole, SoleAfter, SMTT(30) DEF TypeOK, ControlOK, ThreadOK,
       ContentOK, Clean, Unmapped, Used
  <1>10. ASSUME NEW i \in Pages PROVE PageOK(i)'
    BY <1>b, <1>k, ZenonT(30) DEF CacheInv, TypeOK, ControlOK, ThreadOK, BufferOK, PageOK,
       Holds, Unmarked, Pages
  <1>11. AgeOK'
    <2>1. AgeOK
      BY Zenon DEF CacheInv
    <2>2. /\ \A u \in Threads : Holds(u)' => Holds(u)
          /\ Holds(t) /\ (block_bitmap[b] = 1 \/ block_bitmap[b] = page[t])
      BY <1>b, <1>k, <1>3, ZenonT(30) DEF Holds, Unmapped, Others, SameThread, TypeOK, ControlOK,
         ThreadOK
    <2>3. /\ UNCHANGED <<mounted, wrapped, block_bitmap, kind, block, page>>
          /\ cache_bitmap'[page[t]] = b
          /\ \A i \in Pages \ {page[t]} : cache_bitmap'[i] = cache_bitmap[i]
      BY <1>b, <1>k, <1>p, Zenon DEF TypeOK
    <2>4. \A u \in Threads \ {t} : block[u] # b
      BY <1>0, <1>b, Sole, Zenon
    <2>5. page[t] \in Nat
      BY <1>p, CacheAssumption DEF Pages
    <2> HIDE DEF SetCacheBitmap, Move, store, counter, locals
    <2>6. page[t] <= page[t] /\ ~(1 > 1)
      BY <2>5
    <2>7. ASSUME (mounted /\ ~wrapped)', NEW i \in Pages
          PROVE  /\ \A c \in Blocks : (Used(c) /\ block_bitmap[c] > 1 /\ cache_bitmap[i] = c
                       => i <= block_bitmap[c])'
                 /\ \A u \in Threads : (Holds(u) /\ cache_bitmap[i] = block[u] => i <= page[u])'
      <3>1. CASE i = page[t]
        BY <1>b, <2>2, <2>3, <2>4, <2>6, <3>1, ZenonT(30) DEF Used
      <3>2. CASE i # page[t]
        BY <2>1, <2>2, <2>3, <2>7, <3>2, ZenonT(30) DEF Used, AgeOK
      <3> QED BY <3>1, <3>2, Zenon
    <2> QED BY <2>7, Zenon DEF AgeOK
  <1> QED BY ZenonT(30), <1>1, <1>2, <1>3, <1>4, <1>5, <1>6, <1>7, <1>8, <1>9, <1>10, <1>11, LocalInv,
             Zenon

\* The block gets its page, marked already in a read, soon to be in a write.
LEMMA SetBlockBitmapInv == ASSUME CacheInv, NEW t \in Threads, SetBlockBitmap(t) PROVE CacheInv'
  <1> USE DEF SetBlockBitmap, Move, store, counter, locals
  <1>0. pc[t] # "idle"
    BY Zenon
  <1>b. PICK b \in Blocks : b = block[t]
    BY <1>0, Known, Zenon
  <1>k. /\ TypeOK /\ ControlOK /\ ThreadOK(t) /\ BufferOK(t)
        /\ BlockOK(b) /\ ContentOK(b) /\ mounted
    BY <1>0, <1>b, Known, Zenon
  <1>1. TypeOK'
    BY <1>b, <1>k, CacheAssumption, Zenon DEF TypeOK, ControlOK, ThreadOK, BufferOK, Holds,
       Pages
  <1>2. ControlOK'
    BY <1>k, Zenon DEF ControlOK, Labels
  <1>3. Others(t) /\ block'[t] \in {0, b}
    BY <1>b, <1>k, Zenon DEF Others, SameThread, TypeOK, ControlOK
  <1>4. Local(t, b)
    <2>1. \A i \in Pages : SamePage(i)
      BY Zenon DEF SamePage
    <2>2. \A c \in Blocks \ {b} : SameBlock(c)
      BY <1>b, <1>k, Zenon DEF SameBlock, TypeOK
    <2> QED BY <1>0, <1>b, <1>3, <2>1, <2>2, QuietLocal, Zenon
  <1>5. ThreadOK(t)'
    BY <1>b, <1>k, CacheAssumption, Zenon DEF TypeOK, ControlOK, ThreadOK, Holds, Unmapped,
       Unmarked, Used, Pages
  <1>6. BufferOK(t)'
    BY <1>b, <1>k, Zenon DEF TypeOK, ControlOK, ThreadOK, BufferOK, Holds
  <1>7. PairsOK'
    BY <1>b, <1>k, <1>3, PairsFrame, Zenon DEF TypeOK, ControlOK, Unmarked
  <1>8. BlockOK(b)'
    <2>1. block_bitmap'[b] = page[t] /\ page[t] \in Pages /\ page'[t] = page[t] /\ block'[t] = b
      BY <1>b, <1>k, ZenonT(30) DEF TypeOK, ThreadOK, Holds
    <2>2. CASE op[t] = "write"
      <3>1. Unmarked(t)'
        BY <1>k, <2>2, Zenon DEF Unmarked, ControlOK
      <3> QED BY <2>1, <3>1, CacheAssumption DEF BlockOK, Pages
    <2>3. CASE op[t] # "write"
      <3>1. cache_bitmap'[page[t]] = b
        BY <1>b, <1>k, <2>3, ZenonT(30) DEF ThreadOK, Holds, Unmarked
      <3> QED BY <2>1, <3>1, CacheAssumption DEF BlockOK, Pages
    <2> QED BY <2>2, <2>3, Zenon
  <1>9. ContentOK(b)'
    BY <1>0, <1>b, <1>k, <1>3, Sole, SoleAfter, SMTT(30) DEF TypeOK, ControlOK, ThreadOK, BufferOK,
       ContentOK, Clean, Holds, Unmapped, Unmarked, Used
  <1>10. ASSUME NEW i \in Pages PROVE PageOK(i)'
    BY <1>b, <1>k, ZenonT(30) DEF CacheInv, TypeOK, ControlOK, ThreadOK, BufferOK, PageOK,
       Holds, Unmarked, Pages
  <1>11. AgeOK'
    <2>1. AgeOK
      BY Zenon DEF CacheInv
    <2>2. Holds(t) /\ \A u \in Threads : Holds(u)' => Holds(u)
      BY <1>k, <1>3, ZenonT(30) DEF Holds, Others, SameThread, TypeOK, ControlOK
    <2>3. /\ UNCHANGED <<mounted, wrapped, cache_bitmap, kind, block, page>>
          /\ block_bitmap'[b] = page[t]
          /\ \A c \in Blocks \ {b} : block_bitmap'[c] = block_bitmap[c]
      BY <1>b, <1>k, Zenon DEF TypeOK
    <2> HIDE DEF SetBlockBitmap, Move, store, counter, locals
    <2>4. ASSUME (mounted /\ ~wrapped)', NEW i \in Pages
          PROVE  /\ \A c \in Blocks : (Used(c) /\ block_bitmap[c] > 1 /\ cache_bitmap[i] = c
                       => i <= block_bitmap[c])'
                 /\ \A u \in Threads : (Holds(u) /\ cache_bitmap[i] = block[u] => i <= page[u])'
      BY <1>b, <2>1, <2>2, <2>3, <2>4, ZenonT(30) DEF Used, AgeOK
    <2> QED BY <2>4, Zenon DEF AgeOK
  <1> QED BY ZenonT(30), <1>1, <1>2, <1>3, <1>4, <1>5, <1>6, <1>7, <1>8, <1>9, <1>10, <1>11, LocalInv,
             Zenon

\* No page of a block that is not cached is dirty: the disk is current.
LEMMA LoadBlockInv == ASSUME CacheInv, NEW t \in Threads, LoadBlock(t) PROVE CacheInv'
  <1> USE DEF LoadBlock, Move, counter
  <1>k. PICK b \in Blocks, p \in Pages :
          /\ p = page[t] /\ b = block[t] /\ \A u \in Threads \ {t} : block[u] # b
          /\ TypeOK /\ ControlOK /\ ThreadOK(t) /\ BufferOK(t) /\ ContentOK(b) /\ mounted
          /\ PageOK(p) /\ cache_bitmap[p] = b /\ block_bitmap[b] = p
    BY OnPage, Zenon
  <1>1. TypeOK' /\ ControlOK'
    BY <1>k, CacheAssumption, Zenon DEF TypeOK, ControlOK, ThreadOK, BufferOK, Labels
  <1>2. /\ Others(t) /\ block'[t] \in {0, b}
        /\ Holds(t) /\ ~Unmarked(t) /\ ~Unmarked(t)'
        /\ Holds(t)' => page'[t] = p /\ block'[t] = b
    BY <1>k, Zenon DEF Others, SameThread, TypeOK, ControlOK, Holds, Unmarked
  <1>3. /\ \A c \in Blocks \ {b} : latest'[c] = latest[c]
        /\ \A i \in Pages \ {p} : SamePage(i)
    BY <1>k, Zenon DEF TypeOK, SamePage
  <1>4. ThreadOK(t)'
    BY <1>k, Zenon DEF TypeOK, ControlOK, ThreadOK, Holds, Unmapped, Unmarked, Used
  <1>5. BufferOK(t)'
    BY <1>k, Sole, ZenonT(30) DEF TypeOK, ControlOK, ThreadOK, BufferOK, ContentOK, Clean
  <1>6. ContentOK(b)'
    BY <1>k, <1>2, Sole, SoleAfter DEF TypeOK, ControlOK, ThreadOK, BufferOK, ContentOK,
       Clean, Used
  <1>7. PageOK(p)'
    BY <1>k, CacheAssumption, ZenonT(30) DEF TypeOK, ControlOK, ThreadOK, BufferOK, PageOK
  <1> QED BY <1>k, <1>1, <1>2, <1>3, <1>4, <1>5, <1>6, <1>7, PageStep, ZenonT(30)

\* The page is filled before any other call can find it.
LEMMA CopyToPageInv == ASSUME CacheInv, NEW t \in Threads, CopyToPage(t) PROVE CacheInv'
  <1> USE DEF CopyToPage, Move, counter, locals
  <1>k. PICK b \in Blocks, p \in Pages :
          /\ p = page[t] /\ b = block[t] /\ \A u \in Threads \ {t} : block[u] # b
          /\ TypeOK /\ ControlOK /\ ThreadOK(t) /\ BufferOK(t) /\ ContentOK(b) /\ mounted
          /\ PageOK(p) /\ cache_bitmap[p] = b /\ block_bitmap[b] = p
    BY OnPage, Zenon
  <1>1. TypeOK' /\ ControlOK'
    BY <1>k, CacheAssumption, Zenon DEF TypeOK, ControlOK, ThreadOK, BufferOK, Labels
  <1>2. /\ Others(t) /\ block'[t] \in {0, b}
        /\ Holds(t) /\ ~Unmarked(t) /\ ~Unmarked(t)'
        /\ Holds(t)' => page'[t] = p /\ block'[t] = b
    BY <1>k, Zenon DEF Others, SameThread, TypeOK, ControlOK, Holds, Unmarked
  <1>3. /\ \A c \in Blocks \ {b} : latest'[c] = latest[c]
        /\ \A i \in Pages \ {p} : SamePage(i)
    BY <1>k, Zenon DEF TypeOK, SamePage
  <1>4. ThreadOK(t)'
    BY <1>k, Zenon DEF TypeOK, ControlOK, ThreadOK, Holds, Unmapped, Unmarked, Used
  <1>5. BufferOK(t)'
    BY <1>k, ZenonT(30) DEF TypeOK, ControlOK, ThreadOK, BufferOK
  <1>6. ContentOK(b)'
    BY <1>k, <1>2, Sole, SoleAfter DEF TypeOK, ControlOK, ThreadOK, BufferOK, ContentOK,
       Clean, Used
  <1>7. PageOK(p)'
    BY <1>k, CacheAssumption, ZenonT(30) DEF TypeOK, ControlOK, ThreadOK, BufferOK, PageOK
  <1> QED BY <1>k, <1>1, <1>2, <1>3, <1>4, <1>5, <1>6, <1>7, PageStep, Zenon

\* A page that is found and was filled is current.
LEMMA ReadHitInv == ASSUME CacheInv, NEW t \in Threads, ReadHit(t) PROVE CacheInv'
  <1> USE DEF ReadHit, Move, store, counter
  <1>k. PICK b \in Blocks, p \in Pages :
          /\ p = page[t] /\ b = block[t] /\ \A u \in Threads \ {t} : block[u] # b
          /\ TypeOK /\ ControlOK /\ ThreadOK(t) /\ BufferOK(t) /\ ContentOK(b) /\ mounted
          /\ PageOK(p) /\ cache_bitmap[p] = b /\ block_bitmap[b] = p
    BY OnPage, Zenon
  <1>1. TypeOK' /\ ControlOK'
    BY <1>k, CacheAssumption, ZenonT(120) DEF TypeOK, ControlOK, ThreadOK, BufferOK, Labels
  <1>2. /\ Others(t) /\ block'[t] \in {0, b}
        /\ Holds(t) /\ ~Unmarked(t) /\ ~Unmarked(t)'
        /\ Holds(t)' => page'[t] = p /\ block'[t] = b
    BY <1>k, Zenon DEF Others, SameThread, TypeOK, ControlOK, Holds, Unmarked
  <1>3. /\ \A c \in Blocks \ {b} : latest'[c] = latest[c]
        /\ \A i \in Pages \ {p} : SamePage(i)
    BY <1>k, Zenon DEF TypeOK, SamePage
  <1>4. ThreadOK(t)'
    BY <1>k, Zenon DEF TypeOK, ControlOK, ThreadOK, Holds, Unmapped, Unmarked, Used
  <1>5. BufferOK(t)'
    <2>1. p > 1 /\ op[t] = "read"
      BY <1>k, CacheAssumption DEF ThreadOK, Pages
    <2>2. cache[p] = latest[b]
      BY <1>k, <2>1, Sole, ZenonT(30) DEF ThreadOK, ContentOK
    <2> QED BY <1>k, <2>1, <2>2, ZenonT(30) DEF TypeOK, ControlOK, BufferOK
  <1>6. ContentOK(b)'
    BY <1>k, <1>2, Sole, SoleAfter DEF TypeOK, ControlOK, ThreadOK, BufferOK, ContentOK,
       Clean, Used
  <1>7. PageOK(p)'
    BY <1>k, CacheAssumption, Zenon DEF TypeOK, ControlOK, ThreadOK, BufferOK, PageOK
  <1> QED BY <1>k, <1>1, <1>2, <1>3, <1>4, <1>5, <1>6, <1>7, PageStep, Zenon

\* A read leaves the block readable.
LEMMA ReadReturnInv == ASSUME CacheInv, NEW t \in Threads, ReadReturn(t) PROVE CacheInv'
  <1> USE DEF ReadReturn, Return, Move, store, counter
  <1>k. PICK b \in Blocks, p \in Pages :
          /\ p = page[t] /\ b = block[t] /\ \A u \in Threads \ {t} : block[u] # b
          /\ TypeOK /\ ControlOK /\ ThreadOK(t) /\ BufferOK(t) /\ ContentOK(b) /\ mounted
          /\ PageOK(p) /\ cache_bitmap[p] = b /\ block_bitmap[b] = p
    BY OnPage, Zenon
  <1>1. TypeOK' /\ ControlOK'
    BY <1>k, CacheAssumption, Zenon DEF TypeOK, ControlOK, ThreadOK, BufferOK, Labels
  <1>2. /\ Others(t) /\ block'[t] \in {0, b}
        /\ Holds(t) /\ ~Unmarked(t) /\ ~Unmarked(t)'
        /\ Holds(t)' => page'[t] = p /\ block'[t] = b
    BY <1>k, Zenon DEF Others, SameThread, TypeOK, ControlOK, Holds, Unmarked
  <1>3. /\ \A c \in Blocks \ {b} : latest'[c] = latest[c]
        /\ \A i \in Pages \ {p} : SamePage(i)
    BY <1>k, Zenon DEF TypeOK, SamePage
  <1>4. ThreadOK(t)'
    BY <1>k, Zenon DEF TypeOK, ControlOK, ThreadOK, Holds, Unmapped, Unmarked, Used
  <1>5. BufferOK(t)'
    BY <1>k, ZenonT(30) DEF TypeOK, ControlOK, ThreadOK, BufferOK
  <1>6. ContentOK(b)'
    BY <1>k, <1>2, Sole, SoleAfter DEF TypeOK, ControlOK, ThreadOK, BufferOK, ContentOK,
       Clean, Used
  <1>7. PageOK(p)'
    BY <1>k, CacheAssumption, Zenon DEF TypeOK, ControlOK, ThreadOK, BufferOK, PageOK
  <1> QED BY <1>k, <1>1, <1>2, <1>3, <1>4, <1>5, <1>6, <1>7, PageStep, ZenonT(30)

\* Only the thread that writes sees the page that is ahead of the last write.
LEMMA WriteFillInv == ASSUME CacheInv, NEW t \in Threads, WriteFill(t) PROVE CacheInv'
  <1> USE DEF WriteFill, Move, counter, locals
  <1>k. PICK b \in Blocks, p \in Pages :
          /\ p = page[t] /\ b = block[t] /\ \A u \in Threads \ {t} : block[u] # b
          /\ TypeOK /\ ControlOK /\ ThreadOK(t) /\ BufferOK(t) /\ ContentOK(b) /\ mounted
          /\ PageOK(p) /\ cache_bitmap[p] = b /\ block_bitmap[b] = p
    BY OnPage, Zenon
  <1>1. TypeOK' /\ ControlOK'
    BY <1>k, CacheAssumption, Zenon DEF TypeOK, ControlOK, ThreadOK, BufferOK, Labels
  <1>2. /\ Others(t) /\ block'[t] \in {0, b}
        /\ Holds(t) /\ ~Unmarked(t) /\ ~Unmarked(t)'
        /\ Holds(t)' => page'[t] = p /\ block'[t] = b
    BY <1>k, Zenon DEF Others, SameThread, TypeOK, ControlOK, Holds, Unmarked
  <1>3. /\ \A c \in Blocks \ {b} : latest'[c] = latest[c]
        /\ \A i \in Pages \ {p} : SamePage(i)
    BY <1>k, Zenon DEF TypeOK, SamePage
  <1>4. ThreadOK(t)'
    BY <1>k, Zenon DEF TypeOK, ControlOK, ThreadOK, Holds, Unmapped, Unmarked, Used
  <1>5. BufferOK(t)'
    BY <1>k, ZenonT(30) DEF TypeOK, ControlOK, ThreadOK, BufferOK
  <1>6. ContentOK(b)'
    BY <1>k, <1>2, Sole, SoleAfter, Zenon DEF TypeOK, ControlOK, ThreadOK, BufferOK,
       ContentOK, Clean, Used
  <1>7. PageOK(p)'
    BY <1>k, CacheAssumption DEF TypeOK, ControlOK, ThreadOK, BufferOK, PageOK
  <1> QED BY <1>k, <1>1, <1>2, <1>3, <1>4, <1>5, <1>6, <1>7, PageStep, ZenonT(30)

\* A write leaves its version in the page, and the page dirty.
LEMMA WriteDirtyInv == ASSUME CacheInv, NEW t \in Threads, WriteDirty(t) PROVE CacheInv'
  <1> USE DEF WriteDirty, Return, Move, counter
  <1>k. PICK b \in Blocks, p \in Pages :
          /\ p = page[t] /\ b = block[t] /\ \A u \in Threads \ {t} : block[u] # b
          /\ TypeOK /\ ControlOK /\ ThreadOK(t) /\ BufferOK(t) /\ ContentOK(b) /\ mounted
          /\ PageOK(p) /\ cache_bitmap[p] = b /\ block_bitmap[b] = p
    BY OnPage, Zenon
  <1>1. TypeOK' /\ ControlOK'
    BY <1>k, CacheAssumption, Zenon DEF TypeOK, ControlOK, ThreadOK, BufferOK, Labels
  <1>2. /\ Others(t) /\ block'[t] \in {0, b}
        /\ Holds(t) /\ ~Unmarked(t) /\ ~Unmarked(t)'
        /\ Holds(t)' => page'[t] = p /\ block'[t] = b
    BY <1>k, Zenon DEF Others, SameThread, TypeOK, ControlOK, Holds, Unmarked
  <1>3. /\ \A c \in Blocks \ {b} : latest'[c] = latest[c]
        /\ \A i \in Pages \ {p} : SamePage(i)
    BY <1>k, Zenon DEF TypeOK, SamePage
  <1>4. ThreadOK(t)'
    BY <1>k, Zenon DEF TypeOK, ControlOK, ThreadOK, Holds, Unmapped, Unmarked, Used
  <1>5. BufferOK(t)'
    BY <1>k, Zenon DEF TypeOK, ControlOK, ThreadOK, BufferOK
  <1>6. ContentOK(b)'
    <2>1. dirty_flag'[p] = 1 /\ cache'[p] = latest'[b] /\ p > 1
      BY <1>k, CacheAssumption DEF TypeOK, BufferOK, Pages
    <2>2. Loaded(b)'
      BY <1>k, <1>2, CacheAssumption, ZenonT(30) DEF Loaded, TypeOK, Others, SameThread
    <2> QED BY <1>k, <2>1, <2>2, ZenonT(30) DEF ContentOK
  <1>7. PageOK(p)'
    BY <1>k, CacheAssumption, Zenon DEF TypeOK, ControlOK, ThreadOK, BufferOK, PageOK
  <1> QED BY <1>k, <1>1, <1>2, <1>3, <1>4, <1>5, <1>6, <1>7, PageStep, ZenonT(30)
=============================================================================
