-------------------------- MODULE BlockCacheProofs --------------------------
(***************************************************************************)
(* BlockCache for any blocks, pages, values and threads, wrapping or not:  *)
(* starting a call, taking and freeing a block, taking a page, unmount and *)
(* mount keep the invariant, and what follows from it.                     *)
(***************************************************************************)
EXTENDS BlockCacheInv, WellFoundedInduction

\* A call starts on a block that no other thread uses.
LEMMA AccessInv ==
    ASSUME CacheInv, NEW t \in Threads, NEW o \in {"read", "write"}, NEW b \in Blocks,
           NEW v \in Values, Access(t, o, b, v)
    PROVE  CacheInv'
  <1> USE DEF Access, Enter, Move, store, counter
  <1>k. /\ TypeOK /\ ControlOK /\ ThreadOK(t) /\ BlockOK(b) /\ ContentOK(b)
        /\ block[t] = 0 /\ b # 0 /\ \A u \in Threads : block[u] # b
    BY CacheAssumption, Zenon DEF CacheInv, ThreadOK, Unshared
  <1>1. TypeOK'
    BY <1>k, Zenon DEF TypeOK
  <1>2. ControlOK'
    BY <1>k, Zenon DEF ControlOK, Labels
  <1>3. Others(t) /\ block'[t] = b /\ pc'[t] = "look" /\ op'[t] = o
    BY <1>k, ZenonT(30) DEF Others, SameThread, TypeOK, ControlOK
  <1>4. Local(t, b)
    <2>1. \A u \in Threads : Unmarked(u) => page[u] <= last_cache_index'
      BY Zenon DEF CacheInv, ThreadOK
    <2> QED BY <1>k, <1>3, <2>1, Zenon DEF Local, SameBlock, SamePage
  <1>5. ThreadOK(t)'
    BY <1>k, <1>3, Zenon DEF ThreadOK, Holds, Unmapped, Unmarked, Used
  <1>6. BufferOK(t)'
    BY <1>k, <1>3, ZenonT(30) DEF BufferOK, TypeOK
  <1>7. PairsOK'
    BY <1>k, <1>3 DEF CacheInv, PairsOK, Others, SameThread, Unmarked
  <1>8. BlockOK(b)'
    BY <1>k, Zenon DEF BlockOK, Used
  <1>9. ContentOK(b)'
    <2>1. Unwritten(b) /\ Loaded(b)
      BY <1>k, Zenon DEF Unwritten, Loaded
    <2>2. Loaded(b)'
      BY <1>k, <1>3, SoleAfter, Zenon
    <2> QED BY <1>k, <2>1, <2>2, Zenon DEF ContentOK, Clean, Used
  <1>10. \A i \in Pages : PageOK(i)'
    BY Zenon DEF CacheInv, PageOK
  <1>11. AgeOK'
    BY <1>3, AgeFrame, Zenon DEF Holds
  <1> QED BY <1>1, <1>2, <1>4, <1>5, <1>6, <1>7, <1>8, <1>9, <1>10, <1>11, LocalInv, ZenonT(30)

\* An unused block has no thread and no page, and its old contents are never read.
LEMMA get_new_datablockInv ==
    ASSUME CacheInv, NEW t \in Threads, NEW k \in {"data", "table"}, NEW v \in Values,
           get_new_datablock(t, k, v)
    PROVE  CacheInv'
  <1> USE DEF Enter, Move, counter
  <1>b. PICK b \in Blocks :
          /\ block_bitmap[b] = 0
          /\ block_bitmap' = [block_bitmap EXCEPT ![b] = 1]
          /\ disk' = IF k = "table" THEN [disk EXCEPT ![b] = Blank] ELSE disk
          /\ kind' = [kind EXCEPT ![b] = k]
          /\ Enter(t, IF k = "table" THEN "table" ELSE "write", b, v)
    BY Zenon DEF get_new_datablock
  <1>u. /\ mounted /\ pc[t] = "idle"
        /\ UNCHANGED <<cache_bitmap, dirty_flag, cache, counter, mutex, mounted, latest>>
    BY Zenon DEF get_new_datablock
  <1>k. /\ TypeOK /\ ControlOK /\ ThreadOK(t) /\ BlockOK(b)
        /\ block[t] = 0 /\ b # 0 /\ ~Used(b) /\ \A u \in Threads : block[u] # b
    <2>1. TypeOK /\ ControlOK /\ ThreadOK(t) /\ BlockOK(b) /\ b # 0
      BY CacheAssumption, Zenon DEF CacheInv
    <2>2. ~Used(b)
      BY <1>b, <2>1, Zenon DEF BlockOK
    <2> QED BY <1>u, <2>1, <2>2, Zenon DEF CacheInv, ThreadOK
  <1>1. TypeOK'
    BY <1>b, <1>u, <1>k, CacheAssumption, Zenon DEF TypeOK
  <1>2. ControlOK'
    BY <1>b, <1>k, Zenon DEF ControlOK, Labels
  <1>3. Others(t) /\ block'[t] = b /\ pc'[t] = "look" /\ op'[t] \in {"write", "table"}
    BY <1>b, <1>k, Zenon DEF Others, SameThread, TypeOK, ControlOK
  <1>4. Local(t, b)
    <2>1. \A u \in Threads : Unmarked(u) => page[u] <= last_cache_index'
      BY <1>u, Zenon DEF CacheInv, ThreadOK
    <2>2. \A c \in Blocks \ {b} : SameBlock(c)
      BY <1>b, <1>u, <1>k, Zenon DEF SameBlock, TypeOK, ControlOK
    <2> QED BY <1>u, <1>k, <1>3, <2>1, <2>2, Zenon DEF Local, SamePage
  <1>m. block_bitmap'[b] = 1 /\ kind'[b] # "free"
    BY <1>b, <1>k, Zenon DEF TypeOK, ControlOK
  <1>5. ThreadOK(t)'
    BY <1>u, <1>k, <1>3, <1>m, Zenon DEF ThreadOK, Holds, Unmapped, Unmarked, Used
  <1>6. BufferOK(t)'
    BY <1>b, <1>k, <1>3, ZenonT(30) DEF BufferOK, TypeOK
  <1>7. PairsOK'
    BY <1>k, <1>3, SMTT(30) DEF CacheInv, PairsOK, Others, SameThread, Unmarked
  <1>8. BlockOK(b)'
    BY <1>m DEF BlockOK
  <1>9. ContentOK(b)'
    BY <1>k, <1>3, SoleAfter, Zenon DEF ContentOK
  <1>10. \A i \in Pages : PageOK(i)'
    BY <1>u, ZenonT(30) DEF CacheInv, PageOK
  <1>11. AgeOK'
    <2>1. \A c \in Blocks : Used(c)' /\ block_bitmap'[c] > 1 => Used(c) /\ SameBlock(c)
      BY <1>4, <1>m DEF Local, SameBlock, Used
    <2>2. \A u \in Threads : Holds(u)' => Holds(u) /\ SameThread(u)
      BY <1>3, Zenon DEF Others, SameThread, Holds
    <2> QED BY <1>u, <2>1, <2>2, SMTT(30) DEF CacheInv, AgeOK, SameBlock, SameThread
  <1> QED BY <1>1, <1>2, <1>4, <1>5, <1>6, <1>7, <1>8, <1>9, <1>10, <1>11, LocalInv, ZenonT(30)

\* The page of a block that no thread uses is the block's own.
LEMMA free_data_blockInv ==
    ASSUME CacheInv, NEW t \in Threads, NEW b \in Blocks, free_data_block(t, b)
    PROVE  CacheInv'
  <1> USE DEF free_data_block, counter, locals
  <1>k. /\ TypeOK /\ ControlOK /\ ThreadOK(t) /\ BufferOK(t) /\ BlockOK(b) /\ Used(b)
        /\ block[t] = 0 /\ b # 0 /\ \A u \in Threads : block[u] # b
    BY CacheAssumption, Zenon DEF CacheInv, ThreadOK, Unshared, Used
  <1>p. block_bitmap[b] > 1 =>
            /\ block_bitmap[b] \in Pages
            /\ cache_bitmap[block_bitmap[b]] = b
            /\ \A u \in Threads : Holds(u) => page[u] # block_bitmap[b]
            /\ \A c \in Blocks \ {b} : Used(c) /\ block_bitmap[c] > 1
                                         => block_bitmap[c] # block_bitmap[b]
    <2> SUFFICES ASSUME block_bitmap[b] > 1
                 PROVE  /\ block_bitmap[b] \in Pages
                        /\ cache_bitmap[block_bitmap[b]] = b
                        /\ \A u \in Threads : Holds(u) => page[u] # block_bitmap[b]
                        /\ \A c \in Blocks \ {b} : Used(c) /\ block_bitmap[c] > 1
                                                     => block_bitmap[c] # block_bitmap[b]
      BY Zenon
    <2>1. block_bitmap[b] \in Pages /\ cache_bitmap[block_bitmap[b]] = b
      BY <1>k DEF TypeOK, BlockOK
    <2>2. \A u \in Threads : Holds(u) => page[u] # block_bitmap[b]
      BY <1>k, PageApart, Zenon
    <2>3. \A c \in Blocks \ {b} : Used(c) /\ block_bitmap[c] > 1
                                    => block_bitmap[c] # block_bitmap[b]
      BY <1>k, BlocksApart, Zenon
    <2> QED BY <2>1, <2>2, <2>3, Zenon
  <1>d. \/ \A i \in Pages : SamePage(i)
        \/ /\ block_bitmap[b] > 1
           /\ cache_bitmap' = [cache_bitmap EXCEPT ![block_bitmap[b]] = 0]
           /\ dirty_flag' = [dirty_flag EXCEPT ![block_bitmap[b]] = 0]
           /\ cache' = cache
    BY Zenon DEF SamePage
  <1>e. \A i \in Pages : \/ SamePage(i)
                         \/ cache_bitmap'[i] = 0 /\ dirty_flag'[i] = 0
    BY <1>k, <1>d, ZenonT(30) DEF SamePage, TypeOK
  <1>1. TypeOK'
    BY <1>k, <1>p, ZenonT(30) DEF TypeOK
  <1>2. ControlOK'
    BY <1>k, Zenon DEF ControlOK
  <1>4. Local(t, b)
    <2>1. \A u \in Threads : Unmarked(u) => page[u] <= last_cache_index'
      BY Zenon DEF CacheInv, ThreadOK
    <2>2. \A c \in Blocks \ {b} : SameBlock(c)
      BY <1>k, Zenon DEF SameBlock, TypeOK, ControlOK
    <2>3. \/ \A i \in Pages : SamePage(i)
          \/ \E p \in Pages : Private(t, b, p) /\ \A i \in Pages \ {p} : SamePage(i)
      <3>1. CASE \A i \in Pages : SamePage(i)
        BY <3>1, Zenon
      <3>2. CASE /\ block_bitmap[b] > 1
                 /\ cache_bitmap' = [cache_bitmap EXCEPT ![block_bitmap[b]] = 0]
                 /\ dirty_flag' = [dirty_flag EXCEPT ![block_bitmap[b]] = 0]
                 /\ cache' = cache
        <4>1. cache_bitmap'[block_bitmap[b]] = 0
          BY <1>k, <1>p, <3>2, Zenon DEF TypeOK
        <4>2. Private(t, b, block_bitmap[b])
          BY <1>p, <3>2, <4>1, Zenon DEF Private
        <4>3. \A i \in Pages \ {block_bitmap[b]} : SamePage(i)
          BY <1>k, <3>2, Zenon DEF SamePage, TypeOK
        <4> QED BY <1>p, <3>2, <4>2, <4>3, Zenon
      <3> QED BY <1>d, <3>1, <3>2, Zenon
    <2> QED BY <1>k, <2>1, <2>2, <2>3, Zenon DEF Local, Others, SameThread
  <1>m. ~Used(b)'
    BY <1>k, Zenon DEF Used, ControlOK
  <1>5. ThreadOK(t)'
    BY <1>k, Zenon DEF ThreadOK, Holds, Unmapped, Unmarked
  <1>6. BufferOK(t)'
    BY <1>k, Zenon DEF BufferOK
  <1>7. PairsOK'
    BY ZenonT(30) DEF CacheInv, PairsOK, Unmarked
  <1>8. BlockOK(b)' /\ ContentOK(b)'
    BY <1>m, Zenon DEF BlockOK, ContentOK
  <1>10. \A i \in Pages : PageOK(i)'
    BY <1>e, SMTT(30) DEF CacheInv, PageOK, SamePage
  <1>11. AgeOK'
    <2>1. \A c \in Blocks : Used(c)' => Used(c) /\ SameBlock(c)
      BY <1>4, <1>m, Zenon DEF Local, SameBlock, Used
    <2>2. \A u \in Threads : Holds(u)' => Holds(u) /\ SameThread(u) /\ block[u] # 0
      BY Zenon DEF CacheInv, ThreadOK, SameThread, Holds
    <2>3. \A i \in Pages : cache_bitmap'[i] # 0 => cache_bitmap'[i] = cache_bitmap[i]
      BY <1>e, Zenon DEF SamePage
    <2> QED BY <2>1, <2>2, <2>3, CacheAssumption DEF CacheInv, AgeOK, SameBlock, SameThread
  <1> QED BY <1>1, <1>2, <1>4, <1>5, <1>6, <1>7, <1>8, <1>10, <1>11, LocalInv, ZenonT(30)

\* The counter moves past no thread that has taken a page and not marked it.
LEMMA Turned ==
    ASSUME CacheInv, NEW t \in Threads, pc[t] = "getpage", Turn(t), Advance
    PROVE  /\ last_cache_index' = NextPage /\ NextPage \in Pages
           /\ wrapped' \in BOOLEAN
           /\ \A u \in Threads : Unmarked(u) => page[u] <= NextPage /\ page[u] # NextPage
           /\ ~wrapped' => ~wrapped /\ NextPage = last_cache_index + 1
  <1>1. TypeOK /\ CACHE_PAGES \in Nat
    BY CacheAssumption, Zenon DEF CacheInv
  <1>2. /\ last_cache_index \in Int
        /\ last_cache_index < CACHE_PAGES - 1 \/ last_cache_index = CACHE_PAGES - 1
    BY <1>1 DEF TypeOK
  <1>3. /\ NextPage \in Pages
        /\ last_cache_index < CACHE_PAGES - 1 => NextPage = last_cache_index + 1
    BY <1>1, NextPageIs, Zenon
  <1>4. ASSUME NEW u \in Threads, Unmarked(u) PROVE page[u] <= NextPage /\ page[u] # NextPage
    <2>1. page[u] \in Pages /\ page[u] <= last_cache_index /\ u # t /\ pc[u] # "idle"
      BY <1>4, Zenon DEF CacheInv, ThreadOK, Holds, Unmarked
    <2>2. last_cache_index < CACHE_PAGES - 1
      BY <2>1, Zenon DEF Turn
    <2> QED BY <1>2, <1>3, <2>1, <2>2, CacheAssumption DEF Pages
  <1>5. wrapped' \in BOOLEAN
    BY Zenon DEF Advance
  <1>6. ~wrapped' => ~wrapped /\ last_cache_index # CACHE_PAGES - 1
    BY Zenon DEF Advance
  <1> QED BY <1>2, <1>3, <1>4, <1>5, <1>6, Zenon DEF Advance

\* Before the counter wraps every page in use is below the next one.
LEMMA Behind ==
    ASSUME CacheInv, mounted, ~wrapped, NextPage = last_cache_index + 1,
           NEW i \in Pages, cache_bitmap[i] # 0
    PROVE  i < NextPage
  BY CacheAssumption DEF CacheInv, PageOK, TypeOK, Pages

\* The mark 1 of a block in use is no page number.
LEMMA MarkNoPage == 1 # 0 /\ ~ (1 > 1)
  OBVIOUS

\* The page taken is nobody's, and above all those in use until the counter wraps.
LEMMA get_free_cache_pageInv ==
    ASSUME CacheInv, NEW t \in Threads, get_free_cache_page(t)
    PROVE  CacheInv'
  <1>a. /\ pc[t] = "getpage" /\ cache_bitmap[NextPage] = 0
        /\ page' = [page EXCEPT ![t] = NextPage]
        /\ pc' = [pc EXCEPT ![t] = IF op[t] = "write" THEN "map" ELSE "name"]
        /\ UNCHANGED <<store, mutex, mounted, op, block, buf, kind, latest>>
    BY Zenon DEF get_free_cache_page, Move
  <1>n. /\ last_cache_index' = NextPage /\ NextPage \in Pages
        /\ wrapped' \in BOOLEAN
        /\ \A u \in Threads : Unmarked(u) => page[u] <= NextPage /\ page[u] # NextPage
        /\ ~wrapped' => ~wrapped /\ NextPage = last_cache_index + 1
    BY Turned, Zenon DEF get_free_cache_page
  <1> USE DEF store
  <1>0. pc[t] # "idle"
    BY <1>a, Zenon
  <1>b. PICK b \in Blocks : b = block[t]
    BY <1>0, Known, Zenon
  <1>k. /\ TypeOK /\ ControlOK /\ ThreadOK(t) /\ BufferOK(t)
        /\ BlockOK(b) /\ ContentOK(b) /\ mounted /\ block_bitmap[b] = 1 /\ Used(b)
    <2>1. /\ TypeOK /\ ControlOK /\ ThreadOK(t) /\ BufferOK(t)
          /\ BlockOK(b) /\ ContentOK(b) /\ mounted
      BY <1>0, <1>b, Known, ZenonT(30)
    <2> QED BY <1>a, <1>b, <2>1, Zenon DEF ThreadOK
  <1>1. TypeOK'
    BY <1>a, <1>n, <1>k, CacheAssumption DEF TypeOK, Pages
  <1>2. ControlOK'
    BY <1>a, <1>k, Zenon DEF ControlOK, Labels
  <1>3. /\ Others(t) /\ block'[t] = b /\ page'[t] = NextPage
        /\ pc'[t] = IF op[t] = "write" THEN "map" ELSE "name"
    BY <1>a, <1>b, <1>k, Zenon DEF Others, SameThread, TypeOK, ControlOK
  <1>u. \A u \in Threads \ {t} : Unmarked(u) => page[u] <= last_cache_index'
    BY <1>n, Zenon
  <1>4. Local(t, b)
    <2>1. \A u \in Threads \ {t} : block[u] # b
      BY <1>0, <1>b, Sole, ZenonT(30)
    <2> QED BY <1>a, <1>b, <1>k, <1>3, <1>u, <2>1, Zenon DEF Local, SamePage, SameBlock
  <1>5. ThreadOK(t)'
    BY <1>a, <1>n, <1>k, <1>3, CacheAssumption, SMTT(30) DEF ThreadOK, ControlOK, Holds, Unmapped,
       Unmarked, Used, Pages
  <1>6. BufferOK(t)'
    <2>1. pc'[t] \notin {"copy", "done", "dirty"}
      BY <1>3, Zenon
    <2>2. op'[t] = op[t] /\ buf'[t] = buf[t]
      BY <1>a, Zenon
    <2> QED BY <1>k, <2>1, <2>2, Zenon DEF BufferOK
  <1>7. PairsOK'
    <2>1. \A u \in Threads \ {t} : Unmarked(u)' => page'[u] # NextPage
      BY <1>n, <1>3, SMTT(30) DEF Others, SameThread, Unmarked
    <2>2. PairsOK
      BY Zenon DEF CacheInv
    <2>3. \A u \in Threads : block'[u] = block[u]
      BY <1>a, Zenon
    <2>4. \A u \in Threads \ {t} : Unmarked(u)' = Unmarked(u) /\ page'[u] = page[u]
      BY <1>3, Zenon DEF Others, SameThread, Unmarked
    <2> QED BY <1>3, <2>1, <2>2, <2>3, <2>4, ZenonT(30) DEF PairsOK
  <1>8. BlockOK(b)'
    <2>1. block_bitmap'[b] = 1
      BY <1>a, <1>k, Zenon
    <2> QED BY <2>1, MarkNoPage, Zenon DEF BlockOK
  <1>9. ContentOK(b)'
    <2>1. Unwritten(b)' => Unwritten(b)
      BY <1>a, Zenon DEF Unwritten
    <2>2. /\ block_bitmap'[b] = 1 /\ block_bitmap[b] = 1
          /\ Used(b)' = Used(b) /\ mounted' = mounted
          /\ Clean(b)' = Clean(b)
      BY <1>a, <1>k, Zenon DEF Used, Clean
    <2> QED BY <1>k, <2>1, <2>2, MarkNoPage, Zenon DEF ContentOK
  <1>10. ASSUME NEW i \in Pages PROVE PageOK(i)'
    <2>1. ~wrapped' /\ cache_bitmap[i] # 0 => i <= NextPage
      BY <1>n, <1>k, Behind, CacheAssumption, SMTT(30) DEF Pages
    <2> QED BY <1>a, <1>n, <2>1, Zenon DEF CacheInv, PageOK
  <1>11. AgeOK'
    <2> SUFFICES ASSUME ~wrapped' PROVE AgeOK'
      BY Zenon DEF AgeOK
    <2>1. AgeOK /\ ~wrapped /\ mounted
      BY <1>n, <1>k, Zenon DEF CacheInv
    <2>2. \A i \in Pages : cache_bitmap[i] = b => i <= NextPage
      BY <1>n, <1>k, <2>1, Behind, CacheAssumption DEF Pages
    <2>3. \A u \in Threads \ {t} : Holds(u)' => Holds(u) /\ SameThread(u)
      BY <1>3, Zenon DEF Others, SameThread, Holds
    <2> QED BY <1>a, <1>3, <2>1, <2>2, <2>3 DEF AgeOK, SameThread, Used
  <1> QED BY <1>1, <1>2, <1>4, <1>5, <1>6, <1>7, <1>8, <1>9, <1>10, <1>11, LocalInv, ZenonT(30)

\* Only a dirty page is written back, and then its block has a dirty page still:
\* whatever the page is, the block is as current as it was.
LEMMA flush_cacheInv ==
    ASSUME CacheInv, NEW t \in Threads, flush_cache(t)
    PROVE  CacheInv'
  <1>a. /\ pc[t] = "getpage" /\ cache_bitmap[NextPage] # 0 /\ mutex' = t
        /\ disk' = IF dirty_flag[NextPage] = 0 THEN disk
                   ELSE [disk EXCEPT ![cache_bitmap[NextPage]] = cache[NextPage]]
        /\ pc' = [pc EXCEPT ![t] = "relock"]
        /\ UNCHANGED <<block_bitmap, cache_bitmap, dirty_flag, cache, mounted, locals,
                       kind, latest>>
    BY Zenon DEF flush_cache, Move
  <1>n. /\ last_cache_index' = NextPage /\ NextPage \in Pages
        /\ wrapped' \in BOOLEAN
        /\ \A u \in Threads : Unmarked(u) => page[u] <= NextPage /\ page[u] # NextPage
        /\ ~wrapped' => ~wrapped /\ NextPage = last_cache_index + 1
    BY Turned, Zenon DEF flush_cache
  <1> USE DEF locals
  <1>k. TypeOK /\ ControlOK /\ ThreadOK(t) /\ mounted /\ PageOK(NextPage)
    BY <1>a, <1>n, ZenonT(30) DEF CacheInv, ThreadOK
  <1>1. TypeOK'
    BY <1>a, <1>n, <1>k, CacheAssumption DEF TypeOK, PageOK, Pages
  <1>2. ControlOK'
    BY <1>a, <1>k, Zenon DEF ControlOK, Labels
  <1>3. \A u \in Threads : pc'[u] = pc[u] \/ (u = t /\ pc'[u] = "relock")
    BY <1>a, <1>k, Zenon DEF ControlOK
  <1>4. \A u \in Threads : /\ Holds(u)' <=> Holds(u)
                           /\ Unmarked(u)' <=> Unmarked(u)
                           /\ Unmapped(u)' <=> Unmapped(u)
    BY <1>a, <1>3, Zenon DEF Holds, Unmarked, Unmapped
  <1>5. ASSUME NEW u \in Threads PROVE ThreadOK(u)'
    <2>1. ThreadOK(u)
      BY Zenon DEF CacheInv
    <2>2. Unmarked(u) => page[u] <= last_cache_index'
      BY <1>n, Zenon
    <2> QED BY <1>a, <1>3, <1>4, <2>1, <2>2, Zenon DEF ThreadOK, Used
  <1>6. \A u \in Threads : BufferOK(u)'
    BY <1>a, <1>3, ZenonT(30) DEF CacheInv, BufferOK
  <1>7. PairsOK'
    BY <1>a, <1>4, Zenon DEF CacheInv, PairsOK
  <1>8. \A b \in Blocks : BlockOK(b)'
    BY <1>a, <1>4, Zenon DEF CacheInv, BlockOK, Used
  <1>9. ASSUME NEW b \in Blocks PROVE ContentOK(b)'
    <2>1. ContentOK(b)
      BY Zenon DEF CacheInv
    <2>2. (Unwritten(b)' <=> Unwritten(b)) /\ (Loaded(b)' <=> Loaded(b))
      BY <1>a, <1>3, Zenon DEF Unwritten, Loaded
    <2>3. Clean(b) => Clean(b)'
      BY <1>a, <1>n, <1>k, Zenon DEF Clean, TypeOK
    <2> QED BY <1>a, <2>1, <2>2, <2>3, Zenon DEF ContentOK, Used
  <1>10. ASSUME NEW i \in Pages PROVE PageOK(i)'
    <2>1. ~wrapped' /\ cache_bitmap[i] # 0 => i <= NextPage
      BY <1>n, <1>k, Behind, CacheAssumption DEF Pages
    <2> QED BY <1>a, <1>n, <2>1, ZenonT(30) DEF CacheInv, PageOK
  <1>11. AgeOK'
    BY <1>a, <1>n, <1>4, Zenon DEF CacheInv, AgeOK, Used
  <1>12. Unmounted'
    BY <1>a, <1>k, Zenon DEF Unmounted
  <1> QED BY <1>1, <1>2, <1>5, <1>6, <1>7, <1>8, <1>9, <1>10, <1>11, <1>12, ZenonT(30)
             DEF CacheInv

-----------------------------------------------------------------------------

\* A set of pages has a highest one.
LEMMA Highest ==
    ASSUME NEW D \in SUBSET Pages, D # {}
    PROVE  \E i \in D : \A j \in D : j <= i
  <1> DEFINE R == OpToRel(<, Nat)
             T == {n \in Nat : CACHE_PAGES - n \in D}
  <1>1. IsWellFoundedOn(R, Nat)
    BY NatLessThanWellFounded, Zenon
  <1>2. \A x, y \in Nat : y < x => <<y, x>> \in R
    BY Zenon DEF OpToRel
  <1>3. \A i \in D : i \in Nat /\ CACHE_PAGES - i \in Nat /\ CACHE_PAGES - (CACHE_PAGES - i) = i
    BY CacheAssumption DEF Pages
  <1>4. \A i \in D : CACHE_PAGES - i \in T
    BY <1>3, Zenon
  <1>5. T \subseteq Nat /\ T # {}
    BY <1>4, Zenon
  <1>6. PICK x \in T : \A y \in T : ~ (<<y, x>> \in R)
    <2> HIDE DEF T, R
    <2> QED BY <1>1, <1>5, WFMin, Zenon
  <1> HIDE DEF R
  <1>7. ASSUME NEW j \in D PROVE j <= CACHE_PAGES - x
    <2>1. ~(CACHE_PAGES - j < x)
      BY <1>2, <1>4, <1>6, Zenon
    <2> QED BY <1>3, <2>1, CacheAssumption
  <1> QED BY <1>7, Zenon


\* Before the counter wraps cache_sync leaves the page of a block on disk, not one
\* that the block has left behind.
LEMMA objstore_destroyInv == CacheInv /\ objstore_destroy => CacheInv'
  <1> SUFFICES ASSUME CacheInv, objstore_destroy PROVE CacheInv'
    BY Zenon
  <1>a. /\ mounted /\ ~wrapped /\ mounted' = FALSE
        /\ \A t \in Threads : pc[t] = "idle"
        /\ UNCHANGED <<cache_bitmap, dirty_flag, cache, counter, mutex, pc, locals, kind,
                       latest>>
    BY Zenon DEF objstore_destroy
  <1>k. TypeOK /\ ControlOK /\ \A t \in Threads : block[t] = 0
    BY <1>a, Zenon DEF CacheInv, ThreadOK
  <1>s. ASSUME NEW b \in Blocks
        PROVE  /\ DirtyPages(b) = {} => disk'[b] = disk[b]
               /\ DirtyPages(b) # {} => \E i \in DirtyPages(b) :
                      (\A j \in DirtyPages(b) : j <= i) /\ disk'[b] = cache[i]
               /\ block_bitmap'[b] = IF Caching(b) = {} THEN block_bitmap[b] ELSE 1
    <2>1. DirtyPages(b) # {} => \E i \in DirtyPages(b) : \A j \in DirtyPages(b) : j <= i
      BY Highest, Zenon DEF DirtyPages, Caching
    <2>2. /\ disk'[b] = IF DirtyPages(b) = {} THEN disk[b]
                        ELSE cache[CHOOSE i \in DirtyPages(b) : \A j \in DirtyPages(b) : j <= i]
          /\ block_bitmap'[b] = IF Caching(b) = {} THEN block_bitmap[b] ELSE 1
      BY Zenon DEF objstore_destroy, cache_sync
    <2> HIDE DEF DirtyPages
    <2> QED BY <2>1, <2>2, Zenon
  <1>1. TypeOK'
    <2>1. \A b \in Blocks : disk'[b] \in Values /\ block_bitmap'[b] \in {0, 1} \cup Pages
      BY <1>s, <1>k DEF CacheInv, TypeOK, PageOK, DirtyPages, Caching
    <2>2. disk' \in [Blocks -> Values] /\ block_bitmap' \in [Blocks -> {0, 1} \cup Pages]
      BY <2>1, Zenon DEF objstore_destroy, cache_sync
    <2>3. mounted' \in BOOLEAN /\ wrapped' \in BOOLEAN
      BY <1>a, <1>k, Zenon DEF TypeOK, counter
    <2> QED BY <1>a, <1>k, <2>2, <2>3, ZenonT(30) DEF TypeOK, counter, locals
  <1>2. ControlOK'
    BY <1>a, <1>k, ZenonT(30) DEF ControlOK, locals
  <1>3. /\ \A t \in Threads : ThreadOK(t)' /\ BufferOK(t)'
        /\ PairsOK'
    BY <1>a, <1>k DEF CacheInv, ThreadOK, BufferOK, PairsOK, Holds, Unmarked, Unmapped,
       locals
  <1>4. ASSUME NEW b \in Blocks, Used(b) PROVE block_bitmap'[b] = 1
    <2>1. BlockOK(b) /\ b # 0
      BY CacheAssumption, ZenonT(30) DEF CacheInv
    <2>2. block_bitmap[b] = 1 \/ block_bitmap[b] \in Caching(b)
      BY <1>a, <1>k, <1>4, <2>1, CacheAssumption DEF TypeOK, BlockOK, Caching, Pages
    <2> QED BY <1>s, <2>2, Zenon
  <1>5. ASSUME NEW b \in Blocks, Used(b) PROVE disk'[b] = latest[b]
    <2>1. ContentOK(b) /\ AgeOK /\ b # 0
      BY CacheAssumption, Zenon DEF CacheInv
    <2>2. Unwritten(b) /\ Loaded(b)
      BY <1>k, <2>1 DEF Unwritten, Loaded
    <2>3. CASE Clean(b)
      <3>1. DirtyPages(b) = {}
        BY <2>3, Zenon DEF DirtyPages, Caching, Clean
      <3> QED BY <1>s, <2>3, <3>1, Zenon DEF Clean
    <2>4. CASE ~Clean(b)
      <3>1. /\ block_bitmap[b] > 1 /\ block_bitmap[b] \in Pages
            /\ dirty_flag[block_bitmap[b]] = 1 /\ cache[block_bitmap[b]] = latest[b]
        <4>1. /\ block_bitmap[b] > 1 /\ block_bitmap[b] \in {0, 1} \cup Pages
              /\ dirty_flag[block_bitmap[b]] = 1 /\ cache[block_bitmap[b]] = latest[b]
          BY <1>a, <1>k, <1>5, <2>1, <2>2, <2>4, ZenonT(30) DEF ContentOK, TypeOK
        <4> QED BY <4>1
      <3>2. block_bitmap[b] \in DirtyPages(b)
        <4>1. BlockOK(b) /\ \A t \in Threads : block[t] # b
          BY <1>k, <1>5, <2>1, Zenon DEF CacheInv
        <4>2. cache_bitmap[block_bitmap[b]] = b
          BY <1>a, <1>5, <3>1, <4>1, Zenon DEF BlockOK
        <4> QED BY <3>1, <4>2, MarkNoPage, Zenon DEF DirtyPages, Caching
      <3>3. \A j \in DirtyPages(b) : j \in Int /\ j <= block_bitmap[b]
        BY <1>a, <1>5, <2>1, <3>1, CacheAssumption DEF AgeOK, DirtyPages, Caching, Pages
      <3>4. PICK i \in DirtyPages(b) : (\A j \in DirtyPages(b) : j <= i) /\ disk'[b] = cache[i]
        BY <1>s, <3>2, Zenon
      <3>5. i = block_bitmap[b]
        BY <3>2, <3>3, <3>4, SMTT(30)
      <3> QED BY <3>1, <3>4, <3>5, ZenonT(30)
    <2> QED BY <2>3, <2>4, Zenon
  <1>6. \A b \in Blocks : BlockOK(b)' /\ ContentOK(b)'
    BY <1>a, <1>4 DEF BlockOK, ContentOK, Used
  <1>7. (\A i \in Pages : PageOK(i)') /\ AgeOK'
    BY <1>a, Zenon DEF CacheInv, PageOK, AgeOK
  <1>8. Unmounted'
    BY <1>a, <1>4, <1>5, Zenon DEF Unmounted, Used
  <1> QED BY <1>1, <1>2, <1>3, <1>6, <1>7, <1>8, Zenon DEF CacheInv

\* Unmounting has left nothing that the lost cache would be needed for.
LEMMA objstore_initInv == CacheInv /\ objstore_init => CacheInv'
  <1> SUFFICES ASSUME CacheInv, objstore_init PROVE CacheInv'
    OBVIOUS
  <1> USE DEF objstore_init, locals
  <1>k. /\ TypeOK /\ ControlOK
        /\ \A t \in Threads : pc[t] = "idle" /\ block[t] = 0
        /\ \A b \in Blocks : Used(b) => block_bitmap[b] = 1 /\ disk[b] = latest[b]
    BY ZenonT(30) DEF CacheInv, ThreadOK, Unmounted
  <1>1. TypeOK'
    <2>1. mounted' \in BOOLEAN /\ wrapped' \in BOOLEAN
      BY Zenon
    <2> QED BY <1>k, <2>1, CacheAssumption DEF TypeOK
  <1>2. ControlOK'
    BY <1>k, ZenonT(30) DEF ControlOK
  <1>3. /\ \A t \in Threads : ThreadOK(t)' /\ BufferOK(t)'
        /\ PairsOK'
    BY <1>k, ZenonT(60) DEF CacheInv, ThreadOK, BufferOK, PairsOK, Holds, Unmarked, Unmapped
  <1>4. \A b \in Blocks : BlockOK(b)' /\ ContentOK(b)'
    BY <1>k, CacheAssumption DEF BlockOK, ContentOK, Clean, Used
  <1>5. \A i \in Pages : PageOK(i)'
    BY DEF PageOK
  <1>6. AgeOK'
    BY <1>k, CacheAssumption, Zenon DEF AgeOK, Holds
  <1>7. Unmounted'
    BY Zenon DEF Unmounted
  <1> QED BY <1>1, <1>2, <1>3, <1>4, <1>5, <1>6, <1>7, ZenonT(30) DEF CacheInv

\* A step that changes nothing keeps the invariant.
LEMMA CacheStutter == CacheInv /\ UNCHANGED vars => CacheInv'
  <1> SUFFICES ASSUME CacheInv, UNCHANGED vars PROVE CacheInv'
    BY Zenon
  <1> USE DEF vars, store, counter, locals
  <1>1. TypeOK' /\ ControlOK'
    BY ZenonT(30) DEF CacheInv, TypeOK, ControlOK
  <1>2. /\ \A t \in Threads : ThreadOK(t)' /\ BufferOK(t)'
        /\ PairsOK'
    BY SMTT(30) DEF CacheInv, ThreadOK, BufferOK, PairsOK, Holds, Unmarked, Unmapped, Used
  <1>3. \A b \in Blocks : BlockOK(b)'
    <2>1. \A t \in Threads : Unmarked(t)' = Unmarked(t)
      BY Zenon DEF Unmarked
    <2>2. \A b \in Blocks : Used(b)' = Used(b)
      BY Zenon DEF Used
    <2> QED BY <2>1, <2>2, Zenon DEF CacheInv, BlockOK
  <1>4. \A b \in Blocks : ContentOK(b)'
    BY Zenon DEF CacheInv, ContentOK, Clean, Unwritten, Loaded, Used
  <1>5. (\A i \in Pages : PageOK(i)') /\ AgeOK' /\ Unmounted'
    BY Zenon DEF CacheInv, PageOK, AgeOK, Unmounted, Holds, Used
  <1> QED BY <1>1, <1>2, <1>3, <1>4, <1>5, Zenon DEF CacheInv

\* The inductive invariant holds of every behaviour.
THEOREM CacheInvariant == Spec => []CacheInv
  <1>1. CacheInv /\ [Next]_vars => CacheInv'
    <2> SUFFICES ASSUME CacheInv, [Next]_vars PROVE CacheInv'
      BY Zenon
    <2>1. ASSUME NEW t \in Threads, Client(t) PROVE CacheInv'
      BY <2>1, AccessInv, get_new_datablockInv, free_data_blockInv, Zenon DEF Client
    <2>2. ASSUME NEW t \in Threads, Step(t) PROVE CacheInv'
      BY Zenon, <2>2, LookInv, get_free_cache_pageInv, flush_cacheInv, SetCacheBitmapInv,
         SetBlockBitmapInv, LoadBlockInv, CopyToPageInv, ReadHitInv, ReadReturnInv,
         WriteFillInv, WriteDirtyInv DEF Step
    <2> QED BY <2>1, <2>2, objstore_destroyInv, objstore_initInv, CacheStutter, Zenon
               DEF Next
  <1> QED BY <1>1, CacheInit, PTL DEF Spec

\* Every variable has its type; in particular a page handed out is never 0 or 1,
\* and what is on disk is always data, never an unfilled page.
THEOREM TypeCorrect == Spec => []TypeOK
  <1>1. CacheInv => TypeOK
    BY Zenon DEF CacheInv
  <1> QED BY <1>1, CacheInvariant, PTL

\* read_cached returns what was last written to the block.
THEOREM ReadsCurrent == Spec => []ReadsLatest
  <1>1. CacheInv => ReadsLatest
    BY Zenon DEF CacheInv, ThreadOK, BufferOK, ReadsLatest
  <1> QED BY <1>1, CacheInvariant, PTL

\* Two blocks in use never have the same page.
THEOREM PagesNeverShared == Spec => []PagesUnshared
  <1>1. CacheInv => PagesUnshared
    <2> SUFFICES ASSUME CacheInv, NEW b \in Blocks, NEW c \in Blocks, Used(b), Used(c),
                        block_bitmap[b] > 1, block_bitmap[b] = block_bitmap[c]
                 PROVE  b = c
      BY Zenon DEF PagesUnshared, Used
    <2>1. mounted
      BY DEF CacheInv, Unmounted
    <2> QED BY <2>1, BlocksApart, Zenon
  <1> QED BY <1>1, CacheInvariant, PTL

\* After unmount every block in use is on disk in its last version, and none
\* refers to a page.
THEOREM UnmountSavesAll == Spec => []UnmountSaves
  <1>1. CacheInv => UnmountSaves
    BY Zenon DEF CacheInv, Unmounted, UnmountSaves, Used
  <1> QED BY <1>1, CacheInvariant, PTL

=============================================================================
