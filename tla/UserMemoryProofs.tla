-------------------------- MODULE UserMemoryProofs --------------------------
(***************************************************************************)
(* UserMemory for any segment sizes, frames and TLB: the inductive         *)
(* invariant, the steps of the process and of the handlers, and that they  *)
(* implement AddressSpace.                                                 *)
(***************************************************************************)
EXTENDS UserMemory, PageTableProofs

\* The tables of the process are all the tables that are not free, and they lead to
\* all the pages that are not free.
LEMMA ProcessHasAll ==
    ASSUME MapOK(Memory, pgd)
    PROVE  /\ ProcessTables = OS_PT_REG \ free
           /\ ProcessFrames = (OS_PT_REG \cup USER_REG) \ free
           /\ free \subseteq OS_PT_REG \cup USER_REG
           /\ 0 \notin ProcessTables
  <1> DEFINE own == OS_PT_REG \ free
             data == USER_REG \ free
  <1>1. PICK lev : Tree(Memory, pgd, {}, lev)
    BY Zenon DEF MapOK, HasTree
  <1>2. Memory.mem = mem /\ Memory.free = free /\ Memory \in Memories
    BY DEF Memory, MapOK
  <1>3. /\ lev \in [own -> 1 .. 4] /\ pgd \in own /\ lev[pgd] = 4
        /\ \A t \in own, i \in Idx :
              mem[t][i].pfn # 0 =>
                 IF lev[t] = 1 THEN mem[t][i].pfn \in data
                 ELSE mem[t][i].pfn \in own /\ lev[mem[t][i].pfn] = lev[t] - 1
        /\ \A f \in (own \ {pgd}) \cup data : \E t \in own, i \in Idx : mem[t][i].pfn = f
    <2>1. Own(Memory, {}) = own /\ Data(Memory, {}) = data
      BY <1>2, OwnAll, Zenon
    <2> HIDE DEF own, data
    <2>2. /\ lev \in [own -> 1 .. 4] /\ pgd \in own /\ lev[pgd] = 4
          /\ Leads(mem, own, data, lev) /\ Reached(mem, own, data, pgd)
      BY <1>1, <1>2, <2>1, Zenon DEF Tree
    <2> QED BY <2>2, Zenon DEF Leads, Reached
  <1>4. 0 \notin own /\ 0 \notin data /\ own \cap data = {} /\ free \subseteq OS_PT_REG \cup USER_REG
    BY <1>2, LayoutAssumption, Zenon DEF Memories
  <1>5. \A ts, f : f \in Targets(ts) <=> f # 0 /\ \E t \in ts, i \in Idx : mem[t][i].pfn = f
    BY DEF Targets, Idx
  <1>6. own \cup data = (OS_PT_REG \cup USER_REG) \ free
    OBVIOUS
  <1> HIDE DEF own, data
  <1>7. \A t \in own, i \in Idx :
           mem[t][i].pfn # 0 /\ lev[t] # 1 =>
              mem[t][i].pfn \in own /\ lev[mem[t][i].pfn] = lev[t] - 1
    BY <1>3, Zenon
  <1>8. \A f \in own \ {pgd} : \E t \in own, i \in Idx :
           mem[t][i].pfn = f /\ lev[t] # 1 /\ lev[f] = lev[t] - 1
    BY <1>3, <1>4
  <1>9. \A t \in own : lev[t] \in 1 .. 4
    BY <1>3, Zenon
  <1>10. \A t \in own : lev[t] = 4 => t = pgd
    BY <1>8, <1>9
  <1> DEFINE l3 == Targets({pgd})
             l2 == Targets(l3)
             l1 == Targets(l2)
  <1>11. \A f : f \in l3 <=> f \in own /\ lev[f] = 3
    <2>1. \A f : f \in l3 => f \in own /\ lev[f] = 3
      BY <1>3, <1>5, <1>7
    <2>2. \A f \in own : lev[f] = 3 => \E i \in Idx : mem[pgd][i].pfn = f
      BY <1>3, <1>8, <1>9, <1>10
    <2> QED BY <1>4, <1>5, <2>1, <2>2, ZenonT(30)
  <1> HIDE DEF l3
  <1>12. \A f : f \in l2 <=> f \in own /\ lev[f] = 2
    <2>1. \A f : f \in l2 => f \in own /\ lev[f] = 2
      BY <1>5, <1>7, <1>11
    <2>2. \A f \in own : lev[f] = 2 => \E t \in own, i \in Idx : lev[t] = 3 /\ mem[t][i].pfn = f
      BY <1>3, <1>8, <1>9
    <2> QED BY <1>4, <1>5, <1>11, <2>1, <2>2
  <1> HIDE DEF l2
  <1>13. \A f : f \in l1 <=> f \in own /\ lev[f] = 1
    <2>1. \A f : f \in l1 => f \in own /\ lev[f] = 1
      BY <1>5, <1>7, <1>12
    <2>2. \A f \in own : lev[f] = 1 => \E t \in own, i \in Idx : lev[t] = 2 /\ mem[t][i].pfn = f
      BY <1>3, <1>8, <1>9
    <2> QED BY <1>4, <1>5, <1>12, <2>1, <2>2
  <1>14. ProcessTables = own
    <2>1. ProcessTables = {pgd} \cup l3 \cup l2 \cup l1
      BY Zenon DEF ProcessTables, l3, l2
    <2> HIDE DEF l1
    <2>2. \A f : f \in {pgd} \cup l3 \cup l2 \cup l1 <=> f \in own
      <3>1. \A f \in own : lev[f] = 4 \/ lev[f] = 3 \/ lev[f] = 2 \/ lev[f] = 1
        BY <1>9
      <3> QED BY <1>3, <1>10, <1>11, <1>12, <1>13, <3>1, ZenonT(30)
    <2> QED BY <2>1, <2>2
  <1>15. ProcessFrames = own \cup data
    <2>1. \A f : f \in Targets(own) => f \in own \cup data
      BY <1>3, <1>5
    <2>2. \A f \in data : f \in Targets(own)
      BY <1>3, <1>4, <1>5, Zenon
    <2>3. ProcessFrames = own \cup Targets(own)
      BY <1>14, Zenon DEF ProcessFrames
    <2> QED BY <2>1, <2>2, <2>3
  <1> QED BY <1>4, <1>6, <1>14, <1>15, Zenon DEF own

\* Nothing is mapped without a process.
LEMMA IdleFrames ==
    ASSUME NEW mm, mm[0] = initialize_page, NEW p \in Pages
    PROVE  Leaf(mm, 0, Addr(p)).pfn = 0
  <1>1. \A i \in Idx : mm[0][i].pfn = 0
    BY EntryFields, Zenon
  <1>2. Addr(p)[1] \in Idx /\ Addr(p)[2] \in Idx /\ Addr(p)[3] \in Idx /\ Addr(p)[4] \in Idx
    BY AddrInjective, AddressParts, Zenon
  <1>3. L3(mm, 0, Addr(p)) = 0
    BY <1>1, <1>2, Zenon DEF L3
  <1>4. L2(mm, 0, Addr(p)) = 0
    BY <1>1, <1>2, <1>3, Zenon DEF L2
  <1>5. L1(mm, 0, Addr(p)) = 0
    BY <1>1, <1>2, <1>4, Zenon DEF L1
  <1>6. Leaf(mm, 0, Addr(p)) = mm[L1(mm, 0, Addr(p))][Addr(p)[4]]
    BY WalkIs
  <1> QED BY <1>1, <1>2, <1>5, <1>6, Zenon

-----------------------------------------------------------------------------

FrameOf(m, top, p) == Leaf(m.mem, top, Addr(p)).pfn

\* Without a process all memory is free and nothing is mapped.
MemOK(m, top) ==
    /\ m \in Memories
    /\ IF top = 0
       THEN m.free = OS_PT_REG \cup USER_REG /\ m.mem[0] = initialize_page
       ELSE MapOK(m, top) /\ m.mem[top][0].pfn # 0

\* What is mapped is below next_free.
Bounded(m, top, nf) ==
    /\ nf \in [Growing -> Nat]
    /\ \A s \in Growing : nf[s] <= PAGES[s]
    /\ \A p \in Pages : FrameOf(m, top, p) # 0 /\ p[1] \in Growing => p[2] < nf[p[1]]

\* What is cached is in the tables.
Coherent(m, top, tl) ==
    /\ tl \in [Pages -> PTE]
    /\ \A p \in Pages : \/ tl[p] = Absent
                        \/ /\ tl[p].pfn # 0 /\ tl[p].pfn = FrameOf(m, top, p)
                           /\ tl[p].w = CanWrite(p[1])

AccessOK(top, ac) ==
    /\ ac \in [page : Pages, write : BOOLEAN] \cup {NoAccess}
    /\ top = 0 => ac = NoAccess

\* The inductive invariant.
MemoryInv ==
    /\ MemOK(Memory, pgd)
    /\ Bounded(Memory, pgd, next_free)
    /\ Coherent(Memory, pgd, tlb)
    /\ AccessOK(pgd, access)

\* The memory after a step.
LEMMA MemoryIs ==
    /\ Memory.mem = mem /\ Memory.free = free
    /\ (Memory').mem = mem' /\ (Memory').free = free'
    /\ Memory' = [mem |-> mem', free |-> free']
BY DEF Memory

\* The initial state.
LEMMA InitInv ==
    ASSUME MemoryInit
    PROVE  MemoryInv
  <1>1. /\ mem = [f \in OS_PT_REG \cup {0} |-> initialize_page]
        /\ free = OS_PT_REG \cup USER_REG /\ pgd = 0
        /\ next_free = [s \in Growing |-> 0]
        /\ tlb = [p \in Pages |-> Absent] /\ access = NoAccess
    BY DEF MemoryInit, EmptyTLB
  <1>2. mem \in [OS_PT_REG \cup {0} -> [Idx -> PTE]] /\ mem[0] = initialize_page
    <2>1. initialize_page \in [Idx -> PTE] /\ 0 \in OS_PT_REG \cup {0}
      BY EntryFields, Zenon
    <2> QED BY <1>1, <2>1, Zenon
  <1>3. Memory \in Memories
    BY <1>1, <1>2 DEF Memory, Memories
  <1>4. MemOK(Memory, pgd)
    BY <1>1, <1>2, <1>3, MemoryIs, Zenon DEF MemOK
  <1>5. \A p \in Pages : FrameOf(Memory, pgd, p) = 0
    BY <1>1, <1>2, IdleFrames, MemoryIs, Zenon DEF FrameOf
  <1>6. Bounded(Memory, pgd, next_free)
    <2>1. \A s \in Growing : PAGES[s] \in Nat
      BY LayoutAssumption DEF Growing
    <2>2. /\ next_free \in [Growing -> Nat] /\ \A s \in Growing : next_free[s] <= PAGES[s]
      BY <1>1, <2>1
    <2> QED BY <1>5, <2>2, Zenon DEF Bounded
  <1>7. Coherent(Memory, pgd, tlb)
    BY <1>1, EntryFields, Zenon DEF Coherent
  <1>8. AccessOK(pgd, access)
    BY <1>1, Zenon DEF AccessOK
  <1> QED BY <1>4, <1>6, <1>7, <1>8, Zenon DEF MemoryInv

\* The parts of the invariant after a step.
LEMMA InvNext ==
    ASSUME MemOK(Memory', pgd'), Bounded(Memory', pgd', next_free'),
           Coherent(Memory', pgd', tlb'), AccessOK(pgd', access')
    PROVE  MemoryInv'
BY DEF MemoryInv

\* A step that leaves the tables alone keeps the frames.
LEMMA SameTables ==
    ASSUME UNCHANGED <<mem, free, pgd>>
    PROVE  Memory' = Memory /\ Frames' = Frames /\ Unused' = Unused /\ Alive' = Alive
BY DEF Memory, Frames, Unused, Alive

\* The address space has the same layout.
LEMMA SpaceIs ==
    Space!Pages = Pages /\ Space!Growing = Growing
BY DEF Space!Pages, Space!Segments, Space!Growing, Pages, Segments, Growing

\* A process, or one of its instructions.
LEMMA AliveParts ==
    ASSUME MemoryInv, pgd # 0
    PROVE  /\ MapOK(Memory, pgd) /\ mem[pgd][0].pfn # 0
           /\ access # NoAccess => access.page \in Pages /\ access.write \in BOOLEAN
  <1>1. access # NoAccess => access \in [page : Pages, write : BOOLEAN]
    BY Zenon DEF MemoryInv, AccessOK
  <1>2. access # NoAccess => access.page \in Pages /\ access.write \in BOOLEAN
    BY <1>1
  <1> QED BY <1>2, MemoryIs, Zenon DEF MemoryInv, MemOK

\* Beginning an instruction.
LEMMA IssueStep ==
    ASSUME MemoryInv, NEW p \in Pages, NEW write \in BOOLEAN, Issue(p, write)
    PROVE  MemoryInv' /\ UNCHANGED Space!spaceVars
  <1>1. /\ pgd # 0 /\ access' = [page |-> p, write |-> write]
        /\ UNCHANGED <<mem, free, pgd, next_free, tlb>>
    BY DEF Issue
  <1>2. Memory' = Memory /\ Frames' = Frames /\ Unused' = Unused /\ Alive' = Alive
    BY <1>1, SameTables
  <1>3. access' \in [page : Pages, write : BOOLEAN]
    BY <1>1
  <1>4. AccessOK(pgd', access')
    BY <1>1, <1>3, Zenon DEF AccessOK
  <1>5. MemoryInv'
    BY <1>1, <1>2, <1>4, InvNext DEF MemoryInv
  <1>6. UNCHANGED Space!spaceVars
    BY <1>1, <1>2 DEF Space!spaceVars, Cached
  <1> QED BY <1>5, <1>6

\* Whatever the TLB learns and forgets, it agrees with the tables.
LEMMA CacheStep ==
    ASSUME MemoryInv, pgd # 0, NEW ps \in SUBSET Pages,
           \A p \in ps : Leaf(mem, pgd, Addr(p)).pfn # 0,
           Cache(ps) \/ UNCHANGED tlb, UNCHANGED <<mem, free, pgd, next_free>>,
           AccessOK(pgd', access')
    PROVE  MemoryInv' /\ Space!Access
  <1>1. Memory' = Memory /\ Frames' = Frames /\ Unused' = Unused /\ Alive' = Alive
    BY SameTables
  <1>2. MapOK(Memory, pgd) /\ Memory.mem = mem
    BY AliveParts, MemoryIs, Zenon
  <1>3. ASSUME NEW p \in ps
        PROVE  /\ Translation(p) \in PTE
               /\ Translation(p).pfn # 0 /\ Translation(p).pfn = FrameOf(Memory, pgd, p)
               /\ Translation(p).w = CanWrite(p[1])
    <2>1. p \in Pages /\ Leaf(mem, pgd, Addr(p)).pfn # 0
      BY Zenon
    <2>2. Writable(mem, pgd, Addr(p)) = CanWrite(p[1])
      BY <1>2, <2>1, WritableIs
    <2>3. CanWrite(p[1]) \in BOOLEAN
      BY DEF CanWrite
    <2>4. Leaf(mem, pgd, Addr(p)).pfn \in Nat
      BY <1>2, <2>1, PageWalk, LayoutAssumption, Zenon
    <2> QED BY <1>2, <2>1, <2>2, <2>3, <2>4, EntryFields, ZenonT(120) DEF Translation, FrameOf
  <1>4. Coherent(Memory, pgd, tlb)
    BY Zenon DEF MemoryInv
  <1>5. /\ tlb' \in [Pages -> PTE]
        /\ \A p \in Pages : tlb'[p] = Absent \/ tlb'[p] = tlb[p] \/ (p \in ps /\ tlb'[p] = Translation(p))
    <2>1. CASE UNCHANGED tlb
      BY <1>4, <2>1, Zenon DEF Coherent
    <2>2. CASE Cache(ps)
      <3>1. PICK keep : tlb' = [p \in Pages |-> IF p \notin keep THEN Absent
                                  ELSE IF p \in ps THEN Translation(p) ELSE tlb[p]]
        BY <2>2, Zenon DEF Cache
      <3>2. \A p \in Pages : tlb'[p] = Absent \/ tlb'[p] = tlb[p] \/ (p \in ps /\ tlb'[p] = Translation(p))
        BY <3>1, Zenon
      <3>3. \A p \in Pages : tlb'[p] \in PTE
        BY <1>3, <1>4, <3>2, EntryFields, ZenonT(30) DEF Coherent
      <3> QED BY <3>1, <3>2, <3>3, Zenon
    <2> QED BY <2>1, <2>2, Zenon
  <1>6. Coherent(Memory, pgd, tlb')
    BY <1>3, <1>4, <1>5, Zenon DEF Coherent
  <1>7. MemoryInv'
    BY <1>1, <1>6, InvNext DEF MemoryInv
  <1>8. Space!Access
    <2>1. \A p \in Pages : Frames[p] = FrameOf(Memory, pgd, p) /\ Cached[p] = tlb[p].pfn
      BY <1>2, Zenon DEF Frames, Cached, FrameOf
    <2>2. Cached' = [p \in Pages |-> tlb'[p].pfn]
      BY DEF Cached
    <2>3. \A p \in Pages : tlb'[p].pfn \in {Cached[p], Frames[p], 0}
      <3>1. \A p \in Pages : \/ tlb'[p].pfn = 0 \/ tlb'[p].pfn = Cached[p]
                             \/ tlb'[p].pfn = Frames[p]
        BY <1>3, <1>5, <2>1, EntryFields, ZenonT(30)
      <3> QED BY <3>1, Zenon
    <2>4. \A p \in Pages : tlb'[p].pfn \in USER_REG \cup {0}
      <3>1. \A p \in Pages : tlb'[p].pfn = 0 \/ tlb'[p].pfn = Leaf(mem, pgd, Addr(p)).pfn
        BY <1>2, <1>6, EntryFields, Zenon DEF Coherent, FrameOf
      <3>2. \A p \in Pages : Leaf(mem, pgd, Addr(p)).pfn \in USER_REG \cup {0}
        BY <1>2, PageWalk
      <3> QED BY <3>1, <3>2, Zenon
    <2>5. Cached' \in [Pages -> USER_REG \cup {0}] /\ \A p \in Pages : Cached'[p] \in {Cached[p], Frames[p], 0}
      BY <2>2, <2>3, <2>4, Zenon
    <2>6. Alive /\ next_free' = next_free
      BY DEF Alive
    <2> QED BY <1>1, <2>5, <2>6, SpaceIs, Zenon DEF Space!Access
  <1> QED BY <1>7, <1>8

\* An access goes through.
LEMMA PerformStep ==
    ASSUME MemoryInv, Perform
    PROVE  MemoryInv' /\ Space!Next
  <1> DEFINE p == access.page
  <1>1. /\ access # NoAccess
        /\ \/ UNCHANGED tlb
           \/ Allows(Translation(p)) /\ Cache({p})
        /\ access' = NoAccess
        /\ UNCHANGED <<mem, free, pgd, next_free>>
    BY DEF Perform
  <1>2. pgd # 0
    BY <1>1, Zenon DEF MemoryInv, AccessOK
  <1>3. p \in Pages
    BY <1>1, <1>2, AliveParts, Zenon
  <1>4. AccessOK(pgd', access')
    BY <1>1, Zenon DEF AccessOK
  <1>5. CASE UNCHANGED tlb
    <2>1. {} \in SUBSET Pages /\ \A q \in {} : Leaf(mem, pgd, Addr(q)).pfn # 0
      OBVIOUS
    <2>2. MemoryInv' /\ Space!Access
      BY <1>1, <1>2, <1>4, <1>5, <2>1, CacheStep, Zenon
    <2> QED BY <2>2 DEF Space!Next
  <1>6. CASE Allows(Translation(p)) /\ Cache({p})
    <2>1. Leaf(mem, pgd, Addr(p)).pfn # 0
      BY <1>6, EntryFields, Zenon DEF Allows, Translation
    <2>2. {p} \in SUBSET Pages /\ \A q \in {p} : Leaf(mem, pgd, Addr(q)).pfn # 0
      BY <1>3, <2>1, Zenon
    <2> HIDE DEF p
    <2>3. MemoryInv' /\ Space!Access
      BY <1>1, <1>2, <1>4, <1>6, <2>2, CacheStep
    <2> QED BY <2>3 DEF Space!Next
  <1> QED BY <1>1, <1>5, <1>6, Zenon

\* SYSCALL_WRITE reads its buffer.
LEMMA WriteStep ==
    ASSUME MemoryInv, NEW p \in Pages, NEW q \in Pages, syscall_write(p, q)
    PROVE  MemoryInv' /\ Space!Next
  <1>1. /\ pgd # 0 /\ Present(p) /\ Present(q) /\ Cache({p, q})
        /\ UNCHANGED <<mem, free, pgd, next_free, access>>
    BY Zenon DEF syscall_write
  <1>2. AccessOK(pgd', access')
    BY <1>1, Zenon DEF MemoryInv, AccessOK
  <1>3. {p, q} \in SUBSET Pages /\ \A r \in {p, q} : Leaf(mem, pgd, Addr(r)).pfn # 0
    BY <1>1, Zenon DEF Present, is_valid_virtual_addr
  <1>4. UNCHANGED <<mem, free, pgd, next_free>>
    BY <1>1
  <1>5. MemoryInv' /\ Space!Access
    BY <1>1, <1>2, <1>3, <1>4, CacheStep
  <1> QED BY <1>5 DEF Space!Next

\* The frames of the pages are those that are not free, one for each.
Exact(m, top) ==
    /\ \A p \in Pages : FrameOf(m, top, p) # 0 => FrameOf(m, top, p) \in USER_REG \ m.free
    /\ \A f \in USER_REG : f \in m.free <=> \A p \in Pages : FrameOf(m, top, p) # f
    /\ \A p, q \in Pages :
          FrameOf(m, top, p) # 0 /\ FrameOf(m, top, p) = FrameOf(m, top, q) => p = q

\* Tables in order map exactly what is not free.
LEMMA FramesExact ==
    ASSUME NEW m, NEW top, MapOK(m, top)
    PROVE  Exact(m, top)
  <1>1. \A p \in Pages : FrameOf(m, top, p) # 0 => FrameOf(m, top, p) \in USER_REG \ m.free
    BY PageWalk DEF FrameOf
  <1>2. \A f \in USER_REG : f # 0
    BY LayoutAssumption
  <1>3. \A f \in USER_REG \ m.free : \E p \in Pages : FrameOf(m, top, p) = f
    BY Zenon DEF MapOK, FrameOf
  <1>4. \A f \in USER_REG : f \in m.free <=> \A p \in Pages : FrameOf(m, top, p) # f
    BY <1>1, <1>2, <1>3, Zenon
  <1>5. \A p, q \in Pages : FrameOf(m, top, p) # 0 /\ FrameOf(m, top, p) = FrameOf(m, top, q) => p = q
    BY FrameUnique, Zenon DEF FrameOf
  <1> QED BY <1>1, <1>4, <1>5, ZenonT(30) DEF Exact

\* Loading a process.
LEMMA ExecStep ==
    ASSUME MemoryInv, exec_init
    PROVE  MemoryInv' /\ Space!Next
  <1> DEFINE code == <<"CODE", 0>>
             data == <<"DATA", 0>>
             stack == <<"STACK", PAGES["STACK"] - 1>>
  <1>1. /\ pgd = 0
        /\ next_free' = [s \in Growing |-> IF s = "DATA" THEN 1 ELSE 0]
        /\ tlb' = EmptyTLB /\ access' = access
    BY DEF exec_init
  <1>2. \E top, m0, m1, m2, n :
          /\ top = os_pfn_alloc(Memory, OS_PT_REG)
          /\ m0 = [mem |-> [Memory.mem EXCEPT ![top] = initialize_page], free |-> Memory.free \ {top}]
          /\ m1 = LoadPage(m0, top, code)
          /\ m2 = LoadPage(m1, top, data)
          /\ n = LoadPage(m2, top, stack)
          /\ \A m \in {Memory, m0, m1, m2} : FramesLeft(m)
          /\ mem' = n.mem /\ free' = n.free /\ pgd' = top
    <2> DEFINE top == os_pfn_alloc(Memory, OS_PT_REG)
               m0 == [mem |-> [mem EXCEPT ![top] = initialize_page], free |-> free \ {top}]
               m1 == LoadPage(m0, top, code)
               m2 == LoadPage(m1, top, data)
               n == LoadPage(m2, top, stack)
    <2>1. /\ \A m \in {Memory, m0, m1, m2} : FramesLeft(m)
          /\ mem' = n.mem /\ free' = n.free /\ pgd' = top
      BY DEF exec_init
    <2>2. m0 = [mem |-> [Memory.mem EXCEPT ![top] = initialize_page], free |-> Memory.free \ {top}]
      BY MemoryIs, Zenon
    <2> HIDE DEF m0
    <2>3. m1 = LoadPage(m0, top, code) /\ m2 = LoadPage(m1, top, data) /\ n = LoadPage(m2, top, stack)
      OBVIOUS
    <2> HIDE DEF m1, m2, n
    <2> QED BY <2>1, <2>2, <2>3, SMTT(30)
  <1>3. PICK top, m0, m1, m2, n :
          /\ top = os_pfn_alloc(Memory, OS_PT_REG)
          /\ m0 = [mem |-> [Memory.mem EXCEPT ![top] = initialize_page], free |-> Memory.free \ {top}]
          /\ m1 = LoadPage(m0, top, code)
          /\ m2 = LoadPage(m1, top, data)
          /\ n = LoadPage(m2, top, stack)
          /\ FramesLeft(Memory) /\ FramesLeft(m0) /\ FramesLeft(m1) /\ FramesLeft(m2)
          /\ mem' = n.mem /\ free' = n.free /\ pgd' = top
    BY <1>2, ZenonT(120)
  <1>4. /\ Memory \in Memories /\ Memory.free = OS_PT_REG \cup USER_REG
        /\ Memory.mem[0] = initialize_page
    BY <1>1, Zenon DEF MemoryInv, MemOK
  <1>5. Fresh(Memory, m0, top)
    BY <1>1, <1>3, <1>4, Zenon DEF Fresh
  <1>6. /\ MapOK(n, top) /\ n.mem[top][0].pfn # 0
        /\ \A p \in Pages : Leaf(n.mem, top, Addr(p)).pfn # 0 <=> p \in {code, data, stack}
        /\ {code, data, stack} \subseteq Pages
    <2>1. Loads(Memory, m0, m1, m2, n, top)
      BY <1>3, <1>5, Zenon DEF Loads
    <2>2. HasLoaded(n, top, {code, data, stack})
      BY <2>1, LoadOK, Zenon
    <2> QED BY <2>2, Zenon DEF HasLoaded
  <1>7. Memory' = n /\ n \in Memories
    <2>1. n \in Memories
      BY <1>6, Zenon DEF MapOK
    <2>2. n = [mem |-> n.mem, free |-> n.free]
      BY <2>1 DEF Memories
    <2> QED BY <1>3, <2>1, <2>2, MemoryIs, Zenon
  <1>8. top # 0
    <2>1. top \in OS_PT_REG
      BY <1>6, OwnAll DEF MapOK, HasTree, Tree
    <2> QED BY <2>1, LayoutAssumption, SMTT(30)
  <1>9. code[1] = "CODE" /\ data[1] = "DATA" /\ data[2] = 0 /\ stack[1] = "STACK"
    OBVIOUS
  <1>10. \A p \in Pages : FrameOf(n, top, p) # 0 <=> p \in {code, data, stack}
    BY <1>6, Zenon DEF FrameOf
  <1> HIDE DEF code, data, stack
  <1>11. MemOK(n, top)
    BY <1>6, <1>7, <1>8, ZenonT(30) DEF MemOK
  <1>12. Bounded(n, top, next_free')
    <2>1. \A s \in Growing : PAGES[s] \in Nat \ {0}
      BY LayoutAssumption DEF Growing
    <2>2. /\ next_free' \in [Growing -> Nat] /\ \A s \in Growing : next_free'[s] <= PAGES[s]
      BY <1>1, <2>1
    <2>3. \A p \in {code, data, stack} : p[1] \in Growing => p[2] < next_free'[p[1]]
      BY <1>1, <1>9 DEF Growing
    <2> QED BY <1>10, <2>2, <2>3, Zenon DEF Bounded
  <1>13. Coherent(n, top, tlb')
    BY <1>1, EntryFields, Zenon DEF Coherent, EmptyTLB
  <1>14. AccessOK(top, access')
    BY <1>1, <1>8, ZenonT(30) DEF MemoryInv, AccessOK
  <1>15. MemoryInv'
    BY <1>3, <1>7, <1>11, <1>12, <1>13, <1>14, InvNext, SMTT(30)
  <1>16. Space!Exec
    <2> DEFINE f == [p \in {code, data, stack} |-> FrameOf(n, top, p)]
    <2> Exact(n, top)
      BY <1>6, FramesExact, Zenon
    <2>1. Space!Loaded = {code, data, stack}
      BY DEF Space!Loaded, code, data, stack
    <2>2. \A p \in {code, data, stack} : f[p] = FrameOf(n, top, p) /\ FrameOf(n, top, p) \in USER_REG \ n.free
      BY <1>6, <1>10, Zenon DEF Exact
    <2>3. f \in [{code, data, stack} -> USER_REG]
      BY <2>2, Zenon
    <2>4. \A p, q \in {code, data, stack} : f[p] = f[q] => p = q
      BY <1>6, <1>10, <2>2, Zenon DEF Exact
    <2>5. Frames' = [p \in Pages |-> IF p \in {code, data, stack} THEN f[p] ELSE 0]
      <3>1. Frames' = [p \in Pages |-> FrameOf(n, top, p)]
        BY <1>3, Zenon DEF Frames, FrameOf
      <3>2. \A p \in Pages : FrameOf(n, top, p) = IF p \in {code, data, stack} THEN f[p] ELSE 0
        BY <1>10, <2>2, Zenon
      <3> HIDE DEF f
      <3> QED BY <3>1, <3>2, Zenon
    <2>6. Unused' = USER_REG \ {f[p] : p \in {code, data, stack}}
      <3>1. Unused' = n.free \cap USER_REG
        BY <1>3, Zenon DEF Unused
      <3>2. \A g \in USER_REG : g \in n.free <=> \A p \in {code, data, stack} : f[p] # g
        <4>1. \A g \in USER_REG : g # 0
          BY LayoutAssumption
        <4> QED BY <1>6, <1>10, <2>2, <4>1, ZenonT(30) DEF Exact
      <3> HIDE DEF f
      <3> QED BY <3>1, <3>2, Zenon
    <2>7. Cached' = Space!NoFrame
      BY <1>1, SpaceIs, EntryFields, ZenonT(30) DEF Cached, EmptyTLB, Space!NoFrame
    <2>8. Alive' = TRUE /\ ~Alive
      BY <1>1, <1>3, <1>8 DEF Alive
    <2> HIDE DEF f
    <2>9. Space!Load
      BY <1>1, <2>1, <2>3, <2>4, <2>5, <2>6, <2>7, <2>8, SpaceIs, ZenonT(30) DEF Space!Load
    <2> QED BY <2>8, <2>9, Zenon DEF Space!Exec
  <1> QED BY <1>15, <1>16, Zenon DEF Space!Next

\* Ending a process.
LEMMA ExitStep ==
    ASSUME MemoryInv, pgd # 0, do_exit
    PROVE  MemoryInv' /\ Space!Next
  <1>1. /\ mem' = [t \in DOMAIN mem |-> IF t \in ProcessTables THEN initialize_page ELSE mem[t]]
        /\ free' = free \cup ProcessFrames /\ pgd' = 0
        /\ next_free' = [s \in Growing |-> 0] /\ tlb' = EmptyTLB /\ access' = NoAccess
    BY Zenon DEF do_exit
  <1>2. MapOK(Memory, pgd)
    BY AliveParts, Zenon
  <1>3. /\ ProcessFrames = (OS_PT_REG \cup USER_REG) \ free
        /\ free \subseteq OS_PT_REG \cup USER_REG
        /\ 0 \notin ProcessTables
    BY <1>2, ProcessHasAll, Zenon
  <1>4. free' = OS_PT_REG \cup USER_REG
    BY <1>1, <1>3
  <1>5. mem \in [OS_PT_REG \cup {0} -> [Idx -> PTE]] /\ mem[0] = initialize_page
    <2>1. Memory \in Memories
      BY <1>2, Zenon DEF MapOK
    <2>2. Memory.mem[0] = initialize_page
      BY <1>2, Zenon DEF MapOK, HasTree, Tree
    <2> QED BY <2>1, <2>2, MemoryIs DEF Memories
  <1>6. mem' \in [OS_PT_REG \cup {0} -> [Idx -> PTE]] /\ mem'[0] = initialize_page
    <2>1. initialize_page \in [Idx -> PTE] /\ DOMAIN mem = OS_PT_REG \cup {0} /\ 0 \in OS_PT_REG \cup {0}
      BY <1>5, EntryFields, Zenon
    <2> QED BY <1>1, <1>3, <1>5, <2>1, Zenon
  <1>7. Memory' \in Memories
    BY <1>4, <1>6, MemoryIs DEF Memories
  <1>8. MemOK(Memory', pgd')
    BY <1>1, <1>4, <1>6, <1>7, MemoryIs, ZenonT(30) DEF MemOK
  <1>9. \A p \in Pages : FrameOf(Memory', pgd', p) = 0
    BY <1>1, <1>6, IdleFrames, MemoryIs, ZenonT(30) DEF FrameOf
  <1>10. Bounded(Memory', pgd', next_free')
    <2>1. \A s \in Growing : PAGES[s] \in Nat
      BY LayoutAssumption DEF Growing
    <2>2. /\ next_free' \in [Growing -> Nat] /\ \A s \in Growing : next_free'[s] <= PAGES[s]
      BY <1>1, <2>1
    <2> QED BY <1>9, <2>2, Zenon DEF Bounded
  <1>11. Coherent(Memory', pgd', tlb')
    BY <1>1, EntryFields, Zenon DEF Coherent, EmptyTLB
  <1>12. AccessOK(pgd', access')
    BY <1>1, Zenon DEF AccessOK
  <1>13. MemoryInv'
    BY <1>8, <1>10, <1>11, <1>12, InvNext
  <1>14. Space!Exit
    <2>1. Frames' = Space!NoFrame
      <3>1. Frames' = [p \in Pages |-> FrameOf(Memory', pgd', p)]
        BY MemoryIs, Zenon DEF Frames, FrameOf
      <3> QED BY <1>9, <3>1, SpaceIs, ZenonT(30) DEF Space!NoFrame
    <2>2. Cached' = Space!NoFrame
      BY <1>1, SpaceIs, EntryFields, Zenon DEF Cached, EmptyTLB, Space!NoFrame
    <2>3. Unused' = Unused \cup Space!InUse
      <3>1. \A p \in Pages : Frames[p] = FrameOf(Memory, pgd, p)
        BY MemoryIs, Zenon DEF Frames, FrameOf
      <3>2. \A g : g \in Space!InUse <=> \E p \in Pages : FrameOf(Memory, pgd, p) # 0 /\ g = FrameOf(Memory, pgd, p)
        BY <3>1, SpaceIs, Zenon DEF Space!InUse, Space!Mapped
      <3>3. \A g \in USER_REG : g # 0
        BY LayoutAssumption
      <3>4. \A g : g \in Unused \cup Space!InUse <=> g \in USER_REG
        <4>1. Exact(Memory, pgd)
          BY <1>2, FramesExact, Zenon
        <4>2. \A g : g \in Space!InUse => g \in USER_REG
          BY <3>2, <4>1 DEF Exact
        <4>3. \A g \in USER_REG : g \in free \/ g \in Space!InUse
          BY <3>2, <3>3, <4>1, MemoryIs, Zenon DEF Exact
        <4> QED BY <4>2, <4>3, Zenon DEF Unused
      <3>5. Unused' = USER_REG
        BY <1>4 DEF Unused
      <3> QED BY <3>4, <3>5
    <2>4. Alive /\ Alive' = FALSE
      BY <1>1 DEF Alive
    <2> QED BY <1>1, <2>1, <2>2, <2>3, <2>4, SpaceIs, ZenonT(30) DEF Space!Exit
  <1> QED BY <1>13, <1>14, Zenon DEF Space!Next

\* A page fault that is served: page p gets a frame, if it has none.
LEMMA FillStep ==
    ASSUME MemoryInv, pgd # 0, NEW p \in Pages, seg_page_fault(p),
           \/ p[1] \in Growing /\ p[2] < next_free[p[1]]
           \/ p[1] = "STACK"
    PROVE  MemoryInv' /\ (Space!Next \/ UNCHANGED Space!spaceVars)
  <1> DEFINE n == MapPage(Memory, pgd, Addr(p), CanWrite(p[1]), 0)
  <1>1. /\ FramesLeft(Memory) /\ mem' = n.mem /\ free' = n.free
        /\ UNCHANGED <<pgd, next_free, tlb, access>>
    BY DEF seg_page_fault
  <1>2. MapOK(Memory, pgd) /\ Memory.mem[pgd][0].pfn # 0
    BY AliveParts, MemoryIs, Zenon
  <1>3. CanAdd(Memory, n, pgd, p, CanWrite(p[1]))
    <2>2. CanWrite(p[1]) \in BOOLEAN
      BY DEF CanWrite
    <2>3. CanWrite(p[1]) \/ p[1] = "RODATA"
      BY DEF CanWrite, Growing
    <2> QED BY <1>1, <1>2, <2>2, <2>3, Zenon DEF CanAdd, MapPage
  <1> HIDE DEF n
  <1>4. PICK f : AddsTo(Memory, n, pgd, p, CanWrite(p[1]), f)
    BY <1>3, Adds
  <1>5. Added(Memory, n, pgd, p, CanWrite(p[1]), f) /\ MapOK(n, pgd) /\ (f = 0 \/ f \in free)
    BY <1>4, MemoryIs, Zenon DEF AddsTo
  <1>6. Memory' = n /\ n \in Memories
    <2>1. n \in Memories
      BY <1>5, Zenon DEF MapOK
    <2>2. n = [mem |-> n.mem, free |-> n.free]
      BY <2>1, SMTT(30) DEF Memories
    <2> QED BY <1>1, <2>1, <2>2, MemoryIs, Zenon
  <1>7. /\ \A q \in Pages : q # p => FrameOf(n, pgd, q) = FrameOf(Memory, pgd, q)
        /\ FrameOf(Memory, pgd, p) # 0 => f = 0 /\ FrameOf(n, pgd, p) = FrameOf(Memory, pgd, p)
        /\ FrameOf(Memory, pgd, p) = 0 => f \in USER_REG /\ FrameOf(n, pgd, p) = f
        /\ n.free \cap USER_REG = (free \cap USER_REG) \ {f}
        /\ n.mem[pgd][0].pfn # 0
    BY <1>5, AddedLeaf, MemoryIs DEF FrameOf
  <1>8. MemOK(n, pgd)
    BY <1>5, <1>6, <1>7, Zenon DEF MemOK
  <1>9. Bounded(n, pgd, next_free)
    <2>1. "STACK" \notin Growing
      BY DEF Growing
    <2> QED BY <1>7, <2>1, Zenon DEF MemoryInv, Bounded
  <1>10. Coherent(n, pgd, tlb)
    BY <1>7, Zenon DEF MemoryInv, Coherent
  <1>11. MemoryInv'
    BY <1>1, <1>6, <1>8, <1>9, <1>10, InvNext, SMTT(30) DEF MemoryInv
  <1>12. /\ Frames = [q \in Pages |-> FrameOf(Memory, pgd, q)]
         /\ Frames' = [q \in Pages |-> FrameOf(n, pgd, q)]
         /\ Unused = free \cap USER_REG /\ Unused' = n.free \cap USER_REG
         /\ Cached' = Cached /\ Alive' = Alive /\ Alive /\ next_free' = next_free
    BY <1>1, MemoryIs DEF Frames, FrameOf, Unused, Cached, Alive
  <1>13. CASE FrameOf(Memory, pgd, p) # 0
    <2>1. Frames' = Frames
      BY <1>7, <1>12, <1>13, Zenon
    <2>2. 0 \notin USER_REG
      BY LayoutAssumption
    <2>3. Unused' = Unused
      BY <1>7, <1>12, <1>13, <2>2
    <2> QED BY <1>11, <1>12, <2>1, <2>3 DEF Space!spaceVars
  <1>14. CASE FrameOf(Memory, pgd, p) = 0
    <2>1. f \in Unused
      <3>1. 0 \notin USER_REG
        BY LayoutAssumption
      <3> QED BY <1>5, <1>7, <1>12, <1>14, <3>1, Zenon
    <2>2. Unused' = Unused \ {f}
      BY <1>7, <1>12, Zenon
    <2>3. Frames[p] = 0 /\ Frames' = [Frames EXCEPT ![p] = f]
      BY <1>7, <1>12, <1>14, Zenon
    <2>4. Space!Granted(p)
      BY SpaceIs, Zenon DEF Space!Granted
    <2>5. UNCHANGED <<Cached, next_free, Alive>>
      BY <1>12
    <2>6. Space!Fill(p)
      BY <1>12, <2>1, <2>2, <2>3, <2>4, <2>5, Zenon DEF Space!Fill
    <2> QED BY <1>11, <2>6, SpaceIs, Zenon DEF Space!Next
  <1> QED BY <1>13, <1>14, Zenon

\* A page fault: it is served, or ends the process.
LEMMA FaultStep ==
    ASSUME MemoryInv, Fault
    PROVE  MemoryInv' /\ (Space!Next \/ UNCHANGED Space!spaceVars)
  <1> DEFINE p == access.page
  <1>1. access # NoAccess /\ handle_page_fault(p, Present(p))
    BY Zenon DEF Fault
  <1>2. pgd # 0
    BY <1>1, Zenon DEF MemoryInv, AccessOK
  <1>3. p \in Pages
    BY <1>1, <1>2, AliveParts, Zenon
  <1> HIDE DEF p
  <1>4. \/ do_exit
        \/ /\ seg_page_fault(p)
           /\ \/ p[1] \in Growing /\ p[2] < next_free[p[1]]
              \/ p[1] = "STACK"
    BY <1>1 DEF handle_page_fault, Growing
  <1>5. CASE do_exit
    BY <1>2, <1>5, ExitStep
  <1>6. CASE /\ seg_page_fault(p)
             /\ \/ p[1] \in Growing /\ p[2] < next_free[p[1]]
                \/ p[1] = "STACK"
    BY <1>2, <1>3, <1>6, FillStep
  <1> QED BY <1>4, <1>5, <1>6, Zenon

\* The arguments of expand and shrink fit in 32 bits.
LEMMA SizeFits ==
    ASSUME NEW size \in 0 .. MaxSize
    PROVE  size \in Nat /\ size % U32_PAGES = size
  <1>1. size \in Nat /\ size < U32_PAGES /\ U32_PAGES \in Nat \ {0}
    BY UserAssumption
  <1>2. \A a, b \in Nat : a < b => a % b = a
    OBVIOUS
  <1> QED BY <1>1, <1>2

\* SYSCALL_EXPAND grants pages.
LEMMA ExpandStep ==
    ASSUME MemoryInv, NEW s \in Growing, NEW size \in 0 .. MaxSize, syscall_expand(s, size)
    PROVE  MemoryInv' /\ Space!Next
  <1>1. size \in Nat /\ size % U32_PAGES = size
    BY SizeFits
  <1>2. /\ pgd # 0 /\ next_free[s] + size < PAGES[s]
        /\ next_free' = [next_free EXCEPT ![s] = next_free[s] + size]
        /\ UNCHANGED <<mem, free, pgd, tlb, access>>
    BY <1>1, Zenon DEF syscall_expand
  <1>3. Memory' = Memory /\ Frames' = Frames /\ Unused' = Unused /\ Alive' = Alive /\ Cached' = Cached
    BY <1>2, SameTables DEF Cached
  <1>4. Bounded(Memory, pgd, next_free)
    BY Zenon DEF MemoryInv
  <1>5. next_free \in [Growing -> Nat] /\ PAGES[s] \in Nat /\ \A r \in Growing : next_free[r] <= PAGES[r]
    BY <1>4, LayoutAssumption DEF Bounded, Growing
  <1>6. /\ next_free' \in [Growing -> Nat]
        /\ \A r \in Growing : next_free'[r] <= PAGES[r]
        /\ \A r \in Growing : next_free[r] <= next_free'[r]
    BY <1>1, <1>2, <1>5
  <1>7. \A p \in Pages : FrameOf(Memory, pgd, p) # 0 /\ p[1] \in Growing => p[2] < next_free'[p[1]]
    <2>1. \A p \in Pages : p[2] \in Nat
      BY PageParts, Zenon
    <2>2. \A p \in Pages : FrameOf(Memory, pgd, p) # 0 /\ p[1] \in Growing => p[2] < next_free[p[1]]
      BY <1>4, Zenon DEF Bounded
    <2>3. \A r \in Growing : next_free[r] \in Nat /\ next_free'[r] \in Nat
      BY <1>5, <1>6, Zenon
    <2> QED BY <1>6, <2>1, <2>2, <2>3
  <1>8. Bounded(Memory, pgd, next_free')
    BY <1>6, <1>7, Zenon DEF Bounded
  <1>9. MemoryInv'
    BY <1>2, <1>3, <1>8, InvNext DEF MemoryInv
  <1>10. Space!Expand(s, size)
    <2>1. Alive /\ UNCHANGED <<Frames, Cached, Unused, Alive>>
      BY <1>2, <1>3 DEF Alive
    <2> QED BY <1>2, <2>1, Zenon DEF Space!Expand
  <1>11. size \in 0 .. PAGES[s]
    <2>1. next_free[s] \in Nat
      BY <1>5, Zenon
    <2> QED BY <1>1, <1>2, <1>5, <2>1
  <1> QED BY <1>9, <1>10, <1>11, SpaceIs, ZenonT(30) DEF Space!Next

\* SYSCALL_SHRINK takes pages away, with their frames and their translations.
LEMMA ShrinkStep ==
    ASSUME MemoryInv, NEW s \in Growing, NEW size \in 0 .. MaxSize, syscall_shrink(s, size)
    PROVE  MemoryInv' /\ Space!Next
  <1> DEFINE cut == pages_to_free(s, size)
  <1>1. size \in Nat /\ size % U32_PAGES = size
    BY SizeFits
  <1>2. /\ pgd # 0 /\ next_free[s] - size >= 0
        /\ next_free' = [next_free EXCEPT ![s] = next_free[s] - size]
        /\ free_data_pages(cut)
        /\ UNCHANGED <<pgd, access>>
    BY <1>1 DEF syscall_shrink
  <1>3. /\ free' = free \cup {Leaf(mem, pgd, Addr(p)).pfn : p \in cut}
        /\ mem' = [t \in DOMAIN mem |-> [i \in DOMAIN mem[t] |->
                      IF <<t, i>> \in {<<Tables(mem, pgd, Addr(p))[4], Addr(p)[4]>> : p \in cut}
                      THEN Absent ELSE mem[t][i]]]
        /\ tlb' = [p \in Pages |-> IF p \in cut THEN Absent ELSE tlb[p]]
    BY <1>2, Zenon DEF free_data_pages
  <1>4. Bounded(Memory, pgd, next_free) /\ Coherent(Memory, pgd, tlb)
    BY Zenon DEF MemoryInv
  <1>5. /\ next_free \in [Growing -> Nat] /\ PAGES[s] \in Nat
        /\ next_free[s] \in Nat /\ next_free[s] <= PAGES[s]
    BY <1>4, LayoutAssumption DEF Bounded, Growing
  <1>6. \A p \in Pages : p \in cut <=> /\ p[1] = s /\ p[2] >= next_free[s] - size
                                       /\ p[2] < next_free[s] /\ FrameOf(Memory, pgd, p) # 0
    <2>1. \A p \in Pages : p[2] \in Nat
      BY PageParts, Zenon
    <2>2. \A p \in Pages : Present(p) <=> FrameOf(Memory, pgd, p) # 0
      BY MemoryIs, Zenon DEF Present, is_valid_virtual_addr, FrameOf
    <2>3. \A k \in Nat : k \in next_free[s] - size .. next_free[s] - 1 <=>
                            k >= next_free[s] - size /\ k < next_free[s]
      BY <1>1, <1>5
    <2> QED BY <2>1, <2>2, <2>3, Zenon DEF pages_to_free
  <1>7. cut \subseteq Pages
    BY Zenon DEF pages_to_free
  <1> HIDE DEF cut
  <1>8. MapOK(Memory, pgd) /\ Memory.mem[pgd][0].pfn # 0
    BY <1>2, AliveParts, MemoryIs, Zenon
  <1>9. Trimmed(Memory, Memory', pgd, cut)
    <2>1. \A p \in cut : Leaf(Memory.mem, pgd, Addr(p)).pfn # 0
      BY <1>6, <1>7, Zenon DEF FrameOf
    <2>2. (Memory').free = Memory.free \cup {Leaf(Memory.mem, pgd, Addr(p)).pfn : p \in cut}
      BY <1>3, MemoryIs, ZenonT(30)
    <2>3. (Memory').mem = [t \in DOMAIN Memory.mem |-> [i \in DOMAIN Memory.mem[t] |->
             IF <<t, i>> \in {<<Tables(Memory.mem, pgd, Addr(p))[4], Addr(p)[4]>> : p \in cut}
             THEN Absent ELSE Memory.mem[t][i]]]
      BY <1>3, MemoryIs
    <2>4. Memory' = [mem |-> (Memory').mem, free |-> (Memory').free]
      BY MemoryIs, Zenon
    <2> QED BY <1>7, <1>8, <2>1, <2>2, <2>3, <2>4, ZenonT(30) DEF Trimmed
  <1>10. MapOK(Memory', pgd) /\ Unlinked(Memory, Memory', pgd, cut)
    BY <1>9, TrimmedOK, TrimmedWalk
  <1>11. \A p \in Pages : FrameOf(Memory', pgd, p) = IF p \in cut THEN 0 ELSE FrameOf(Memory, pgd, p)
    BY <1>10, EntryFields, Zenon DEF Unlinked, FrameOf
  <1>12. MemOK(Memory', pgd)
    <2>1. Memory' \in Memories
      BY <1>10, Zenon DEF MapOK
    <2>2. (Memory').mem[pgd][0].pfn # 0
      <3>1. <<"CODE", 0>> \in Pages
        BY LayoutAssumption DEF Pages, Segments
      <3>2. Addr(<<"CODE", 0>>) \in Addresses /\ Addr(<<"CODE", 0>>)[1] = 0
        BY <3>1, AddrInjective, AddrParts, Zenon
      <3> QED BY <1>8, <1>10, <3>2, Zenon DEF Unlinked, L3
    <2> QED BY <1>2, <1>10, <2>1, <2>2, Zenon DEF MemOK
  <1>13. Bounded(Memory', pgd, next_free')
    <2>1. /\ next_free' \in [Growing -> Nat]
          /\ \A r \in Growing : r # s => next_free'[r] = next_free[r]
          /\ next_free'[s] = next_free[s] - size
      BY <1>1, <1>2, <1>5
    <2>2. \A r \in Growing : next_free'[r] <= PAGES[r]
      BY <1>1, <1>4, <1>5, <2>1 DEF Bounded
    <2>3. \A p \in Pages : FrameOf(Memory, pgd, p) # 0 /\ p[1] \in Growing => p[2] < next_free[p[1]]
      BY <1>4, Zenon DEF Bounded
    <2>4. \A p \in Pages : p[2] \in Nat
      BY PageParts, Zenon
    <2>5. ASSUME NEW p \in Pages, FrameOf(Memory', pgd, p) # 0, p[1] \in Growing
          PROVE  p[2] < next_free'[p[1]]
      <3>1. p \notin cut /\ FrameOf(Memory, pgd, p) # 0
        BY <1>11, <2>5, Zenon
      <3>2. CASE p[1] # s
        BY <2>1, <2>3, <2>5, <3>1, <3>2, ZenonT(30)
      <3>3. CASE p[1] = s
        <4>1. p[2] < next_free[s]
          BY <2>3, <2>5, <3>1, <3>3, ZenonT(30)
        <4>2. ~(p[2] >= next_free[s] - size)
          BY <1>6, <3>1, <3>3, <4>1, Zenon
        <4> QED BY <1>1, <1>5, <2>1, <2>4, <3>3, <4>2, SMTT(30)
      <3> QED BY <3>2, <3>3, Zenon
    <2> QED BY <2>1, <2>2, <2>5, Zenon DEF Bounded
  <1>14. Coherent(Memory', pgd, tlb')
    <2>1. tlb' \in [Pages -> PTE]
      BY <1>3, <1>4, EntryFields, ZenonT(30) DEF Coherent
    <2> QED BY <1>3, <1>4, <1>11, <2>1, Zenon DEF Coherent
  <1>15. MemoryInv'
    BY <1>2, <1>12, <1>13, <1>14, InvNext DEF MemoryInv
  <1>16. Space!Shrink(s, size)
    <2>1. /\ Frames = [p \in Pages |-> FrameOf(Memory, pgd, p)]
          /\ Frames' = [p \in Pages |-> FrameOf(Memory', pgd, p)]
      BY <1>2, MemoryIs, Zenon DEF Frames, FrameOf
    <2>2. \A p \in Pages : p \in Space!Cut(s, size) <=>
             p[1] = s /\ p[2] >= next_free[s] - size /\ p[2] < next_free[s]
      BY SpaceIs, Zenon DEF Space!Cut
    <2>3. \A p \in Pages : p \in cut <=> p \in Space!Cut(s, size) /\ FrameOf(Memory, pgd, p) # 0
      BY <1>6, <2>2, Zenon
    <2>4. Frames' = [p \in Pages |-> IF p \in Space!Cut(s, size) THEN 0 ELSE Frames[p]]
      BY <1>11, <2>1, <2>3, Zenon
    <2>5. Cached' = [p \in Pages |-> IF p \in Space!Cut(s, size) THEN 0 ELSE Cached[p]]
      <3>1. \A p \in Pages : tlb'[p].pfn = IF p \in Space!Cut(s, size) THEN 0 ELSE tlb[p].pfn
        BY <1>3, <1>4, <2>3, EntryFields, ZenonT(30) DEF Coherent
      <3>2. Cached' = [p \in Pages |-> tlb'[p].pfn] /\ \A p \in Pages : Cached[p] = tlb[p].pfn
        BY DEF Cached
      <3> QED BY <3>1, <3>2, Zenon
    <2>6. Unused' = Unused \cup {Frames[p] : p \in Space!Cut(s, size) \cap Space!Mapped}
      <3>1. \A p : p \in Space!Cut(s, size) \cap Space!Mapped <=> p \in cut
        BY <1>7, <2>1, <2>3, SpaceIs, Zenon DEF Space!Cut, Space!Mapped
      <3>2. \A p \in cut : Leaf(mem, pgd, Addr(p)).pfn = Frames[p] /\ Frames[p] \in USER_REG
        <4>1. Exact(Memory, pgd)
          BY <1>8, FramesExact, Zenon
        <4> QED BY <1>6, <1>7, <2>1, <4>1, MemoryIs, ZenonT(30) DEF FrameOf, Exact
      <3>3. Unused' = free' \cap USER_REG /\ Unused = free \cap USER_REG
        BY DEF Unused
      <3>4. Space!Cut(s, size) \cap Space!Mapped = cut
        BY <3>1, SMTT(30)
      <3>5. free' = free \cup {Frames[p] : p \in cut}
        BY <1>3, <3>2
      <3>6. {Frames[p] : p \in cut} \subseteq USER_REG
        BY <3>2, Zenon
      <3> QED BY <3>3, <3>4, <3>5, <3>6
    <2>7. Alive /\ Alive' = Alive
      BY <1>2 DEF Alive
    <2>8. next_free[s] >= size
      BY <1>1, <1>2, <1>5
    <2> QED BY <1>2, <2>4, <2>5, <2>6, <2>7, <2>8, SpaceIs, ZenonT(30) DEF Space!Shrink
  <1>17. size \in 0 .. PAGES[s]
    BY <1>1, <1>2, <1>5
  <1> QED BY <1>15, <1>16, <1>17, SpaceIs, Zenon DEF Space!Next

-----------------------------------------------------------------------------

\* Every step keeps the invariant and is a step of the address space.
LEMMA EveryStep ==
    ASSUME MemoryInv, [MemoryNext]_memoryVars
    PROVE  MemoryInv' /\ (Space!Next \/ UNCHANGED Space!spaceVars)
  <1>1. CASE UNCHANGED memoryVars
    <2>1. UNCHANGED <<mem, free, pgd>> /\ next_free' = next_free /\ tlb' = tlb /\ access' = access
      BY <1>1 DEF memoryVars
    <2>2. Memory' = Memory /\ Frames' = Frames /\ Unused' = Unused /\ Alive' = Alive
      BY <2>1, SameTables
    <2>3. MemoryInv'
      BY <2>1, <2>2, InvNext DEF MemoryInv
    <2>4. UNCHANGED Space!spaceVars
      BY <2>1, <2>2 DEF Space!spaceVars, Cached
    <2> QED BY <2>3, <2>4
  <1>2. CASE exec_init
    BY <1>2, ExecStep
  <1>3. CASE \E p \in Pages, write \in BOOLEAN : Issue(p, write)
    BY <1>3, IssueStep
  <1>4. CASE Perform
    BY <1>4, PerformStep
  <1>5. CASE Fault
    BY <1>5, FaultStep
  <1>6. CASE DivideOrExit
    <2>1. pgd # 0 /\ do_exit
      BY <1>6, Zenon DEF DivideOrExit
    <2> QED BY <2>1, ExitStep
  <1>7. CASE \E p, q \in Pages :
                p[1] = q[1] /\ q[2] \in {p[2], p[2] + 1} /\ syscall_write(p, q)
    BY <1>7, WriteStep
  <1>8. CASE \E s \in Growing, size \in 0 .. MaxSize :
                syscall_expand(s, size) \/ syscall_shrink(s, size)
    BY <1>8, ExpandStep, ShrinkStep
  <1> QED BY <1>1, <1>2, <1>3, <1>4, <1>5, <1>6, <1>7, <1>8, ZenonT(30) DEF MemoryNext

\* The page tables of entry.c stay in order through every fault, system call and
\* exit.
THEOREM MemoryInvariant == MemorySpec => []MemoryInv
  <1>1. MemoryInit => MemoryInv
    BY InitInv
  <1>2. MemoryInv /\ [MemoryNext]_memoryVars => MemoryInv'
    BY EveryStep
  <1> QED BY <1>1, <1>2, PTL DEF MemorySpec

\* The fault handler and the system calls over four-level page tables implement the
\* flat address space, for tables of any size and any number of frames: what they
\* do to tables, free frames, TLB and next_free is what AddressSpace allows.
THEOREM MemoryImplementsSpace == MemorySpec => ImplementsSpace
  <1>1. ASSUME MemoryInit PROVE Space!Init
    <2>1. /\ mem = [f \in OS_PT_REG \cup {0} |-> initialize_page]
          /\ free = OS_PT_REG \cup USER_REG /\ pgd = 0
          /\ next_free = [s \in Growing |-> 0] /\ tlb = EmptyTLB
      BY <1>1, Zenon DEF MemoryInit
    <2>2. mem[0] = initialize_page
      BY <2>1
    <2>3. Frames = Space!NoFrame
      BY <2>1, <2>2, IdleFrames, SpaceIs, Zenon DEF Frames, Space!NoFrame
    <2>4. Cached = Space!NoFrame
      BY <2>1, SpaceIs, EntryFields, Zenon DEF Cached, EmptyTLB, Space!NoFrame
    <2>5. Unused = USER_REG /\ Alive = FALSE
      BY <2>1 DEF Unused, Alive
    <2> QED BY <2>1, <2>3, <2>4, <2>5, SpaceIs, ZenonT(30) DEF Space!Init
  <1>2. MemoryInv /\ [MemoryNext]_memoryVars => [Space!Next]_(Space!spaceVars)
    BY EveryStep
  <1> QED BY <1>1, <1>2, MemoryInvariant, PTL DEF MemorySpec, ImplementsSpace, Space!Spec

\* Two pages never have the same frame, and a frame is free exactly if no page has
\* it: faults, shrinks and exits of entry.c neither share nor lose a frame.
THEOREM MemoryFramesOwned == MemorySpec => []FramesOwned
  <1>1. MemoryInv => FramesOwned
    <2> SUFFICES ASSUME MemoryInv PROVE Space!FramesOwned
      BY DEF FramesOwned
    <2>1. \A p \in Pages : Frames[p] = FrameOf(Memory, pgd, p)
      BY MemoryIs, Zenon DEF Frames, FrameOf
    <2>2. \A p : p \in Space!Mapped <=> p \in Pages /\ FrameOf(Memory, pgd, p) # 0
      BY <2>1, SpaceIs, Zenon DEF Space!Mapped
    <2>3. \A g \in USER_REG : g # 0
      BY LayoutAssumption
    <2>4. CASE pgd = 0
      <3>1. mem[0] = initialize_page /\ free = OS_PT_REG \cup USER_REG
        BY <2>4, MemoryIs, Zenon DEF MemoryInv, MemOK
      <3>2. \A p \in Pages : FrameOf(Memory, pgd, p) = 0
        BY <2>4, <3>1, IdleFrames, MemoryIs, Zenon DEF FrameOf
      <3>3. \A p : p \notin Space!Mapped
        BY <2>2, <3>2, Zenon
      <3>4. Unused = USER_REG
        BY <3>1 DEF Unused
      <3> QED BY <3>3, <3>4 DEF Space!FramesOwned, Space!InUse
    <2>5. CASE pgd # 0
      <3>1. Exact(Memory, pgd)
        BY <2>5, AliveParts, FramesExact, Zenon
      <3>2. \A p, q \in Space!Mapped : Frames[p] = Frames[q] => p = q
        BY <2>1, <2>2, <3>1 DEF Exact
      <3>3. \A g : g \in Space!InUse <=> \E p \in Pages : FrameOf(Memory, pgd, p) # 0 /\ g = FrameOf(Memory, pgd, p)
        BY <2>1, <2>2, Zenon DEF Space!InUse
      <3>4. \A g \in USER_REG : g \in free <=> g \notin Space!InUse
        BY <2>3, <3>1, <3>3, MemoryIs DEF Exact
      <3>5. Unused = USER_REG \ Space!InUse
        BY <3>4, Zenon DEF Unused
      <3> QED BY <3>2, <3>5, Zenon DEF Space!FramesOwned
    <2> QED BY <2>4, <2>5, Zenon
  <1> QED BY <1>1, MemoryInvariant, PTL

\* A translation in the TLB is the one that the page tables have: syscall_shrink
\* flushes every page whose frame it gives back.
THEOREM MemoryTLBCoherent == MemorySpec => []TLBCoherent
  <1>1. MemoryInv => TLBCoherent
    <2>1. ASSUME MemoryInv, NEW p \in Pages, Cached[p] # 0 PROVE Cached[p] = Frames[p]
      <3>1. Cached[p] = tlb[p].pfn /\ Frames[p] = FrameOf(Memory, pgd, p)
        BY MemoryIs, Zenon DEF Cached, Frames, FrameOf
      <3> QED BY <2>1, <3>1, EntryFields, Zenon DEF MemoryInv, Coherent
    <2> QED BY <2>1, SpaceIs, Zenon DEF TLBCoherent, Space!TLBCoherent
  <1> QED BY <1>1, MemoryInvariant, PTL

\* Nothing is mapped at or above next_free: handle_page_fault refuses those pages
\* and syscall_shrink frees them.
THEOREM MemoryNothingBeyond == MemorySpec => []NothingBeyond
  <1>1. MemoryInv => NothingBeyond
    <2>1. \A p \in Pages : Frames[p] = FrameOf(Memory, pgd, p)
      BY MemoryIs, Zenon DEF Frames, FrameOf
    <2> QED BY <2>1, SpaceIs, Zenon DEF MemoryInv, Bounded, NothingBeyond, Space!NothingBeyond, Space!Mapped
  <1> QED BY <1>1, MemoryInvariant, PTL

\* A cached translation is writable exactly if its segment is: the read-only
\* entries that a fault in the read-only segment makes are not on the way to any
\* other segment.
THEOREM MemoryPermissionsHeld == MemorySpec => []PermissionsHeld
  <1>1. MemoryInv => PermissionsHeld
    BY ZenonT(30) DEF MemoryInv, Coherent, PermissionsHeld
  <1> QED BY <1>1, MemoryInvariant, PTL

\* Every page-table frame is free or is reached by exactly one entry of the tables
\* of the process: a fault neither loses a table nor links one twice.
THEOREM MemoryTablesOwned == MemorySpec => []TablesOwned
  <1>1. MemoryInv => TablesOwned
    <2> SUFFICES ASSUME MemoryInv PROVE TablesOwned
      OBVIOUS
    <2> DEFINE used == OS_PT_REG \ free
               links(f) == {x \in used \X (0 .. ENTRIES - 1) : mem[x[1]][x[2]].pfn = f}
    <2>1. CASE pgd = 0
      <3>1. free = OS_PT_REG \cup USER_REG
        BY <2>1, MemoryIs, Zenon DEF MemoryInv, MemOK
      <3>2. used = {}
        BY <3>1
      <3> QED BY <2>1, <3>2, Zenon DEF TablesOwned
    <2>2. CASE pgd # 0
      <3>1. MapOK(Memory, pgd)
        BY <2>2, AliveParts, Zenon
      <3>2. used = ProcessTables
        BY <3>1, ProcessHasAll, Zenon
      <3>3. PICK lev : Tree(Memory, pgd, {}, lev)
        BY <3>1, Zenon DEF MapOK, HasTree
      <3>4. Own(Memory, {}) = used /\ Data(Memory, {}) = USER_REG \ free
        BY OwnAll, MemoryIs, ZenonT(30)
      <3> HIDE DEF used
      <3>5. /\ lev \in [used -> 1 .. 4] /\ lev[pgd] = 4
            /\ \A t \in used, i \in Idx :
                  mem[t][i].pfn # 0 =>
                     IF lev[t] = 1 THEN mem[t][i].pfn \in USER_REG \ free
                     ELSE mem[t][i].pfn \in used /\ lev[mem[t][i].pfn] = lev[t] - 1
            /\ Apart(mem, used)
            /\ \A f \in used \ {pgd} : \E t \in used, i \in Idx : mem[t][i].pfn = f
            /\ pgd \in used
        <4>1. /\ lev \in [used -> 1 .. 4] /\ pgd \in used /\ lev[pgd] = 4
              /\ Leads(mem, used, USER_REG \ free, lev) /\ Apart(mem, used)
              /\ Reached(mem, used, USER_REG \ free, pgd)
          BY <3>3, <3>4, MemoryIs, Zenon DEF Tree
        <4> QED BY <4>1, Zenon DEF Leads, Reached
      <3>6. used \subseteq Nat \ {0} /\ used \cap USER_REG = {}
        BY LayoutAssumption, Zenon DEF used
      <3>7. \A t \in used, i \in Idx : mem[t][i].pfn # pgd
        BY <3>5, <3>6
      <3>8. \A f, x : x \in links(f) <=> x \in used \X Idx /\ mem[x[1]][x[2]].pfn = f
        BY Zenon DEF Idx
      <3> HIDE DEF links
      <3>9. links(pgd) = {}
        BY <3>7, <3>8
      <3>10. ASSUME NEW f \in used \ {pgd} PROVE \E x \in links(f) : links(f) = {x}
        <4>1. PICK t \in used, i \in Idx : mem[t][i].pfn = f
          BY <3>5, Zenon
        <4>2. <<t, i>> \in links(f)
          BY <3>8, <4>1, SMTT(30)
        <4>3. \A x \in links(f) : x = <<t, i>>
          <5> TAKE x \in links(f)
          <5>1. x \in used \X Idx /\ mem[x[1]][x[2]].pfn = f
            BY <3>8, ZenonT(30)
          <5>2. PICK u \in used, j \in Idx : x = <<u, j>>
            BY <5>1
          <5>3. mem[u][j].pfn = f /\ f # 0
            BY <3>6, <5>1, <5>2
          <5>4. u = t /\ j = i
            BY <3>5, <4>1, <5>3, OneEntry
          <5> QED BY <5>2, <5>4, Zenon
        <4>4. links(f) = {<<t, i>>}
          BY <4>2, <4>3
        <4> QED BY <4>2, <4>4, Zenon
      <3> QED BY <3>2, <3>9, <3>10, Zenon DEF TablesOwned, used, links
    <2> QED BY <2>1, <2>2, Zenon
  <1> QED BY <1>1, MemoryInvariant, PTL

=============================================================================
