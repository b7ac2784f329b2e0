--------------------------- MODULE ContextProofs ----------------------------
(***************************************************************************)
(* ContextMM for any contexts, layouts and frames: the tables of a context *)
(* are its own, hold its three walks and the system's entry, and are given *)
(* back exactly.                                                           *)
(***************************************************************************)
EXTENDS ContextMM, PageTableProofs

\* Entry j of table u is one of the four entries on the walk to page a.
OnSlot(mem, top, a, u, j) ==
    \/ OnWalk(mem, top, a, u, j)
    \/ u = L1(mem, top, a) /\ j = a[4]

\* The walk to page a goes through tables of own, one of each level, to a page of
\* own.
WalkOwned(mem, own, top, a, lev) ==
    /\ L3(mem, top, a) \in own \cap OS_PT_REG /\ lev[L3(mem, top, a)] = 3
    /\ L2(mem, top, a) \in own \cap OS_PT_REG /\ lev[L2(mem, top, a)] = 2
    /\ L1(mem, top, a) \in own \cap OS_PT_REG /\ lev[L1(mem, top, a)] = 1
    /\ Leaf(mem, top, a).pfn \in own \cap USER_REG

\* The frames on the walk to page a.
WalkFrames(mem, top, a) ==
    {L3(mem, top, a), L2(mem, top, a), L1(mem, top, a), Leaf(mem, top, a).pfn}

\* The frames in own are those of the three walks of layout l, and what the tables
\* hold is on one of the walks, or is the system's entry.
Built(mem, own, top, l, lev) ==
    /\ l \in Layouts
    /\ top \in own \cap OS_PT_REG /\ lev[top] = 4
    /\ \A a \in PagesOf(l) : WalkOwned(mem, own, top, a, lev)
    /\ \A a, b \in PagesOf(l) :
          Leaf(mem, top, a).pfn = Leaf(mem, top, b).pfn => a = b
    /\ \A f \in own : f = top \/ \E a \in PagesOf(l) : f \in WalkFrames(mem, top, a)
    /\ \A t \in own \cap OS_PT_REG, i \in Idx :
          mem[t][i].pfn # 0 =>
             \/ t = L3(mem, top, l.stack) /\ i = OS_INDEX
             \/ \E a \in PagesOf(l) : OnSlot(mem, top, a, t, i)

\* The write bits that the three segments ask for.
BitsOK(mem, top, l) ==
    /\ Writable(mem, top, l.stack)
    /\ ~Writable(mem, top, l.code)
    /\ Separated(l) => Writable(mem, top, l.data)

ContextOK(mem, own, top, l) ==
    BitsOK(mem, top, l) /\ \E lev : Built(mem, own, top, l, lev)

Kernel == [mem |-> cmem, free |-> cfree]

\* The inductive invariant: what a context was given is its own.
ContextInv ==
    /\ Kernel \in Memories /\ cmem[0] = initialize_page
    /\ ctx \in [Contexts -> [pgd : Nat, mms : Layouts \cup {NoContext.mms}, arg_pfn : Nat]]
    /\ given \in [Contexts -> SUBSET (OS_PT_REG \cup USER_REG)]
    /\ \A c \in Contexts : given[c] \cap cfree = {}
    /\ \A c, d \in Contexts : c # d => given[c] \cap given[d] = {}
    /\ \A c \in Live : ContextOK(cmem, given[c], ctx[c].pgd, ctx[c].mms)

-----------------------------------------------------------------------------

\* The walk to page b meets a table of each level and ends in a page.
Whole(m, top, others, b, lev) ==
    /\ top \in Own(m, others)
    /\ L3(m.mem, top, b) \in Own(m, others) /\ lev[L3(m.mem, top, b)] = 3
    /\ L2(m.mem, top, b) \in Own(m, others) /\ lev[L2(m.mem, top, b)] = 2
    /\ L1(m.mem, top, b) \in Own(m, others) /\ lev[L1(m.mem, top, b)] = 1
    /\ Leaf(m.mem, top, b).pfn \in Data(m, others)

\* A page that is mapped has a whole walk.
LEMMA WholeWalk ==
    ASSUME NEW m \in Memories, NEW top, NEW others, NEW lev, Tree(m, top, others, lev),
           NEW b \in Addresses, Leaf(m.mem, top, b).pfn # 0
    PROVE  Whole(m, top, others, b, lev)
  <1>1. Leaf(m.mem, top, b) = m.mem[L1(m.mem, top, b)][b[4]]
    BY WalkIs
  <1>2. Leaf(m.mem, top, b) # Absent
    BY EntryFields, Zenon
  <1>3. top \in Own(m, others)
    BY Zenon DEF Tree
  <1>6. OnLevels(m, top, others, lev, b)
    BY WalkLevels
  <1>4. /\ L1(m.mem, top, b) # 0 /\ L2(m.mem, top, b) # 0 /\ L3(m.mem, top, b) # 0
        /\ Leaf(m.mem, top, b).pfn \in Data(m, others)
    BY <1>1, <1>2, <1>6, Zenon DEF OnLevels
  <1>5. /\ L3(m.mem, top, b) \in Own(m, others) /\ lev[L3(m.mem, top, b)] = 3
        /\ L2(m.mem, top, b) \in Own(m, others) /\ lev[L2(m.mem, top, b)] = 2
        /\ L1(m.mem, top, b) \in Own(m, others) /\ lev[L1(m.mem, top, b)] = 1
    BY <1>4, <1>6, Zenon DEF OnLevels
  <1> QED BY <1>3, <1>4, <1>5, Zenon DEF Whole

\* mem2 has the walk to page b that mem has, entry by entry.
SameWalk(mem, mem2, top, b) ==
    /\ mem2[top][b[1]] = mem[top][b[1]]
    /\ L3(mem2, top, b) = L3(mem, top, b)
    /\ mem2[L3(mem, top, b)][b[2]] = mem[L3(mem, top, b)][b[2]]
    /\ L2(mem2, top, b) = L2(mem, top, b)
    /\ mem2[L2(mem, top, b)][b[3]] = mem[L2(mem, top, b)][b[3]]
    /\ L1(mem2, top, b) = L1(mem, top, b)
    /\ mem2[L1(mem, top, b)][b[4]] = mem[L1(mem, top, b)][b[4]]

\* So it leads to the same page with the same rights.
LEMMA SameAccess ==
    ASSUME NEW mem, NEW mem2, NEW top, NEW b, SameWalk(mem, mem2, top, b)
    PROVE  /\ Leaf(mem2, top, b) = Leaf(mem, top, b)
           /\ Writable(mem2, top, b) = Writable(mem, top, b)
           /\ \A u, j : OnSlot(mem2, top, b, u, j) <=> OnSlot(mem, top, b, u, j)
           /\ WalkFrames(mem2, top, b) = WalkFrames(mem, top, b)
  <1>1. Leaf(mem2, top, b) = Leaf(mem, top, b)
    BY WalkIs DEF SameWalk
  <1>2. \A u, j : OnSlot(mem2, top, b, u, j) <=> OnSlot(mem, top, b, u, j)
    BY Zenon DEF SameWalk, OnSlot, OnWalk
  <1>3. WalkFrames(mem2, top, b) = WalkFrames(mem, top, b)
    BY <1>1, Zenon DEF SameWalk, WalkFrames
  <1>4. Writable(mem2, top, b) = Writable(mem, top, b)
    <2>1. Tables(mem2, top, b) = Tables(mem, top, b)
      BY Zenon DEF SameWalk, Tables, L3, L2, L1
    <2>2. \A d \in 1 .. 4 : mem2[Tables(mem, top, b)[d]][b[d]]
                              = mem[Tables(mem, top, b)[d]][b[d]]
      <3>1. \A d \in 1 .. 4 : d = 1 \/ d = 2 \/ d = 3 \/ d = 4
        OBVIOUS
      <3>2. /\ Tables(mem, top, b)[1] = top
            /\ Tables(mem, top, b)[2] = L3(mem, top, b)
            /\ Tables(mem, top, b)[3] = L2(mem, top, b)
            /\ Tables(mem, top, b)[4] = L1(mem, top, b)
        BY WalkIs
      <3>3. ASSUME NEW d \in 1 .. 4
            PROVE  mem2[Tables(mem, top, b)[d]][b[d]] = mem[Tables(mem, top, b)[d]][b[d]]
        <4>1. CASE d = 1
          BY <3>2, <4>1, Zenon DEF SameWalk
        <4>2. CASE d = 2
          BY <3>2, <4>2, Zenon DEF SameWalk
        <4>3. CASE d = 3
          BY <3>2, <4>3, Zenon DEF SameWalk
        <4>4. CASE d = 4
          BY <3>2, <4>4, Zenon DEF SameWalk
        <4> QED BY <3>1, <4>1, <4>2, <4>3, <4>4, Zenon
      <3> QED BY <3>3, Zenon
    <2> QED BY <2>1, <2>2, Zenon DEF Writable
  <1> QED BY <1>1, <1>2, <1>3, <1>4, ZenonT(30)

\* The processor may write where all four entries have the bit.
LEMMA WritableParts ==
    ASSUME NEW mem, NEW top, NEW b
    PROVE  Writable(mem, top, b) <=> /\ mem[top][b[1]].w
                                     /\ mem[L3(mem, top, b)][b[2]].w
                                     /\ mem[L2(mem, top, b)][b[3]].w
                                     /\ Leaf(mem, top, b).w
  <1>1. \A d \in 1 .. 4 : d = 1 \/ d = 2 \/ d = 3 \/ d = 4
    OBVIOUS
  <1>2. 1 \in 1 .. 4 /\ 2 \in 1 .. 4 /\ 3 \in 1 .. 4 /\ 4 \in 1 .. 4
    OBVIOUS
  <1>3. /\ Tables(mem, top, b)[1] = top
        /\ Tables(mem, top, b)[2] = L3(mem, top, b)
        /\ Tables(mem, top, b)[3] = L2(mem, top, b)
        /\ Tables(mem, top, b)[4] = L1(mem, top, b)
        /\ Leaf(mem, top, b) = mem[L1(mem, top, b)][b[4]]
    BY WalkIs
  <1> QED BY <1>1, <1>2, <1>3, Zenon DEF Writable

-----------------------------------------------------------------------------

\* The tables of m are a tree that holds the walks to the pages in A and no other
\* entry.
Holding(m, top, others, A) ==
    /\ Ready(m, top, others) /\ A \subseteq Addresses
    /\ \A b \in A : Leaf(m.mem, top, b).pfn # 0
    /\ \A b \in Addresses \ A : Leaf(m.mem, top, b).pfn = 0
    /\ \A u \in Own(m, others), j \in Idx :
          m.mem[u][j].pfn # 0 => \E b \in A : OnSlot(m.mem, top, b, u, j)

\* One more page is mapped.
Extends(m, n, top, others, a, w, f, A) ==
    /\ Holding(m, top, others, A)
    /\ a \in Addresses \ A /\ w \in BOOLEAN
    /\ Maps(m, n, top, others, a, w, w, f)
    /\ Ready(n, top, others \ {f})

\* The walks that are there stay.
LEMMA WalkKept ==
    ASSUME NEW m, NEW n, NEW top, NEW others, NEW a, NEW w, NEW f, NEW A,
           Extends(m, n, top, others, a, w, f, A), NEW b \in A
    PROVE  SameWalk(m.mem, n.mem, top, b)
  <1>1. /\ m \in Memories /\ b \in Addresses /\ Leaf(m.mem, top, b).pfn # 0
        /\ \E lev : Tree(m, top, others, lev)
    BY Zenon DEF Extends, Holding, Ready, HasTree
  <1>2. PICK lev : Tree(m, top, others, lev)
    BY <1>1, Zenon
  <1>3. Whole(m, top, others, b, lev)
    BY <1>1, <1>2, WholeWalk
  <1>4. \A u \in Own(m, others), j \in Idx :
           m.mem[u][j].pfn # 0 => n.mem[u][j] = m.mem[u][j]
    BY Zenon DEF Extends, Maps
  <1>5. b[1] \in Idx /\ b[2] \in Idx /\ b[3] \in Idx /\ b[4] \in Idx
    BY <1>1, AddressParts, Zenon
  <1>6. 0 \notin Own(m, others) /\ 0 \notin Data(m, others)
    BY LayoutAssumption, Zenon DEF Own, Data
  <1>7. /\ n.mem[top][b[1]] = m.mem[top][b[1]]
        /\ L3(n.mem, top, b) = L3(m.mem, top, b)
    BY <1>3, <1>4, <1>5, <1>6, Zenon DEF Whole, L3
  <1>8. /\ n.mem[L3(m.mem, top, b)][b[2]] = m.mem[L3(m.mem, top, b)][b[2]]
        /\ L2(n.mem, top, b) = L2(m.mem, top, b)
    <2>1. m.mem[L3(m.mem, top, b)][b[2]].pfn # 0
      BY <1>3, <1>6, Zenon DEF Whole, L2
    <2>2. n.mem[L3(m.mem, top, b)][b[2]] = m.mem[L3(m.mem, top, b)][b[2]]
      BY <1>3, <1>4, <1>5, <2>1, Zenon DEF Whole
    <2> QED BY <1>7, <2>2, Zenon DEF L2
  <1>9. /\ n.mem[L2(m.mem, top, b)][b[3]] = m.mem[L2(m.mem, top, b)][b[3]]
        /\ L1(n.mem, top, b) = L1(m.mem, top, b)
    <2>1. m.mem[L2(m.mem, top, b)][b[3]].pfn # 0
      BY <1>3, <1>6, Zenon DEF Whole, L1
    <2>2. n.mem[L2(m.mem, top, b)][b[3]] = m.mem[L2(m.mem, top, b)][b[3]]
      BY <1>3, <1>4, <1>5, <2>1, Zenon DEF Whole
    <2> QED BY <1>8, <2>2, Zenon DEF L1
  <1>10. n.mem[L1(m.mem, top, b)][b[4]] = m.mem[L1(m.mem, top, b)][b[4]]
    <2>1. m.mem[L1(m.mem, top, b)][b[4]].pfn # 0
      BY <1>1, WalkIs
    <2> QED BY <1>3, <1>4, <1>5, <2>1, Zenon DEF Whole
  <1> QED BY <1>7, <1>8, <1>9, <1>10, Zenon DEF SameWalk

Extended(n, top, others, a, w, f, A) ==
    /\ Holding(n, top, others \ {f}, A \cup {a})
    /\ f \in USER_REG /\ Leaf(n.mem, top, a) = Entry(f, w)

\* The tree holds one walk more.
LEMMA HoldsMore ==
    ASSUME NEW m, NEW n, NEW top, NEW others, NEW a, NEW w, NEW f, NEW A,
           Extends(m, n, top, others, a, w, f, A)
    PROVE  Extended(n, top, others, a, w, f, A)
  <1>1. /\ Holding(m, top, others, A) /\ a \in Addresses /\ a \notin A
        /\ Maps(m, n, top, others, a, w, w, f) /\ Ready(n, top, others \ {f})
    BY Zenon DEF Extends
  <1>2. Leaf(m.mem, top, a).pfn = 0
    BY <1>1, Zenon DEF Holding
  <1>3. f \in USER_REG /\ Leaf(n.mem, top, a) = Entry(f, w)
    BY <1>1, <1>2, Zenon DEF Maps
  <1>4. f # 0 /\ Leaf(n.mem, top, a).pfn # 0
    BY <1>3, EntryFields, LayoutAssumption
  <1>5. \A b \in Addresses : b # a => Leaf(n.mem, top, b) = Leaf(m.mem, top, b)
    BY <1>1, Zenon DEF Maps
  <1>6. /\ \A b \in A \cup {a} : Leaf(n.mem, top, b).pfn # 0
        /\ \A b \in Addresses \ (A \cup {a}) : Leaf(n.mem, top, b).pfn = 0
        /\ A \cup {a} \subseteq Addresses
    BY <1>1, <1>4, <1>5, Zenon DEF Holding
  <1>7. ASSUME NEW u \in Own(n, others \ {f}), NEW j \in Idx, n.mem[u][j].pfn # 0
        PROVE  \E b \in A \cup {a} : OnSlot(n.mem, top, b, u, j)
    <2>1. \/ u \in Own(m, others) /\ n.mem[u][j] = m.mem[u][j]
          \/ OnSlot(n.mem, top, a, u, j)
      BY <1>1, <1>7, Zenon DEF Maps, OnSlot
    <2>2. CASE u \in Own(m, others) /\ n.mem[u][j] = m.mem[u][j]
      <3>1. PICK b \in A : OnSlot(m.mem, top, b, u, j)
        BY <1>1, <1>7, <2>2, Zenon DEF Holding
      <3>2. SameWalk(m.mem, n.mem, top, b)
        BY WalkKept
      <3>3. OnSlot(n.mem, top, b, u, j)
        BY <3>1, <3>2, SameAccess
      <3> QED BY <3>3, Zenon
    <2> QED BY <2>1, <2>2, Zenon
  <1> QED BY <1>1, <1>3, <1>6, <1>7, Zenon DEF Holding, Extended

-----------------------------------------------------------------------------

\* A directory entry on the new walk is new, with write bit w, or was there.
LEMMA NewBits ==
    ASSUME NEW m, NEW n, NEW top, NEW others, NEW a, NEW w, NEW f, NEW A,
           Extends(m, n, top, others, a, w, f, A),
           NEW u, NEW j, OnWalk(n.mem, top, a, u, j)
    PROVE  \/ n.mem[u][j].w = w
           \/ u \in Own(m, others) /\ j \in Idx /\ m.mem[u][j].pfn # 0
  <1>1. /\ Maps(m, n, top, others, a, w, w, f) /\ a \in Addresses
        /\ n \in Memories /\ \E lev : Tree(n, top, others \ {f}, lev)
    BY Zenon DEF Extends, Ready, HasTree
  <1>2. PICK lev : Tree(n, top, others \ {f}, lev)
    BY <1>1, Zenon
  <1>3. Leaf(n.mem, top, a).pfn # 0
    <2>0. Extended(n, top, others, a, w, f, A)
      BY HoldsMore
    <2>1. Leaf(n.mem, top, a) = Entry(f, w) /\ f \in USER_REG
      BY <2>0, Zenon DEF Extended
    <2> QED BY <2>1, EntryFields, LayoutAssumption
  <1>4. Whole(n, top, others \ {f}, a, lev)
    BY <1>1, <1>2, <1>3, WholeWalk
  <1>5. a[1] \in Idx /\ a[2] \in Idx /\ a[3] \in Idx
    BY <1>1, AddressParts, Zenon
  <1>6. 0 \notin Own(n, others \ {f})
    BY LayoutAssumption, Zenon DEF Own
  <1>7. lev[top] = 4
    BY <1>2, Zenon DEF Tree
  <1>8. /\ u \in Own(n, others \ {f}) /\ j \in Idx
        /\ lev[u] = 4 \/ lev[u] = 3 \/ lev[u] = 2
    BY <1>4, <1>5, <1>7, Zenon DEF Whole, OnWalk
  <1>9. n.mem[u][j].pfn # 0
    <2>1. CASE u = top /\ j = a[1]
      <3>1. n.mem[u][j].pfn = L3(n.mem, top, a)
        BY <2>1, Zenon DEF L3
      <3> QED BY <1>4, <1>6, <3>1, Zenon DEF Whole
    <2>2. CASE u = L3(n.mem, top, a) /\ j = a[2]
      <3>1. n.mem[u][j].pfn = L2(n.mem, top, a)
        BY <2>2, Zenon DEF L2
      <3> QED BY <1>4, <1>6, <3>1, Zenon DEF Whole
    <2>3. CASE u = L2(n.mem, top, a) /\ j = a[3]
      <3>1. n.mem[u][j].pfn = L1(n.mem, top, a)
        BY <2>3, Zenon DEF L1
      <3> QED BY <1>4, <1>6, <3>1, Zenon DEF Whole
    <2> QED BY <2>1, <2>2, <2>3, Zenon DEF OnWalk
  <1>10. u # L1(n.mem, top, a)
    <2>1. 4 # 1 /\ 3 # 1 /\ 2 # 1
      OBVIOUS
    <2>2. lev[L1(n.mem, top, a)] = 1
      BY <1>4, Zenon DEF Whole
    <2> QED BY <1>8, <2>1, <2>2, Zenon
  <1>11. \/ u \in Own(m, others) /\ n.mem[u][j] = m.mem[u][j]
         \/ n.mem[u][j].w = w
    BY <1>1, <1>8, <1>9, <1>10, Zenon DEF Maps
  <1> QED BY <1>8, <1>9, <1>11, Zenon

\* Two walks have a directory entry in common only as long as their indices agree.
LEMMA CommonEntry ==
    ASSUME NEW m \in Memories, NEW top, NEW others, NEW lev, Tree(m, top, others, lev),
           NEW a \in Addresses, NEW b \in Addresses,
           Whole(m, top, others, a, lev), Whole(m, top, others, b, lev),
           NEW u, NEW j, OnWalk(m.mem, top, a, u, j), OnWalk(m.mem, top, b, u, j)
    PROVE  \E d \in 1 .. 3 : /\ Shares(a, b, d)
                             /\ \A c : Shares(a, c, d) => OnWalk(m.mem, top, c, u, j)
  <1>1. /\ a[1] \in Idx /\ a[2] \in Idx /\ a[3] \in Idx
        /\ b[1] \in Idx /\ b[2] \in Idx /\ b[3] \in Idx
    BY AddressParts, Zenon
  <1>2. Apart(m.mem, Own(m, others))
    BY Zenon DEF Tree
  <1>3. lev[top] = 4 /\ 4 # 3 /\ 4 # 2 /\ 3 # 2
    BY DEF Tree
  <1>4. 0 \notin Own(m, others)
    BY LayoutAssumption, Zenon DEF Own
  <1>5. L3(m.mem, top, a) = L3(m.mem, top, b) => a[1] = b[1]
    <2>1. /\ m.mem[top][a[1]].pfn = L3(m.mem, top, a)
          /\ m.mem[top][b[1]].pfn = L3(m.mem, top, b)
      BY Zenon DEF L3
    <2>2. top \in Own(m, others) /\ L3(m.mem, top, a) # 0
      BY <1>4, Zenon DEF Whole
    <2> QED BY <1>1, <1>2, <2>1, <2>2, OneEntry
  <1>6. L2(m.mem, top, a) = L2(m.mem, top, b) =>
           L3(m.mem, top, a) = L3(m.mem, top, b) /\ a[2] = b[2]
    <2>1. /\ m.mem[L3(m.mem, top, a)][a[2]].pfn = L2(m.mem, top, a)
          /\ m.mem[L3(m.mem, top, b)][b[2]].pfn = L2(m.mem, top, b)
      BY Zenon DEF L2
    <2>2. /\ L3(m.mem, top, a) \in Own(m, others) /\ L3(m.mem, top, b) \in Own(m, others)
          /\ L2(m.mem, top, a) # 0
      BY <1>4, Zenon DEF Whole
    <2> QED BY <1>1, <1>2, <2>1, <2>2, OneEntry
  <1>7. /\ \A c : Shares(a, c, 1) <=> c[1] = a[1]
        /\ \A c : Shares(a, c, 2) <=> c[1] = a[1] /\ c[2] = a[2]
        /\ \A c : Shares(a, c, 3) <=> c[1] = a[1] /\ c[2] = a[2] /\ c[3] = a[3]
    <2>1. /\ \A k : k \in 1 .. 1 <=> k = 1
          /\ \A k : k \in 1 .. 2 <=> k = 1 \/ k = 2
          /\ \A k : k \in 1 .. 3 <=> k = 1 \/ k = 2 \/ k = 3
      OBVIOUS
    <2> QED BY <2>1, Zenon DEF Shares
  <1>8. 1 \in 1 .. 3 /\ 2 \in 1 .. 3 /\ 3 \in 1 .. 3
    OBVIOUS
  <1>9. CASE u = top /\ j = a[1]
    <2>1. Shares(a, b, 1)
      BY <1>3, <1>7, <1>9, Zenon DEF OnWalk, Whole
    <2>2. \A c : Shares(a, c, 1) => OnWalk(m.mem, top, c, u, j)
      BY <1>7, <1>9, Zenon DEF OnWalk
    <2> QED BY <1>8, <2>1, <2>2, Zenon
  <1>10. CASE u = L3(m.mem, top, a) /\ j = a[2]
    <2>1. u = L3(m.mem, top, b) /\ j = b[2]
      BY <1>3, <1>10, Zenon DEF OnWalk, Whole
    <2>2. Shares(a, b, 2)
      BY <1>5, <1>7, <1>10, <2>1, Zenon
    <2>3. \A c : Shares(a, c, 2) => OnWalk(m.mem, top, c, u, j)
      BY <1>7, <1>10, Zenon DEF OnWalk, L3
    <2> QED BY <1>8, <2>2, <2>3, Zenon
  <1>11. CASE u = L2(m.mem, top, a) /\ j = a[3]
    <2>1. u = L2(m.mem, top, b) /\ j = b[3]
      BY <1>3, <1>11, Zenon DEF OnWalk, Whole
    <2>2. Shares(a, b, 3)
      BY <1>5, <1>6, <1>7, <1>11, <2>1, Zenon
    <2>3. \A c : Shares(a, c, 3) => OnWalk(m.mem, top, c, u, j)
      BY <1>7, <1>11, Zenon DEF OnWalk, L2, L3
    <2> QED BY <1>8, <2>2, <2>3, Zenon
  <1> QED BY <1>9, <1>10, <1>11, Zenon DEF OnWalk

-----------------------------------------------------------------------------

\* prepare_context_mm takes a top-level table; arg is the frame of the arguments,
\* which is the caller's until it is mapped.
Starts(m, m0, top, arg) ==
    /\ m \in Memories /\ m.mem[0] = initialize_page /\ FramesLeft(m)
    /\ top = os_pfn_alloc(m, OS_PT_REG)
    /\ arg = 0 \/ arg = os_pfn_alloc(m, USER_REG)
    /\ m0 = [mem |-> [m.mem EXCEPT ![top] = initialize_page],
             free |-> m.free \ {top, arg}]

Taken(m) == (OS_PT_REG \cup USER_REG) \ m.free
Others(m, arg) == Taken(m) \cup ({arg} \ {0})

Started(m, m0, top, arg) ==
    /\ Holding(m0, top, Others(m, arg), {})
    /\ 0 \notin Others(m, arg)
    /\ top \in OS_PT_REG \cap m.free
    /\ arg = 0 \/ arg \in USER_REG \cap m.free
    /\ m0.free \subseteq m.free
    /\ \A u \in Taken(m) \cap OS_PT_REG, j \in Idx : m0.mem[u][j] = m.mem[u][j]

\* It is a tree without a page.
LEMMA StartHolds ==
    ASSUME NEW m, NEW m0, NEW top, NEW arg, Starts(m, m0, top, arg)
    PROVE  Started(m, m0, top, arg)
  <1> DEFINE o == Others(m, arg)
  <1>1. /\ m \in Memories /\ m.mem[0] = initialize_page /\ FramesLeft(m)
        /\ top = os_pfn_alloc(m, OS_PT_REG)
        /\ arg = 0 \/ arg = os_pfn_alloc(m, USER_REG)
        /\ m0 = [mem |-> [m.mem EXCEPT ![top] = initialize_page],
                 free |-> m.free \ {top, arg}]
    BY Zenon DEF Starts
  <1>2. m.free \cap OS_PT_REG # {} /\ m.free \cap USER_REG # {}
    BY <1>1, Zenon DEF FramesLeft
  <1>3. top \in OS_PT_REG \cap m.free /\ (arg = 0 \/ arg \in USER_REG \cap m.free)
    BY <1>1, <1>2, Allocated
  <1>4. m0.mem = [m.mem EXCEPT ![top] = initialize_page] /\ m0.free = m.free \ {top, arg}
    BY <1>1
  <1>5. /\ m.mem \in [OS_PT_REG \cup {0} -> [Idx -> PTE]]
        /\ m.free \subseteq OS_PT_REG \cup USER_REG
    BY <1>1 DEF Memories
  <1>6. m0.mem[top] = initialize_page /\ m0.mem[0] = initialize_page
    BY <1>1, <1>3, <1>4, <1>5
  <1>7. m0 \in Memories
    <2>1. m0.mem \in [OS_PT_REG \cup {0} -> [Idx -> PTE]]
      BY <1>3, <1>4, <1>5, EntryFields
    <2> QED BY <1>1, <1>4, <1>5, <2>1 DEF Memories
  <1>8. 0 \notin o /\ o \cap m0.free = {}
    BY <1>3, <1>4, LayoutAssumption DEF Others, Taken
  <1>9. Own(m0, o) = {top} /\ Data(m0, o) = {}
    BY <1>3, <1>4, <1>5, LayoutAssumption DEF Own, Data, Others, Taken
  <1>10. \A i \in Idx : m0.mem[top][i].pfn = 0 /\ m0.mem[0][i].pfn = 0
    BY <1>6, EntryFields, Zenon
  <1>11. HasTree(m0, top, o)
    <2> DEFINE lev == [t \in {top} |-> 4]
    <2>1. lev \in [{top} -> 1 .. 4] /\ lev[top] = 4
      OBVIOUS
    <2> HIDE DEF lev, o
    <2>2. lev \in [Own(m0, o) -> 1 .. 4] /\ top \in Own(m0, o)
      BY <1>9, <2>1, Zenon
    <2>3. \A t \in Own(m0, o), i \in Idx : m0.mem[t][i].pfn = 0
      BY <1>9, <1>10, Zenon
    <2>4. (Own(m0, o) \ {top}) \cup Data(m0, o) = {}
      BY <1>9
    <2>5. Leads(m0.mem, Own(m0, o), Data(m0, o), lev) /\ Apart(m0.mem, Own(m0, o))
      BY <2>3, Zenon DEF Leads, Apart
    <2>6. Reached(m0.mem, Own(m0, o), Data(m0, o), top)
      BY <2>4, Zenon DEF Reached
    <2> QED BY <1>6, <2>1, <2>2, <2>5, <2>6, Zenon DEF Tree, HasTree
  <1>12. ASSUME NEW b \in Addresses PROVE Leaf(m0.mem, top, b).pfn = 0
    <2>1. b[1] \in Idx /\ b[2] \in Idx /\ b[3] \in Idx /\ b[4] \in Idx
      BY AddressParts, Zenon
    <2>2. L3(m0.mem, top, b) = 0
      BY <1>10, <2>1, Zenon DEF L3
    <2>3. L2(m0.mem, top, b) = 0
      BY <1>10, <2>1, <2>2, Zenon DEF L2
    <2>4. L1(m0.mem, top, b) = 0
      BY <1>10, <2>1, <2>3, Zenon DEF L1
    <2>5. Leaf(m0.mem, top, b) = m0.mem[L1(m0.mem, top, b)][b[4]]
      BY WalkIs
    <2> QED BY <1>10, <2>1, <2>4, <2>5, Zenon
  <1>13. Holding(m0, top, o, {})
    <2> HIDE DEF o
    <2>1. \A u \in Own(m0, o), j \in Idx : m0.mem[u][j].pfn = 0
      BY <1>9, <1>10, Zenon
    <2> QED BY <1>7, <1>8, <1>11, <1>12, <2>1, Zenon DEF Holding, Ready
  <1>14. \A u \in Taken(m) \cap OS_PT_REG, j \in Idx : m0.mem[u][j] = m.mem[u][j]
    <2>1. \A u \in Taken(m) \cap OS_PT_REG : u # top /\ u \in OS_PT_REG \cup {0}
      BY <1>3, Zenon DEF Taken
    <2> QED BY <1>4, <1>5, <2>1
  <1>15. m0.free \subseteq m.free
    BY <1>4, Zenon
  <1> QED BY <1>3, <1>8, <1>13, <1>14, <1>15, Zenon DEF Started

\* What MapPage needs to add the walk to a.
CanExtend(m, n, top, others, a, w, pfn, A) ==
    /\ Holding(m, top, others, A) /\ FramesLeft(m)
    /\ a \in Addresses \ A /\ w \in BOOLEAN
    /\ pfn = 0 \/ pfn \in others \cap USER_REG
    /\ 0 \notin others
    /\ n = MapPage(m, top, a, w, pfn)

\* MapPage adds a walk.
LEMMA MapExtends ==
    ASSUME NEW m, NEW n, NEW top, NEW others, NEW a, NEW w, NEW pfn, NEW A,
           CanExtend(m, n, top, others, a, w, pfn, A)
    PROVE  \E f : /\ Extends(m, n, top, others, a, w, f, A)
                  /\ f = pfn \/ (pfn = 0 /\ f \in m.free)
  <1>1. /\ Holding(m, top, others, A) /\ FramesLeft(m)
        /\ a \in Addresses /\ a \notin A /\ w \in BOOLEAN
        /\ pfn = 0 \/ pfn \in others \cap USER_REG
        /\ 0 \notin others
        /\ n = MapPage(m, top, a, w, pfn)
    BY Zenon DEF CanExtend
  <1>2. PICK k : k = assign_page_table_pages(m, top, a, w)
    BY Zenon
  <1>3. Mappable(m, k, n, top, others, a, w, w, pfn)
    BY <1>1, <1>2, Zenon DEF Mappable, MapPage, Holding
  <1>4. PICK f : /\ Maps(m, n, top, others, a, w, w, f)
                 /\ f \in {0, pfn} \/ f \in m.free
                 /\ f = pfn \/ f = 0 \/ pfn = 0
                 /\ Ready(n, top, others \ {f})
    BY <1>3, MapsPage
  <1>5. Extends(m, n, top, others, a, w, f, A)
    BY <1>1, <1>4, Zenon DEF Extends
  <1>6. Extended(n, top, others, a, w, f, A)
    BY <1>5, HoldsMore
  <1>7. f # 0
    BY <1>6, LayoutAssumption, Zenon DEF Extended
  <1> QED BY <1>4, <1>5, <1>7, Zenon

-----------------------------------------------------------------------------

\* The processor may write where the three directory entries and the last one
\* have the bit.
LEMMA WalkBits ==
    ASSUME NEW mem, NEW top, NEW b
    PROVE  Writable(mem, top, b) <=> /\ \A u, j : OnWalk(mem, top, b, u, j) => mem[u][j].w
                                     /\ Leaf(mem, top, b).w
  <1>1. Writable(mem, top, b) <=> /\ mem[top][b[1]].w
                                  /\ mem[L3(mem, top, b)][b[2]].w
                                  /\ mem[L2(mem, top, b)][b[3]].w
                                  /\ Leaf(mem, top, b).w
    BY WritableParts
  <1> QED BY <1>1, Zenon DEF OnWalk

\* The directory entries that page a would share with a page in A it shares with
\* one that is writable.
Covered(mem, top, a, A) ==
    \A b \in A, d \in 1 .. 3 : Shares(a, b, d) =>
        \E s \in A : Writable(mem, top, s) /\ Shares(a, s, d)

\* A page mapped for writing is then writable.
LEMMA NewWritable ==
    ASSUME NEW m, NEW n, NEW top, NEW others, NEW a, NEW f, NEW A,
           Extends(m, n, top, others, a, TRUE, f, A), Covered(m.mem, top, a, A)
    PROVE  Writable(n.mem, top, a)
  <1>1. /\ Holding(m, top, others, A) /\ a \in Addresses /\ A \subseteq Addresses
        /\ Maps(m, n, top, others, a, TRUE, TRUE, f) /\ n \in Memories
        /\ \E lev : Tree(n, top, others \ {f}, lev)
    BY Zenon DEF Extends, Holding, Ready, HasTree
  <1>2. Extended(n, top, others, a, TRUE, f, A)
    BY HoldsMore, Zenon
  <1>3. /\ Leaf(n.mem, top, a) = Entry(f, TRUE)
        /\ \A b \in A \cup {a} : Leaf(n.mem, top, b).pfn # 0
    BY <1>2, Zenon DEF Extended, Holding
  <1>4. Leaf(n.mem, top, a).w
    BY <1>3, EntryFields, Zenon
  <1>5. PICK lev : Tree(n, top, others \ {f}, lev)
    BY <1>1, Zenon
  <1>6. ASSUME NEW u, NEW j, OnWalk(n.mem, top, a, u, j) PROVE n.mem[u][j].w
    <2>1. \/ n.mem[u][j].w = TRUE
          \/ u \in Own(m, others) /\ j \in Idx /\ m.mem[u][j].pfn # 0
      BY <1>6, NewBits, Zenon
    <2>2. CASE u \in Own(m, others) /\ j \in Idx /\ m.mem[u][j].pfn # 0
      <3>1. PICK b \in A : OnSlot(m.mem, top, b, u, j)
        BY <1>1, <2>2, Zenon DEF Holding
      <3>2. b \in Addresses
        BY <1>1, Zenon
      <3>3. SameWalk(m.mem, n.mem, top, b)
        BY WalkKept, Zenon
      <3>4. OnSlot(n.mem, top, b, u, j)
        BY <3>1, <3>3, SameAccess
      <3>5. Whole(n, top, others \ {f}, b, lev)
        BY <1>1, <1>3, <1>5, <3>2, WholeWalk
      <3>6. Whole(n, top, others \ {f}, a, lev)
        BY <1>1, <1>3, <1>5, WholeWalk
      <3>7. OnWalk(n.mem, top, b, u, j)
        <4>1. lev[top] = 4 /\ 4 # 1 /\ 3 # 1 /\ 2 # 1
          BY <1>5 DEF Tree
        <4>2. lev[u] = 4 \/ lev[u] = 3 \/ lev[u] = 2
          BY <1>6, <3>6, <4>1, Zenon DEF OnWalk, Whole
        <4>3. u # L1(n.mem, top, b)
          BY <3>5, <4>1, <4>2, Zenon DEF Whole
        <4> QED BY <3>4, <4>3, Zenon DEF OnSlot
      <3>8. PICK d \in 1 .. 3 : /\ Shares(a, b, d)
                                /\ \A c : Shares(a, c, d) => OnWalk(n.mem, top, c, u, j)
        BY <1>1, <1>5, <1>6, <3>2, <3>5, <3>6, <3>7, CommonEntry
      <3>9. PICK s \in A : Writable(m.mem, top, s) /\ Shares(a, s, d)
        BY <3>8, Zenon DEF Covered
      <3>10. SameWalk(m.mem, n.mem, top, s)
        BY WalkKept, Zenon
      <3>11. Writable(n.mem, top, s)
        BY <3>9, <3>10, SameAccess
      <3>12. OnWalk(n.mem, top, s, u, j)
        BY <3>8, <3>9, Zenon
      <3> QED BY <3>11, <3>12, WalkBits
    <2> QED BY <2>1, <2>2, Zenon
  <1> QED BY <1>4, <1>6, WalkBits

-----------------------------------------------------------------------------

\* Memory n on the way from m to the tables of a context: they hold the pages of A,
\* and the frames that were taken in m are as they were.
Partial(m, n, top, others, A) ==
    /\ Holding(n, top, others, A) /\ 0 \notin others
    /\ Taken(m) \subseteq others
    /\ n.free \subseteq m.free
    /\ \A u \in Taken(m) \cap OS_PT_REG, j \in Idx : n.mem[u][j] = m.mem[u][j]

\* Another page is mapped on the way.
Grows(m, n, n2, top, others, a, w, pfn, A) ==
    /\ Partial(m, n, top, others, A)
    /\ CanExtend(n, n2, top, others, a, w, pfn, A)
    /\ pfn \notin Taken(m)

Grew(m, n, n2, top, others, a, w, pfn, A) ==
    \E f : /\ Extends(n, n2, top, others, a, w, f, A)
           /\ Partial(m, n2, top, others \ {f}, A \cup {a})
           /\ others \ {f} = others \ {pfn}

\* A mapping that adds a walk to a context half built leaves one built further.
LEMMA GrowStep ==
    ASSUME NEW m, NEW n, NEW n2, NEW top, NEW others, NEW a, NEW w, NEW pfn, NEW A,
           Grows(m, n, n2, top, others, a, w, pfn, A)
    PROVE  Grew(m, n, n2, top, others, a, w, pfn, A)
  <1>1. /\ Partial(m, n, top, others, A)
        /\ CanExtend(n, n2, top, others, a, w, pfn, A)
        /\ pfn \notin Taken(m)
    BY Zenon DEF Grows
  <1>2. PICK f : /\ Extends(n, n2, top, others, a, w, f, A)
                 /\ f = pfn \/ (pfn = 0 /\ f \in n.free)
    BY <1>1, MapExtends
  <1>3. Extended(n2, top, others, a, w, f, A)
    BY <1>2, HoldsMore
  <1>4. Holding(n2, top, others \ {f}, A \cup {a})
    BY <1>3, Zenon DEF Extended
  <1>5. others \cap n.free = {} /\ 0 \notin others /\ Taken(m) \subseteq others
    BY <1>1, Zenon DEF Partial, Holding, Ready
  <1>6. others \ {f} = others \ {pfn}
    BY <1>2, <1>5
  <1>7. Taken(m) \subseteq others \ {f} /\ 0 \notin others \ {f}
    BY <1>1, <1>5, <1>6
  <1>8. /\ n2.free \subseteq n.free
        /\ \A u \in others \cap OS_PT_REG, j \in Idx : n2.mem[u][j] = n.mem[u][j]
    BY <1>2, Zenon DEF Extends, Maps
  <1>9. ASSUME NEW u \in Taken(m) \cap OS_PT_REG, NEW j \in Idx
        PROVE  n2.mem[u][j] = m.mem[u][j]
    <2>1. n.mem[u][j] = m.mem[u][j]
      BY <1>1, Zenon DEF Partial
    <2> QED BY <1>5, <1>8, <2>1
  <1>10. n2.free \subseteq m.free
    BY <1>1, <1>8, Zenon DEF Partial
  <1>11. Partial(m, n2, top, others \ {f}, A \cup {a})
    BY <1>4, <1>7, <1>9, <1>10, Zenon DEF Partial
  <1> QED BY <1>2, <1>6, <1>11, Zenon DEF Grew

\* The three mappings of prepare_context_mm.
Prepares(m, m0, m1, m2, n, top, arg, l) ==
    /\ Starts(m, m0, top, arg) /\ l \in Layouts
    /\ FramesLeft(m0) /\ FramesLeft(m1) /\ FramesLeft(m2)
    /\ m1 = MapPage(m0, top, l.stack, TRUE, 0)
    /\ m2 = MapPage(m1, top, l.code, FALSE, 0)
    /\ n = MapPage(m2, top, l.data, TRUE, arg)

\* The pages of a layout are different addresses.
LEMMA LayoutPages ==
    ASSUME NEW l \in Layouts
    PROVE  /\ l.stack \in Addresses /\ l.code \in Addresses /\ l.data \in Addresses
           /\ l.stack # l.code /\ l.code # l.data /\ l.data # l.stack
           /\ \A a \in PagesOf(l) : a \in Addresses /\ a[2] # OS_INDEX
  BY ContextAssumption, Zenon DEF PagesOf, Addresses, Idx

\* The context has its three pages, with the rights of their segments.
Prepared(m, n, top, l) ==
    /\ Partial(m, n, top, Taken(m), PagesOf(l))
    /\ BitsOK(n.mem, top, l)

\* The rights to the pages of A are what they were, those to page a are new.
GrewWith(m, n, n2, top, others, a, w, pfn, A) ==
    /\ Partial(m, n2, top, others \ {pfn}, A \cup {a})
    /\ \A b \in A : Writable(n2.mem, top, b) = Writable(n.mem, top, b)
    /\ w = TRUE /\ Covered(n.mem, top, a, A) => Writable(n2.mem, top, a)
    /\ w = FALSE => ~Writable(n2.mem, top, a)

\* A page that is mapped for writing is writable, and one that is not is not.
LEMMA GrewBits ==
    ASSUME NEW m, NEW n, NEW n2, NEW top, NEW others, NEW a, NEW w, NEW pfn, NEW A,
           Grew(m, n, n2, top, others, a, w, pfn, A)
    PROVE  GrewWith(m, n, n2, top, others, a, w, pfn, A)
  <1>1. PICK f : /\ Extends(n, n2, top, others, a, w, f, A)
                 /\ Partial(m, n2, top, others \ {f}, A \cup {a})
                 /\ others \ {f} = others \ {pfn}
    BY Zenon DEF Grew
  <1>2. ASSUME NEW b \in A PROVE Writable(n2.mem, top, b) = Writable(n.mem, top, b)
    <2>1. SameWalk(n.mem, n2.mem, top, b)
      BY <1>1, WalkKept
    <2> QED BY <2>1, SameAccess
  <1>3. ASSUME w = TRUE, Covered(n.mem, top, a, A) PROVE Writable(n2.mem, top, a)
    <2>1. Extends(n, n2, top, others, a, TRUE, f, A)
      BY <1>1, <1>3, Zenon
    <2> QED BY <1>3, <2>1, NewWritable, Zenon
  <1>4. ASSUME w = FALSE PROVE ~Writable(n2.mem, top, a)
    <2>1. Extended(n2, top, others, a, w, f, A)
      BY <1>1, HoldsMore
    <2>2. Leaf(n2.mem, top, a) = Entry(f, FALSE)
      BY <1>4, <2>1, Zenon DEF Extended
    <2>3. ~Leaf(n2.mem, top, a).w
      BY <2>2, EntryFields, Zenon
    <2> QED BY <2>3, WalkBits
  <1>5. Partial(m, n2, top, others \ {pfn}, A \cup {a})
    BY <1>1, Zenon
  <1> QED BY <1>2, <1>3, <1>4, <1>5, Zenon DEF GrewWith

\* prepare_context_mm prepares the context, whether or not data gets the frame of
\* the arguments.
LEMMA PreparedOK ==
    ASSUME NEW m, NEW m0, NEW m1, NEW m2, NEW n, NEW top, NEW arg, NEW l,
           Prepares(m, m0, m1, m2, n, top, arg, l)
    PROVE  Prepared(m, n, top, l)
  <1> DEFINE o == Others(m, arg)
  <1>1. /\ Starts(m, m0, top, arg) /\ l \in Layouts
        /\ FramesLeft(m0) /\ FramesLeft(m1) /\ FramesLeft(m2)
        /\ m1 = MapPage(m0, top, l.stack, TRUE, 0)
        /\ m2 = MapPage(m1, top, l.code, FALSE, 0)
        /\ n = MapPage(m2, top, l.data, TRUE, arg)
    BY Zenon DEF Prepares
  <1>2. Started(m, m0, top, arg)
    BY <1>1, StartHolds
  <1>3. /\ l.stack \in Addresses /\ l.code \in Addresses /\ l.data \in Addresses
        /\ l.stack # l.code /\ l.code # l.data /\ l.data # l.stack
    BY <1>1, LayoutPages
  <1>4. /\ 0 \notin o /\ Taken(m) \subseteq o
        /\ arg = 0 \/ arg \in o \cap USER_REG
        /\ 0 \notin Taken(m) /\ arg \notin Taken(m)
        /\ o \ {0} = o /\ o \ {arg} = Taken(m)
    <2>1. /\ 0 \notin Others(m, arg)
          /\ arg = 0 \/ arg \in USER_REG \cap m.free
      BY <1>2, Zenon DEF Started
    <2>2. arg \notin Taken(m) /\ 0 \notin Taken(m)
      BY <2>1, LayoutAssumption DEF Taken
    <2> HIDE DEF Taken
    <2> QED BY <2>1, <2>2 DEF Others
  <1> HIDE DEF o
  <1>5. Partial(m, m0, top, o, {})
    BY <1>2, <1>4, Zenon DEF Started, Partial, o
  <1>6. Grew(m, m0, m1, top, o, l.stack, TRUE, 0, {})
    <2>1. CanExtend(m0, m1, top, o, l.stack, TRUE, 0, {})
      BY <1>1, <1>3, <1>4, <1>5, Zenon DEF CanExtend, Partial
    <2>2. Grows(m, m0, m1, top, o, l.stack, TRUE, 0, {})
      BY <1>4, <1>5, <2>1, Zenon DEF Grows
    <2> QED BY <2>2, GrowStep, Zenon
  <1>7. Partial(m, m1, top, o, {l.stack}) /\ Writable(m1.mem, top, l.stack)
    <2>1. Covered(m0.mem, top, l.stack, {})
      BY Zenon DEF Covered
    <2>2. {} \cup {l.stack} = {l.stack}
      BY Zenon
    <2>3. GrewWith(m, m0, m1, top, o, l.stack, TRUE, 0, {})
      BY <1>6, GrewBits, Zenon
    <2> QED BY <1>4, <2>1, <2>2, <2>3, Zenon DEF GrewWith
  <1>8. Grew(m, m1, m2, top, o, l.code, FALSE, 0, {l.stack})
    <2>1. CanExtend(m1, m2, top, o, l.code, FALSE, 0, {l.stack})
      BY <1>1, <1>3, <1>4, <1>7, Zenon DEF CanExtend, Partial
    <2>2. Grows(m, m1, m2, top, o, l.code, FALSE, 0, {l.stack})
      BY <1>4, <1>7, <2>1, Zenon DEF Grows
    <2> QED BY <2>2, GrowStep, Zenon
  <1>9. /\ Partial(m, m2, top, o, {l.stack, l.code})
        /\ Writable(m2.mem, top, l.stack) /\ ~Writable(m2.mem, top, l.code)
    <2>1. {l.stack} \cup {l.code} = {l.stack, l.code}
      BY Zenon
    <2>2. GrewWith(m, m1, m2, top, o, l.code, FALSE, 0, {l.stack})
      BY <1>8, GrewBits, Zenon
    <2> QED BY <1>4, <1>7, <2>1, <2>2, Zenon DEF GrewWith
  <1>10. Grew(m, m2, n, top, o, l.data, TRUE, arg, {l.stack, l.code})
    <2>1. CanExtend(m2, n, top, o, l.data, TRUE, arg, {l.stack, l.code})
      BY <1>1, <1>3, <1>4, <1>9, Zenon DEF CanExtend, Partial
    <2>2. Grows(m, m2, n, top, o, l.data, TRUE, arg, {l.stack, l.code})
      BY <1>4, <1>9, <2>1, Zenon DEF Grows
    <2> QED BY <2>2, GrowStep, Zenon
  <1>11. /\ Partial(m, n, top, Taken(m), PagesOf(l))
         /\ Writable(n.mem, top, l.stack) /\ ~Writable(n.mem, top, l.code)
    <2>1. {l.stack, l.code} \cup {l.data} = PagesOf(l)
      BY Zenon DEF PagesOf
    <2>2. l.stack \in {l.stack, l.code} /\ l.code \in {l.stack, l.code}
      BY Zenon
    <2>3. GrewWith(m, m2, n, top, o, l.data, TRUE, arg, {l.stack, l.code})
      BY <1>10, GrewBits, Zenon
    <2> QED BY <1>4, <1>9, <2>1, <2>2, <2>3, Zenon DEF GrewWith
  <1>12. ASSUME Separated(l) PROVE Writable(n.mem, top, l.data)
    <2>1. Covered(m2.mem, top, l.data, {l.stack, l.code})
      BY <1>9, <1>12, Zenon DEF Covered, Separated
    <2>2. GrewWith(m, m2, n, top, o, l.data, TRUE, arg, {l.stack, l.code})
      BY <1>10, GrewBits, Zenon
    <2> QED BY <2>1, <2>2, Zenon DEF GrewWith
  <1> QED BY <1>11, <1>12, Zenon DEF Prepared, BitsOK

-----------------------------------------------------------------------------

\* What prepare_context_mm took is what the three walks need.
LEMMA PreparedBuilt ==
    ASSUME NEW m \in Memories, NEW n, NEW top, NEW l \in Layouts, Prepared(m, n, top, l)
    PROVE  ContextOK(n.mem, m.free \ n.free, top, l)
  <1> DEFINE o == Taken(m)
             own == m.free \ n.free
  <1>1. /\ Holding(n, top, o, PagesOf(l)) /\ n \in Memories /\ HasTree(n, top, o)
        /\ BitsOK(n.mem, top, l) /\ n.free \subseteq m.free
    BY Zenon DEF Prepared, Partial, Holding, Ready
  <1>2. m.free \subseteq OS_PT_REG \cup USER_REG
    BY DEF Memories
  <1>3. own \cap OS_PT_REG = Own(n, o) /\ own \cap USER_REG = Data(n, o)
    BY <1>1, <1>2 DEF Own, Data, Taken
  <1>4. PICK lev : Tree(n, top, o, lev)
    BY <1>1, Zenon DEF HasTree
  <1> HIDE DEF o, own
  <1>5. top \in own \cap OS_PT_REG /\ lev[top] = 4
    BY <1>3, <1>4, Zenon DEF Tree
  <1>6. ASSUME NEW a \in PagesOf(l) PROVE Whole(n, top, o, a, lev) /\ a \in Addresses
    <2>1. a \in Addresses /\ Leaf(n.mem, top, a).pfn # 0
      BY <1>1, Zenon DEF Holding
    <2> QED BY <1>1, <1>4, <2>1, WholeWalk
  <1>7. \A a \in PagesOf(l) : WalkOwned(n.mem, own, top, a, lev)
    BY <1>3, <1>6, Zenon DEF Whole, WalkOwned
  <1>8. ASSUME NEW a \in PagesOf(l), NEW b \in PagesOf(l),
               Leaf(n.mem, top, a).pfn = Leaf(n.mem, top, b).pfn
        PROVE  a = b
    <2>1. a \in Addresses /\ b \in Addresses /\ Leaf(n.mem, top, a).pfn # 0
      BY <1>1, Zenon DEF Holding
    <2>2. /\ Leaf(n.mem, top, a) = n.mem[L1(n.mem, top, a)][a[4]]
          /\ Leaf(n.mem, top, b) = n.mem[L1(n.mem, top, b)][b[4]]
      BY WalkIs
    <2>3. /\ L1(n.mem, top, a) \in Own(n, o) /\ L1(n.mem, top, b) \in Own(n, o)
          /\ a[4] \in Idx /\ b[4] \in Idx
      BY <1>6, <2>1, AddressParts, Zenon DEF Whole
    <2>4. Apart(n.mem, Own(n, o))
      BY <1>4, Zenon DEF Tree
    <2>5. L1(n.mem, top, a) = L1(n.mem, top, b) /\ a[4] = b[4]
      BY <1>8, <2>1, <2>2, <2>3, <2>4, OneEntry
    <2>6. L1(n.mem, top, a) # 0
      BY <2>3, LayoutAssumption, Zenon DEF Own
    <2>7. a[1] = b[1] /\ a[2] = b[2] /\ a[3] = b[3]
      BY <1>1, <1>4, <2>1, <2>5, <2>6, SlotUnique
    <2> QED BY <2>1, <2>5, <2>7 DEF Addresses
  <1>9. ASSUME NEW f \in own, f # top
        PROVE  \E a \in PagesOf(l) : f \in WalkFrames(n.mem, top, a)
    <2>1. f \in (Own(n, o) \ {top}) \cup Data(n, o) /\ f # 0
      BY <1>2, <1>3, <1>9, LayoutAssumption, Zenon DEF own
    <2>2. PICK t \in Own(n, o), i \in Idx : n.mem[t][i].pfn = f
      BY <1>4, <2>1, Zenon DEF Tree, Reached
    <2>3. PICK a \in PagesOf(l) : OnSlot(n.mem, top, a, t, i)
      BY <1>1, <2>1, <2>2, Zenon DEF Holding
    <2>4. Leaf(n.mem, top, a) = n.mem[L1(n.mem, top, a)][a[4]]
      BY WalkIs
    <2>5. f \in WalkFrames(n.mem, top, a)
      BY <2>2, <2>3, <2>4, Zenon DEF OnSlot, OnWalk, WalkFrames, L3, L2, L1
    <2> QED BY <2>5, Zenon
  <1>10. \A t \in own \cap OS_PT_REG, i \in Idx :
           n.mem[t][i].pfn # 0 => \E a \in PagesOf(l) : OnSlot(n.mem, top, a, t, i)
    BY <1>1, <1>3, Zenon DEF Holding
  <1>11. Built(n.mem, own, top, l, lev)
    BY <1>5, <1>7, <1>8, <1>9, <1>10, Zenon DEF Built
  <1> QED BY <1>1, <1>11, Zenon DEF ContextOK, own

\* The tables in own are as they were, or have the system's entry.
Kept(mem, mem2, own, top, l) ==
    \A t \in own \cap OS_PT_REG, i \in Idx :
        \/ mem2[t][i] = mem[t][i]
        \/ t = L3(mem, top, l.stack) /\ i = OS_INDEX

\* A context whose tables are kept is as good as it was.
LEMMA ContextKept ==
    ASSUME NEW mem, NEW mem2, NEW own, NEW top, NEW l,
           ContextOK(mem, own, top, l), Kept(mem, mem2, own, top, l)
    PROVE  ContextOK(mem2, own, top, l)
  <1>1. PICK lev : Built(mem, own, top, l, lev)
    BY Zenon DEF ContextOK
  <1>2. /\ BitsOK(mem, top, l) /\ l \in Layouts
        /\ top \in own \cap OS_PT_REG /\ lev[top] = 4
        /\ \A a \in PagesOf(l) : WalkOwned(mem, own, top, a, lev)
    BY <1>1, Zenon DEF ContextOK, Built
  <1>3. l.stack \in PagesOf(l) /\ l.code \in PagesOf(l) /\ l.data \in PagesOf(l)
    BY Zenon DEF PagesOf
  <1>4. lev[L3(mem, top, l.stack)] = 3 /\ 4 # 3 /\ 2 # 3 /\ 1 # 3
    BY <1>2, <1>3 DEF WalkOwned
  <1>5. ASSUME NEW a \in PagesOf(l) PROVE SameWalk(mem, mem2, top, a)
    <2>1. a \in Addresses /\ a[2] # OS_INDEX
      BY <1>2, LayoutPages
    <2>2. a[1] \in Idx /\ a[2] \in Idx /\ a[3] \in Idx /\ a[4] \in Idx
      BY <2>1, AddressParts, Zenon
    <2>3. /\ L3(mem, top, a) \in own \cap OS_PT_REG
          /\ L2(mem, top, a) \in own \cap OS_PT_REG /\ lev[L2(mem, top, a)] = 2
          /\ L1(mem, top, a) \in own \cap OS_PT_REG /\ lev[L1(mem, top, a)] = 1
      BY <1>2, Zenon DEF WalkOwned
    <2>4. mem2[top][a[1]] = mem[top][a[1]]
      BY <1>2, <1>4, <2>2, Zenon DEF Kept
    <2>5. mem2[L3(mem, top, a)][a[2]] = mem[L3(mem, top, a)][a[2]]
      BY <2>1, <2>2, <2>3, Zenon DEF Kept
    <2>6. mem2[L2(mem, top, a)][a[3]] = mem[L2(mem, top, a)][a[3]]
      BY <1>4, <2>2, <2>3, Zenon DEF Kept
    <2>7. mem2[L1(mem, top, a)][a[4]] = mem[L1(mem, top, a)][a[4]]
      BY <1>4, <2>2, <2>3, Zenon DEF Kept
    <2>8. L3(mem2, top, a) = L3(mem, top, a)
      BY <2>4, Zenon DEF L3
    <2>9. L2(mem2, top, a) = L2(mem, top, a)
      BY <2>5, <2>8, Zenon DEF L2
    <2>10. L1(mem2, top, a) = L1(mem, top, a)
      BY <2>6, <2>9, Zenon DEF L1
    <2> QED BY <2>4, <2>5, <2>6, <2>7, <2>8, <2>9, <2>10, Zenon DEF SameWalk
  <1>6. ASSUME NEW a \in PagesOf(l)
        PROVE  /\ Leaf(mem2, top, a) = Leaf(mem, top, a)
               /\ Writable(mem2, top, a) = Writable(mem, top, a)
               /\ \A u, j : OnSlot(mem2, top, a, u, j) <=> OnSlot(mem, top, a, u, j)
               /\ WalkFrames(mem2, top, a) = WalkFrames(mem, top, a)
    BY <1>5, SameAccess
  <1>7. BitsOK(mem2, top, l)
    BY <1>2, <1>3, <1>6, Zenon DEF BitsOK
  <1>8. \A a \in PagesOf(l) : WalkOwned(mem2, own, top, a, lev)
    BY <1>2, <1>5, <1>6, Zenon DEF WalkOwned, SameWalk
  <1>9. \A a, b \in PagesOf(l) : Leaf(mem2, top, a).pfn = Leaf(mem2, top, b).pfn => a = b
    BY <1>1, <1>6, Zenon DEF Built
  <1>10. \A f \in own : f = top \/ \E a \in PagesOf(l) : f \in WalkFrames(mem2, top, a)
    BY <1>1, <1>6, Zenon DEF Built
  <1>11. ASSUME NEW t \in own \cap OS_PT_REG, NEW i \in Idx, mem2[t][i].pfn # 0
         PROVE  \/ t = L3(mem2, top, l.stack) /\ i = OS_INDEX
                \/ \E a \in PagesOf(l) : OnSlot(mem2, top, a, t, i)
    <2>1. L3(mem2, top, l.stack) = L3(mem, top, l.stack)
      BY <1>3, <1>5, Zenon DEF SameWalk
    <2>2. CASE mem2[t][i] = mem[t][i]
      <3>1. \/ t = L3(mem, top, l.stack) /\ i = OS_INDEX
            \/ \E a \in PagesOf(l) : OnSlot(mem, top, a, t, i)
        BY <1>1, <1>11, <2>2, Zenon DEF Built
      <3> QED BY <1>6, <2>1, <3>1, Zenon
    <2> QED BY <2>1, <2>2, Zenon DEF Kept
  <1> QED BY <1>2, <1>7, <1>8, <1>9, <1>10, <1>11, Zenon DEF ContextOK, Built

-----------------------------------------------------------------------------

\* The list s has each frame of F once, and at most k of them.
Listed(s, F, k) ==
    /\ s \in Seq(Nat) /\ IsInjective(s)
    /\ Range(s) = F /\ Len(s) <= k

\* cleanup_context_mm starts with a list of the top table only.
LEMMA ListOne == ASSUME NEW x \in Nat PROVE Listed(<<x>>, {x}, 1)
  BY DEF Listed, IsInjective, Range

\* A frame is added when the list does not have it.
LEMMA AddOnceOK ==
    ASSUME NEW s, NEW F, NEW k \in Nat, NEW f \in Nat, Listed(s, F, k)
    PROVE  Listed(AddOnce(s, f), F \cup {f}, k + 1)
  <1>1. s \in Seq(Nat) /\ IsInjective(s) /\ Range(s) = F /\ Len(s) <= k
    BY Zenon DEF Listed
  <1>2. CASE f \in F
    <2>1. AddOnce(s, f) = s
      BY <1>1, <1>2, Zenon DEF AddOnce, exist_in_array
    <2>2. F \cup {f} = F
      BY <1>2
    <2>3. Len(s) <= k + 1
      BY <1>1
    <2> QED BY <1>1, <2>1, <2>2, <2>3, Zenon DEF Listed
  <1>3. CASE f \notin F
    <2>1. AddOnce(s, f) = Append(s, f)
      BY <1>1, <1>3, Zenon DEF AddOnce, exist_in_array
    <2>2. /\ Append(s, f) \in Seq(Nat) /\ Len(Append(s, f)) = Len(s) + 1
          /\ \A i \in 1 .. Len(s) : Append(s, f)[i] = s[i]
          /\ Append(s, f)[Len(s) + 1] = f
          /\ DOMAIN Append(s, f) = 1 .. Len(s) + 1 /\ DOMAIN s = 1 .. Len(s) /\ Len(s) \in Nat
      BY <1>1
    <2>3. \A i \in 1 .. Len(s) : s[i] # f
      BY <1>1, <1>3, <2>2, Zenon DEF Range
    <2>4. \A i \in 1 .. Len(s) + 1 : i \in 1 .. Len(s) \/ i = Len(s) + 1
      BY <2>2
    <2>5. IsInjective(Append(s, f))
      BY <1>1, <2>2, <2>3, <2>4, Zenon DEF IsInjective
    <2>6. Range(Append(s, f)) = F \cup {f}
      <3>1. 1 .. Len(s) \subseteq 1 .. Len(s) + 1 /\ Len(s) + 1 \in 1 .. Len(s) + 1
        BY <2>2
      <3> QED BY <1>1, <2>2, <2>4, <3>1, Zenon DEF Range
    <2>7. Len(Append(s, f)) <= k + 1
      BY <1>1, <2>2
    <2> QED BY <2>1, <2>2, <2>5, <2>6, <2>7, Zenon DEF Listed
  <1> QED BY <1>2, <1>3, Zenon

\* The three tables of a walk are added.
LEMMA AddWalk ==
    ASSUME NEW s, NEW F, NEW k \in Nat, NEW c, NEW a, Listed(s, F, k),
           L3(cmem, ctx[c].pgd, a) \in Nat, L2(cmem, ctx[c].pgd, a) \in Nat,
           L1(cmem, ctx[c].pgd, a) \in Nat
    PROVE  Listed(add_pages_to_array(s, c, a),
                  F \cup {L3(cmem, ctx[c].pgd, a), L2(cmem, ctx[c].pgd, a),
                          L1(cmem, ctx[c].pgd, a)}, k + 3)
  <1> DEFINE l3 == L3(cmem, ctx[c].pgd, a)
             l2 == L2(cmem, ctx[c].pgd, a)
             l1 == L1(cmem, ctx[c].pgd, a)
             s3 == AddOnce(s, l3)
             s2 == AddOnce(s3, l2)
  <1>1. add_pages_to_array(s, c, a) = AddOnce(s2, l1)
    <2>1. /\ Tables(cmem, ctx[c].pgd, a)[2] = l3
          /\ Tables(cmem, ctx[c].pgd, a)[3] = l2
          /\ Tables(cmem, ctx[c].pgd, a)[4] = l1
      BY WalkIs
    <2> QED BY <2>1, Zenon DEF add_pages_to_array
  <1>2. l3 \in Nat /\ l2 \in Nat /\ l1 \in Nat
    BY Zenon
  <1> HIDE DEF l3, l2, l1
  <1>3. Listed(s3, F \cup {l3}, k + 1)
    BY <1>2, AddOnceOK
  <1> HIDE DEF s3
  <1>4. Listed(s2, (F \cup {l3}) \cup {l2}, (k + 1) + 1)
    BY <1>2, <1>3, AddOnceOK
  <1> HIDE DEF s2
  <1>5. Listed(AddOnce(s2, l1), ((F \cup {l3}) \cup {l2}) \cup {l1}, ((k + 1) + 1) + 1)
    BY <1>2, <1>4, AddOnceOK
  <1>6. ((F \cup {l3}) \cup {l2}) \cup {l1} = F \cup {l3, l2, l1} /\ ((k + 1) + 1) + 1 = k + 3
    BY <1>2
  <1> QED BY <1>1, <1>5, <1>6, Zenon DEF l3, l2, l1

\* Two lists without a common frame.
LEMMA ListBoth ==
    ASSUME NEW s, NEW F, NEW k, NEW r, NEW G, NEW h, Listed(s, F, k), Listed(r, G, h),
           F \cap G = {}
    PROVE  IsInjective(s \o r) /\ Range(s \o r) = F \cup G
  <1>1. /\ s \in Seq(Nat) /\ IsInjective(s) /\ Range(s) = F
        /\ r \in Seq(Nat) /\ IsInjective(r) /\ Range(r) = G
    BY Zenon DEF Listed
  <1>2. /\ Len(s) \in Nat /\ Len(r) \in Nat /\ DOMAIN s = 1 .. Len(s) /\ DOMAIN r = 1 .. Len(r)
        /\ DOMAIN (s \o r) = 1 .. Len(s) + Len(r)
        /\ \A i \in 1 .. Len(s) : (s \o r)[i] = s[i]
        /\ \A i \in 1 .. Len(r) : (s \o r)[Len(s) + i] = r[i]
    BY <1>1
  <1>3. \A i \in 1 .. Len(s) + Len(r) :
           \/ i \in 1 .. Len(s)
           \/ \E j \in 1 .. Len(r) : i = Len(s) + j
    <2>1. \A i \in 1 .. Len(s) + Len(r) :
             i \in 1 .. Len(s) \/ (i - Len(s) \in 1 .. Len(r) /\ i = Len(s) + (i - Len(s)))
      BY <1>2
    <2> QED BY <2>1, Zenon
  <1>4. \A i \in 1 .. Len(s), j \in 1 .. Len(r) : s[i] # r[j]
    BY <1>1, <1>2, Zenon DEF Range
  <1>5. IsInjective(s \o r)
    <2> SUFFICES ASSUME NEW i \in 1 .. Len(s) + Len(r), NEW j \in 1 .. Len(s) + Len(r),
                        (s \o r)[i] = (s \o r)[j]
                 PROVE  i = j
      BY <1>2, Zenon DEF IsInjective
    <2>1. CASE i \in 1 .. Len(s) /\ j \in 1 .. Len(s)
      BY <1>1, <1>2, <2>1, Zenon DEF IsInjective
    <2>2. ASSUME NEW p \in 1 .. Len(r), j = Len(s) + p PROVE i = j
      <3>1. (s \o r)[i] = r[p]
        BY <1>2, <2>2, Zenon
      <3>2. CASE i \in 1 .. Len(s)
        BY <1>2, <1>4, <3>1, <3>2, Zenon
      <3>3. ASSUME NEW q \in 1 .. Len(r), i = Len(s) + q PROVE i = j
        <4>1. r[q] = r[p]
          BY <1>2, <3>1, <3>3, Zenon
        <4> QED BY <1>1, <1>2, <2>2, <3>3, <4>1, Zenon DEF IsInjective
      <3> QED BY <1>3, <3>2, <3>3, Zenon
    <2>3. ASSUME NEW q \in 1 .. Len(r), i = Len(s) + q, j \in 1 .. Len(s) PROVE i = j
      <3>1. s[j] = r[q]
        BY <1>2, <2>3, Zenon
      <3> QED BY <1>4, <2>3, <3>1, Zenon
    <2> QED BY <1>3, <2>1, <2>2, <2>3, Zenon
  <1>6. Range(s \o r) = F \cup G
    <2>1. /\ 1 .. Len(s) \subseteq 1 .. Len(s) + Len(r)
          /\ \A j \in 1 .. Len(r) : Len(s) + j \in 1 .. Len(s) + Len(r)
      BY <1>2
    <2>2. ASSUME NEW x \in Range(s \o r) PROVE x \in F \cup G
      <3>1. PICK i \in 1 .. Len(s) + Len(r) : x = (s \o r)[i]
        BY <1>2, Zenon DEF Range
      <3>2. CASE i \in 1 .. Len(s)
        BY <1>1, <1>2, <3>1, <3>2, Zenon DEF Range
      <3>3. ASSUME NEW j \in 1 .. Len(r), i = Len(s) + j PROVE x \in G
        BY <1>1, <1>2, <3>1, <3>3, Zenon DEF Range
      <3> QED BY <1>3, <3>2, <3>3, Zenon
    <2>3. ASSUME NEW x \in F PROVE x \in Range(s \o r)
      <3>1. PICK i \in 1 .. Len(s) : x = s[i]
        BY <1>1, <1>2, Zenon DEF Range
      <3> QED BY <1>2, <2>1, <3>1, Zenon DEF Range
    <2>4. ASSUME NEW x \in G PROVE x \in Range(s \o r)
      <3>1. PICK j \in 1 .. Len(r) : x = r[j]
        BY <1>1, <1>2, Zenon DEF Range
      <3> QED BY <1>2, <2>1, <3>1, Zenon DEF Range
    <2> QED BY <2>2, <2>3, <2>4, Zenon
  <1> QED BY <1>5, <1>6, Zenon

-----------------------------------------------------------------------------

\* What cleanup_context_mm goes through: the tables and then the pages.
GivesBack(c) ==
    \E F, G : /\ Listed(pfn_array(c), F, 10) /\ Listed(data_pfns(c), G, 3)
              /\ F \subseteq OS_PT_REG /\ F \cap G = {} /\ F \cup G = given[c]

\* The three walks list the tables of the context, whichever they share.
LEMMA ListsGiven ==
    ASSUME ContextInv, NEW c \in Live
    PROVE  GivesBack(c)
  <1> DEFINE top == ctx[c].pgd
             l == ctx[c].mms
             own == given[c]
             W(a) == {L3(cmem, top, a), L2(cmem, top, a), L1(cmem, top, a)}
             F == (({top} \cup W(l.stack)) \cup W(l.code)) \cup W(l.data)
             d(a) == Leaf(cmem, top, a).pfn
             G == {d(l.stack), d(l.code), d(l.data)}
  <1>1. PICK lev : Built(cmem, own, top, l, lev)
    BY Zenon DEF ContextInv, ContextOK
  <1>2. /\ l \in Layouts /\ top \in own \cap OS_PT_REG
        /\ \A a \in PagesOf(l) : WalkOwned(cmem, own, top, a, lev)
        /\ \A a, b \in PagesOf(l) : d(a) = d(b) => a = b
        /\ \A f \in own : f = top \/ \E a \in PagesOf(l) : f \in WalkFrames(cmem, top, a)
    BY <1>1, Zenon DEF Built
  <1>3. l.stack \in PagesOf(l) /\ l.code \in PagesOf(l) /\ l.data \in PagesOf(l)
    BY Zenon DEF PagesOf
  <1>4. \A a \in PagesOf(l) : a = l.stack \/ a = l.code \/ a = l.data
    BY Zenon DEF PagesOf
  <1>5. l.stack # l.code /\ l.code # l.data /\ l.data # l.stack
    BY <1>2, LayoutPages
  <1> HIDE DEF top, l, own
  <1>6. \A a \in PagesOf(l) : /\ W(a) \subseteq own \cap OS_PT_REG
                              /\ d(a) \in own \cap USER_REG
    BY <1>2, Zenon DEF WalkOwned
  <1>7. F \subseteq own \cap OS_PT_REG /\ G \subseteq own \cap USER_REG
    BY <1>2, <1>3, <1>6, Zenon
  <1>8. ASSUME NEW f \in own PROVE f \in F \cup G
    <2>1. \A a \in PagesOf(l) : f \in WalkFrames(cmem, top, a) => f \in W(a) \cup {d(a)}
      BY Zenon DEF WalkFrames
    <2>2. f = top \/ \E a \in PagesOf(l) : f \in W(a) \cup {d(a)}
      BY <1>2, <2>1, Zenon
    <2> QED BY <1>4, <2>2, Zenon
  <1>9. F \cup G = own /\ F \cap G = {}
    <2> HIDE DEF F, G
    <2> QED BY <1>7, <1>8, LayoutAssumption, Zenon
  <1>10. Listed(data_pfns(c), G, 3)
    <2>1. data_pfns(c) = <<d(l.stack), d(l.code), d(l.data)>>
      BY Zenon DEF data_pfns, l, top
    <2>2. /\ d(l.stack) # d(l.code) /\ d(l.code) # d(l.data) /\ d(l.data) # d(l.stack)
          /\ d(l.stack) \in Nat /\ d(l.code) \in Nat /\ d(l.data) \in Nat
      BY <1>2, <1>3, <1>5, <1>6, LayoutAssumption, Zenon
    <2> HIDE DEF d
    <2>3. Listed(<<d(l.stack), d(l.code), d(l.data)>>, G, 3)
      BY <2>2 DEF Listed, IsInjective, Range
    <2> QED BY <2>1, <2>3, Zenon
  <1>11. Listed(pfn_array(c), F, 10)
    <2>1. ASSUME NEW a \in PagesOf(l), NEW s, NEW H, NEW k \in Nat, Listed(s, H, k)
          PROVE  Listed(add_pages_to_array(s, c, a), H \cup W(a), k + 3)
      <3>1. /\ L3(cmem, ctx[c].pgd, a) \in Nat /\ L2(cmem, ctx[c].pgd, a) \in Nat
            /\ L1(cmem, ctx[c].pgd, a) \in Nat
        BY <1>6, LayoutAssumption, Zenon DEF top
      <3>2. Listed(add_pages_to_array(s, c, a),
                   H \cup {L3(cmem, ctx[c].pgd, a), L2(cmem, ctx[c].pgd, a),
                           L1(cmem, ctx[c].pgd, a)}, k + 3)
        BY <2>1, <3>1, AddWalk
      <3> QED BY <3>2, Zenon DEF top
    <2> HIDE DEF W
    <2>2. Listed(<<top>>, {top}, 1)
      <3>1. top \in Nat
        BY <1>2, LayoutAssumption, Zenon
      <3> QED BY <3>1, ListOne
    <2> DEFINE s1 == add_pages_to_array(<<top>>, c, l.stack)
               s2 == add_pages_to_array(s1, c, l.code)
    <2>3. 1 \in Nat /\ 1 + 3 \in Nat /\ (1 + 3) + 3 \in Nat /\ ((1 + 3) + 3) + 3 = 10
      OBVIOUS
    <2>4. Listed(s1, {top} \cup W(l.stack), 1 + 3)
      BY <1>3, <2>1, <2>2, <2>3, Zenon
    <2>5. Listed(s2, ({top} \cup W(l.stack)) \cup W(l.code), (1 + 3) + 3)
      BY <1>3, <2>1, <2>3, <2>4, Zenon
    <2>6. Listed(add_pages_to_array(s2, c, l.data), F, ((1 + 3) + 3) + 3)
      BY <1>3, <2>1, <2>3, <2>5, Zenon
    <2>7. pfn_array(c) = add_pages_to_array(s2, c, l.data)
      BY Zenon DEF pfn_array, l, top
    <2> QED BY <2>3, <2>6, <2>7, Zenon
  <1> QED BY <1>7, <1>9, <1>10, <1>11, Zenon DEF GivesBack, own

\* So cleanup_context_mm gives back what the context was given.
LEMMA GivesBackAll ==
    ASSUME ContextInv, NEW c \in Live
    PROVE  /\ Range(pfn_array(c)) \cup Range(data_pfns(c)) = given[c]
           /\ Range(pfn_array(c)) \subseteq given[c] \cap OS_PT_REG
           /\ IsInjective(pfn_array(c) \o data_pfns(c))
           /\ Range(pfn_array(c) \o data_pfns(c)) = given[c]
           /\ Len(pfn_array(c)) <= 16
  <1>1. GivesBack(c)
    BY ListsGiven
  <1>2. PICK F, G : /\ Listed(pfn_array(c), F, 10) /\ Listed(data_pfns(c), G, 3)
                    /\ F \subseteq OS_PT_REG /\ F \cap G = {} /\ F \cup G = given[c]
    BY <1>1, Zenon DEF GivesBack
  <1>3. Range(pfn_array(c)) = F /\ Range(data_pfns(c)) = G
    BY <1>2, Zenon DEF Listed
  <1>4. /\ IsInjective(pfn_array(c) \o data_pfns(c))
        /\ Range(pfn_array(c) \o data_pfns(c)) = F \cup G
    BY <1>2, ListBoth
  <1>5. Len(pfn_array(c)) <= 16
    <2>1. pfn_array(c) \in Seq(Nat) /\ Len(pfn_array(c)) <= 10
      BY <1>2, Zenon DEF Listed
    <2>2. Len(pfn_array(c)) \in Nat
      BY <2>1
    <2> QED BY <2>1, <2>2
  <1> QED BY <1>2, <1>3, <1>4, <1>5, Zenon

-----------------------------------------------------------------------------

\* At the start every frame is free.
LEMMA ContextStart == ContextInit => ContextInv
  <1> SUFFICES ASSUME ContextInit PROVE ContextInv
    BY Zenon
  <1>1. /\ cmem = [f \in OS_PT_REG \cup {0} |-> initialize_page]
        /\ cfree = OS_PT_REG \cup USER_REG
        /\ ctx = [c \in Contexts |-> NoContext]
        /\ given = [c \in Contexts |-> {}]
    BY Zenon DEF ContextInit
  <1>2. initialize_page \in [Idx -> PTE]
    BY EntryFields, Zenon
  <1>3. Kernel \in Memories
    BY <1>1, <1>2 DEF Kernel, Memories
  <1>4. cmem[0] = initialize_page
    BY <1>1, Zenon
  <1>5. NoContext.pgd = 0 /\ NoContext \in [pgd : Nat, mms : Layouts \cup {NoContext.mms},
                                            arg_pfn : Nat]
    BY DEF NoContext
  <1>6. Live = {}
    BY <1>1, <1>5, Zenon DEF Live
  <1> QED BY <1>1, <1>3, <1>4, <1>5, <1>6, Zenon DEF ContextInv

\* prepare_context_mm leaves the other contexts alone.
LEMMA PrepareKeeps ==
    ASSUME ContextInv, NEW c \in Contexts, NEW l \in Layouts, NEW hasArg \in BOOLEAN,
           prepare_context_mm(c, l, hasArg)
    PROVE  ContextInv'
  <1> DEFINE arg == IF hasArg THEN os_pfn_alloc(Kernel, USER_REG) ELSE 0
             top == os_pfn_alloc(Kernel, OS_PT_REG)
             m0 == [mem |-> [cmem EXCEPT ![top] = initialize_page],
                    free |-> cfree \ {top, arg}]
             m1 == MapPage(m0, top, l.stack, TRUE, 0)
             m2 == MapPage(m1, top, l.code, FALSE, 0)
             n == MapPage(m2, top, l.data, TRUE, arg)
  <1>1. /\ c \notin Live
        /\ FramesLeft(Kernel) /\ FramesLeft(m0) /\ FramesLeft(m1) /\ FramesLeft(m2)
        /\ cmem' = n.mem /\ cfree' = n.free
        /\ ctx' = [ctx EXCEPT ![c] = [pgd |-> top, mms |-> l, arg_pfn |-> arg]]
        /\ given' = [given EXCEPT ![c] = cfree \ n.free]
    <2>1. prepare_segments(m0, top, l, arg)[1] = m0 /\ prepare_segments(m0, top, l, arg)[2] = m1
          /\ prepare_segments(m0, top, l, arg)[3] = m2
          /\ prepare_segments(m0, top, l, arg)[4] = n
      <3> HIDE DEF m0, top, arg
      <3> QED BY DEF prepare_segments
    <2> HIDE DEF m1, m2, n
    <2> QED BY <2>1, Zenon DEF prepare_context_mm, Kernel
  <1>2. Kernel \in Memories /\ Kernel.mem = cmem /\ Kernel.free = cfree
    BY DEF ContextInv, Kernel
  <1>3. Starts(Kernel, m0, top, arg)
    <2>1. cmem[0] = initialize_page
      BY Zenon DEF ContextInv
    <2>2. arg = 0 \/ arg = os_pfn_alloc(Kernel, USER_REG)
      BY Zenon
    <2>3. m0 = [mem |-> [Kernel.mem EXCEPT ![top] = initialize_page],
                free |-> Kernel.free \ {top, arg}]
      BY <1>2, Zenon
    <2>4. Kernel.mem[0] = initialize_page
      BY <1>2, <2>1, Zenon
    <2>5. top = os_pfn_alloc(Kernel, OS_PT_REG)
      BY Zenon
    <2> HIDE DEF top, arg, m0
    <2> QED BY <1>1, <1>2, <2>2, <2>3, <2>4, <2>5, Zenon DEF Starts
  <1> HIDE DEF top, arg, m0
  <1>4. Prepares(Kernel, m0, m1, m2, n, top, arg, l)
    BY <1>1, <1>3, Zenon DEF Prepares
  <1> HIDE DEF m1, m2, n
  <1>5. Prepared(Kernel, n, top, l)
    BY <1>4, PreparedOK
  <1>6. ContextOK(n.mem, cfree \ n.free, top, l)
    BY <1>2, <1>5, PreparedBuilt, Zenon
  <1>7. /\ n \in Memories /\ n.mem[0] = initialize_page
        /\ n.free \subseteq cfree
        /\ \A u \in Taken(Kernel) \cap OS_PT_REG, j \in Idx : n.mem[u][j] = cmem[u][j]
    <2>1. Partial(Kernel, n, top, Taken(Kernel), PagesOf(l))
      BY <1>5, Zenon DEF Prepared
    <2>2. n \in Memories /\ \E lev : Tree(n, top, Taken(Kernel), lev)
      BY <2>1, Zenon DEF Partial, Holding, Ready, HasTree
    <2> QED BY <1>2, <2>1, <2>2, Zenon DEF Partial, Tree
  <1>8. Started(Kernel, m0, top, arg)
    BY <1>3, StartHolds
  <1>9. top \in Nat /\ top # 0 /\ arg \in Nat
    <2>1. top \in OS_PT_REG /\ (arg = 0 \/ arg \in USER_REG) /\ 0 \in Nat
      BY <1>8 DEF Started
    <2> QED BY <2>1, LayoutAssumption, Zenon
  <1>10. Kernel' \in Memories /\ cmem'[0] = initialize_page
    BY <1>1, <1>7 DEF Kernel, Memories
  <1>11. ctx' \in [Contexts -> [pgd : Nat, mms : Layouts \cup {NoContext.mms}, arg_pfn : Nat]]
    <2>1. [pgd |-> top, mms |-> l, arg_pfn |-> arg]
             \in [pgd : Nat, mms : Layouts \cup {NoContext.mms}, arg_pfn : Nat]
      BY <1>9
    <2> QED BY <1>1, <2>1, Zenon DEF ContextInv
  <1>12. cfree \subseteq OS_PT_REG \cup USER_REG
    BY <1>2 DEF Memories
  <1>13. /\ given \in [Contexts -> SUBSET (OS_PT_REG \cup USER_REG)]
         /\ given'[c] = cfree \ n.free
         /\ \A d \in Contexts \ {c} : given'[d] = given[d] /\ ctx'[d] = ctx[d]
         /\ ctx'[c].pgd = top /\ ctx'[c].mms = l
    BY <1>1 DEF ContextInv
  <1>14. given' \in [Contexts -> SUBSET (OS_PT_REG \cup USER_REG)]
    BY <1>1, <1>12, <1>13
  <1>15. \A d \in Contexts : given'[d] \cap cfree' = {}
    BY <1>1, <1>7, <1>13 DEF ContextInv
  <1>16. \A d, e \in Contexts : d # e => given'[d] \cap given'[e] = {}
    BY <1>13, Zenon DEF ContextInv
  <1>17. ASSUME NEW d \in Live'
         PROVE  ContextOK(cmem', given'[d], ctx'[d].pgd, ctx'[d].mms)
    <2>1. CASE d = c
      BY <1>1, <1>6, <1>13, <2>1, Zenon
    <2>2. CASE d # c
      <3>1. d \in Contexts \ {c} /\ d \in Live
        BY <1>13, <1>17, <2>2, Zenon DEF Live
      <3>2. ContextOK(cmem, given[d], ctx[d].pgd, ctx[d].mms)
        BY <3>1, Zenon DEF ContextInv
      <3>3. given[d] \cap OS_PT_REG \subseteq Taken(Kernel) \cap OS_PT_REG
        BY <1>2, <3>1 DEF ContextInv, Taken
      <3>4. Kept(cmem, cmem', given[d], ctx[d].pgd, ctx[d].mms)
        BY <1>1, <1>7, <3>3, Zenon DEF Kept
      <3>5. ContextOK(cmem', given[d], ctx[d].pgd, ctx[d].mms)
        BY <3>2, <3>4, ContextKept
      <3> QED BY <1>13, <3>1, <3>5, Zenon
    <2> QED BY <2>1, <2>2, Zenon
  <1> QED BY <1>10, <1>11, <1>14, <1>15, <1>16, <1>17, Zenon DEF ContextInv

\* The system's entry goes into a table of the context, beside its walks.
LEMMA InstallKeeps ==
    ASSUME ContextInv, NEW c \in Contexts, install_os_pts(c)
    PROVE  ContextInv'
  <1> DEFINE top == ctx[c].pgd
             l == ctx[c].mms
             l3 == L3(cmem, top, l.stack)
  <1>1. /\ c \in Live /\ UNCHANGED <<cfree, ctx, given>>
        /\ cmem' = [cmem EXCEPT ![l3][OS_INDEX] = Entry(OS_PFN, TRUE)]
    <2>1. Tables(cmem, top, l.stack)[2] = l3
      BY WalkIs
    <2> QED BY <2>1, Zenon DEF install_os_pts
  <1>2. Kernel \in Memories /\ Kernel.mem = cmem /\ Kernel.free = cfree
    BY DEF ContextInv, Kernel
  <1>3. cmem \in [OS_PT_REG \cup {0} -> [Idx -> PTE]] /\ cmem[0] = initialize_page
    BY <1>2 DEF Memories, ContextInv
  <1>4. l3 \in given[c] \cap OS_PT_REG
    <2>1. PICK lev : Built(cmem, given[c], top, l, lev)
      BY <1>1, Zenon DEF ContextInv, ContextOK
    <2>2. l.stack \in PagesOf(l)
      BY Zenon DEF PagesOf
    <2> QED BY <2>1, <2>2, Zenon DEF Built, WalkOwned
  <1> HIDE DEF l3
  <1>5. OS_INDEX \in Idx /\ Entry(OS_PFN, TRUE) \in PTE
    BY ContextAssumption DEF Idx, Entry, PTE
  <1>6. cmem' \in [OS_PT_REG \cup {0} -> [Idx -> PTE]]
    BY <1>1, <1>3, <1>4, <1>5, Zenon
  <1>7. Kernel' \in Memories
    BY <1>1, <1>2, <1>6, Zenon DEF Kernel, Memories
  <1>8. \A t \in OS_PT_REG \cup {0}, i \in Idx :
           cmem'[t][i] = cmem[t][i] \/ (t = l3 /\ i = OS_INDEX)
    BY <1>1, <1>3, Zenon
  <1>9. cmem'[0] = initialize_page
    <2>1. l3 # 0
      BY <1>4, LayoutAssumption, Zenon
    <2> QED BY <1>1, <1>3, <2>1, Zenon
  <1>10. ASSUME NEW d \in Live'
         PROVE  ContextOK(cmem', given'[d], ctx'[d].pgd, ctx'[d].mms)
    <2>1. d \in Live /\ d \in Contexts
      BY <1>1, Zenon DEF Live
    <2>2. ContextOK(cmem, given[d], ctx[d].pgd, ctx[d].mms)
      BY <2>1, Zenon DEF ContextInv
    <2>3. d # c => l3 \notin given[d]
      BY <1>4, <2>1, Zenon DEF ContextInv
    <2>4. Kept(cmem, cmem', given[d], ctx[d].pgd, ctx[d].mms)
      BY <1>8, <2>3, Zenon DEF Kept, l3
    <2>5. ContextOK(cmem', given[d], ctx[d].pgd, ctx[d].mms)
      BY <2>2, <2>4, ContextKept
    <2> QED BY <1>1, <2>5, Zenon
  <1> QED BY <1>1, <1>7, <1>9, <1>10, Zenon DEF ContextInv

\* What cleanup_context_mm gives back was the context's alone.
LEMMA CleanupKeeps ==
    ASSUME ContextInv, NEW c \in Contexts, cleanup_context_mm(c)
    PROVE  ContextInv'
  <1>1. /\ c \in Live /\ UNCHANGED cmem
        /\ cfree' = (cfree \cup Range(pfn_array(c))) \cup Range(data_pfns(c))
        /\ ctx' = [ctx EXCEPT ![c] = NoContext]
        /\ given' = [given EXCEPT ![c] = {}]
    BY Zenon DEF cleanup_context_mm
  <1>2. cfree' = cfree \cup given[c]
    <2>1. Range(pfn_array(c)) \cup Range(data_pfns(c)) = given[c]
      BY <1>1, GivesBackAll
    <2> QED BY <1>1, <2>1, Zenon
  <1>3. /\ Kernel \in Memories /\ cmem[0] = initialize_page
        /\ ctx \in [Contexts -> [pgd : Nat, mms : Layouts \cup {NoContext.mms}, arg_pfn : Nat]]
        /\ given \in [Contexts -> SUBSET (OS_PT_REG \cup USER_REG)]
    BY Zenon DEF ContextInv
  <1>4. Kernel' \in Memories
    BY <1>1, <1>2, <1>3 DEF Kernel, Memories
  <1>5. NoContext.pgd = 0 /\ NoContext \in [pgd : Nat, mms : Layouts \cup {NoContext.mms},
                                            arg_pfn : Nat]
    BY DEF NoContext
  <1>6. /\ ctx' \in [Contexts -> [pgd : Nat, mms : Layouts \cup {NoContext.mms}, arg_pfn : Nat]]
        /\ given' \in [Contexts -> SUBSET (OS_PT_REG \cup USER_REG)]
    BY <1>1, <1>3, <1>5, Zenon
  <1>7. /\ given'[c] = {} /\ ctx'[c].pgd = 0
        /\ \A d \in Contexts \ {c} : given'[d] = given[d] /\ ctx'[d] = ctx[d]
    BY <1>1, <1>3, <1>5, Zenon
  <1>8. \A d, e \in Contexts : d # e => given'[d] \cap given'[e] = {}
    BY <1>7, Zenon DEF ContextInv
  <1>9. \A d \in Contexts : given'[d] \cap cfree' = {}
    BY <1>2, <1>7, Zenon DEF ContextInv
  <1>10. ASSUME NEW d \in Live'
         PROVE  ContextOK(cmem', given'[d], ctx'[d].pgd, ctx'[d].mms)
    <2>1. d \in Contexts \ {c} /\ d \in Live
      BY <1>7, Zenon DEF Live
    <2> QED BY <1>1, <1>7, <2>1, Zenon DEF ContextInv
  <1> QED BY <1>1, <1>3, <1>4, <1>6, <1>8, <1>9, <1>10, Zenon DEF ContextInv

\* A step keeps the invariant.
LEMMA ContextStep == ContextInv /\ [ContextNext]_contextVars => ContextInv'
  <1> SUFFICES ASSUME ContextInv, [ContextNext]_contextVars PROVE ContextInv'
    BY Zenon
  <1>1. CASE ContextNext
    BY <1>1, PrepareKeeps, InstallKeeps, CleanupKeeps, Zenon DEF ContextNext
  <1>2. CASE UNCHANGED contextVars
    BY <1>2, Zenon DEF contextVars, ContextInv, Kernel, Live, ContextOK, BitsOK, Built
  <1> QED BY <1>1, <1>2, Zenon

-----------------------------------------------------------------------------

\* The frames of a context are its own, and its tables hold its three walks.
THEOREM ContextsApart == ContextSpec => []ContextInv
  BY ContextStart, ContextStep, PTL DEF ContextSpec

\* cleanup_context_mm gives back what prepare_context_mm took, each frame once.
THEOREM CleanedUp == ContextSpec => []CleanupExact
  <1>1. ContextInv => CleanupExact
    <2> SUFFICES ASSUME ContextInv, NEW c \in Live
                 PROVE  /\ IsInjective(pfn_array(c) \o data_pfns(c))
                        /\ Range(pfn_array(c) \o data_pfns(c)) = given[c]
                        /\ Len(pfn_array(c)) <= 16
      BY Zenon DEF CleanupExact
    <2> QED BY GivesBackAll
  <1> QED BY <1>1, ContextsApart, PTL

\* What the tables of a context hold is on one of the walks, or the system's.
THEOREM NothingStray == ContextSpec => []NoStrayEntries
  <1>1. ContextInv => NoStrayEntries
    <2> SUFFICES ASSUME ContextInv, NEW c \in Live, NEW t \in Range(pfn_array(c)),
                        NEW i \in 0 .. ENTRIES - 1, cmem[t][i].pfn # 0
                 PROVE  \/ /\ t = Tables(cmem, ctx[c].pgd, ctx[c].mms.stack)[2]
                           /\ i = OS_INDEX
                        \/ \E a \in PagesOf(ctx[c].mms), d \in 1 .. 4 :
                              t = Tables(cmem, ctx[c].pgd, a)[d] /\ i = a[d]
      BY DEF NoStrayEntries
    <2> DEFINE top == ctx[c].pgd
               l == ctx[c].mms
    <2>1. t \in given[c] \cap OS_PT_REG /\ i \in Idx
      BY GivesBackAll DEF Idx
    <2>2. PICK lev : Built(cmem, given[c], top, l, lev)
      BY Zenon DEF ContextInv, ContextOK
    <2>3. \/ t = L3(cmem, top, l.stack) /\ i = OS_INDEX
          \/ \E a \in PagesOf(l) : OnSlot(cmem, top, a, t, i)
      BY <2>1, <2>2, Zenon DEF Built
    <2> HIDE DEF top, l
    <2>4. \A a : /\ Tables(cmem, top, a)[1] = top
                 /\ Tables(cmem, top, a)[2] = L3(cmem, top, a)
                 /\ Tables(cmem, top, a)[3] = L2(cmem, top, a)
                 /\ Tables(cmem, top, a)[4] = L1(cmem, top, a)
      BY WalkIs
    <2>5. CASE t = L3(cmem, top, l.stack) /\ i = OS_INDEX
      BY <2>4, <2>5, Zenon DEF top, l
    <2>6. ASSUME NEW a \in PagesOf(l), OnSlot(cmem, top, a, t, i)
          PROVE  \E d \in 1 .. 4 : t = Tables(cmem, top, a)[d] /\ i = a[d]
      <3>1. 1 \in 1 .. 4 /\ 2 \in 1 .. 4 /\ 3 \in 1 .. 4 /\ 4 \in 1 .. 4
        OBVIOUS
      <3> QED BY <2>4, <2>6, <3>1, Zenon DEF OnSlot, OnWalk
    <2> QED BY <2>3, <2>5, <2>6, Zenon DEF top, l
  <1> QED BY <1>1, ContextsApart, PTL

\* Stack and, unless a directory entry was made for the code, data can be written,
\* and the code cannot.
THEOREM SegmentRights == ContextSpec => []PermissionsReflected
  <1>1. ContextInv => PermissionsReflected
    BY Zenon DEF ContextInv, ContextOK, BitsOK, PermissionsReflected
  <1> QED BY <1>1, ContextsApart, PTL

=============================================================================
