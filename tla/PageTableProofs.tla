-------------------------- MODULE PageTableProofs ---------------------------
(***************************************************************************)
(* What the walk and the helpers of PageTable do to a tree of page tables, *)
(* for tables of any size and any frames, and then to the tree of one      *)
(* process, whose pages lie where SegmentMap says.                         *)
(***************************************************************************)
EXTENDS SegmentMap, TLAPS

Idx == 0 .. ENTRIES - 1
PTE == [pfn : Nat, w : BOOLEAN]
Addresses == Idx \X Idx \X Idx \X Idx
Memories == [mem : [OS_PT_REG \cup {0} -> [Idx -> PTE]],
             free : SUBSET (OS_PT_REG \cup USER_REG)]

\* The tables and the pages that are neither free nor somebody else's.
Own(m, others) == OS_PT_REG \ (m.free \cup others)
Data(m, others) == USER_REG \ (m.free \cup others)

\* An entry of a table leads to a table of the next level or, on the last level, to
\* a page; no two entries lead to the same frame; every frame is reached.
Leads(mem, own, data, lev) ==
    \A t \in own, i \in Idx :
        mem[t][i].pfn # 0 =>
           IF lev[t] = 1 THEN mem[t][i].pfn \in data
           ELSE mem[t][i].pfn \in own /\ lev[mem[t][i].pfn] = lev[t] - 1

Apart(mem, own) ==
    \A t, u \in own, i, j \in Idx :
        mem[t][i].pfn # 0 /\ mem[t][i].pfn = mem[u][j].pfn => t = u /\ i = j

Reached(mem, own, data, pgd) ==
    \A f \in (own \ {pgd}) \cup data : \E t \in own, i \in Idx : mem[t][i].pfn = f

\* The tables and pages of m form the tree below pgd, lev giving the level of each
\* table, and table 0 is empty.
Tree(m, pgd, others, lev) ==
    /\ lev \in [Own(m, others) -> 1 .. 4]
    /\ pgd \in Own(m, others) /\ lev[pgd] = 4
    /\ Leads(m.mem, Own(m, others), Data(m, others), lev)
    /\ Apart(m.mem, Own(m, others))
    /\ Reached(m.mem, Own(m, others), Data(m, others), pgd)
    /\ m.mem[0] = initialize_page

HasTree(m, pgd, others) == \E lev : Tree(m, pgd, others, lev)

-----------------------------------------------------------------------------

\* An entry is a frame number and a write bit.
LEMMA EntryFields ==
    /\ \A f, w : Entry(f, w).pfn = f /\ Entry(f, w).w = w
    /\ \A f \in Nat, w \in BOOLEAN : Entry(f, w) \in PTE
    /\ Absent \in PTE /\ Absent.pfn = 0
    /\ \A i \in Idx : initialize_page[i] = Absent
    /\ initialize_page \in [Idx -> PTE]
  <1>1. \A f, w : Entry(f, w).pfn = f /\ Entry(f, w).w = w
    BY Zenon DEF Entry
  <1>2. \A f \in Nat, w \in BOOLEAN : Entry(f, w) \in PTE
    BY Zenon DEF Entry, PTE
  <1>3. Absent \in PTE /\ Absent.pfn = 0
    BY <1>1, <1>2, Zenon DEF Absent
  <1>4. \A i \in Idx : initialize_page[i] = Absent
    BY Zenon DEF initialize_page, Idx
  <1>5. initialize_page \in [Idx -> PTE]
    BY <1>3, Zenon DEF initialize_page, Idx
  <1> QED BY <1>1, <1>2, <1>3, <1>4, <1>5, Zenon

\* Only one entry leads to a frame.
LEMMA OneEntry ==
    ASSUME NEW mem, NEW own, Apart(mem, own), NEW t \in own, NEW u \in own,
           NEW i \in Idx, NEW j \in Idx,
           mem[t][i].pfn # 0, mem[t][i].pfn = mem[u][j].pfn
    PROVE  t = u /\ i = j
BY DEF Apart

\* A frame of the region, if one is free.
LEMMA Allocated ==
    ASSUME NEW m, NEW region, m.free \cap region # {}
    PROVE  os_pfn_alloc(m, region) \in m.free \cap region
  BY Zenon DEF os_pfn_alloc

\* At least c frames are left for tables, for c up to three.
Spare(m, c) ==
    /\ c \in {1, 2, 3} => m.free \cap OS_PT_REG # {}
    /\ c \in {2, 3} => \A f : m.free \cap OS_PT_REG # {f}
    /\ c = 3 => \A f, g : m.free \cap OS_PT_REG # {f, g}

\* One frame taken leaves one less.
LEMMA OneLess ==
    ASSUME NEW m, NEW n, NEW c \in {0, 1, 2}, Spare(m, c + 1),
           \/ n.free = m.free
           \/ \E f \in OS_PT_REG : n.free = m.free \ {f}
    PROVE  Spare(n, c) /\ m.free \cap OS_PT_REG # {}
  <1> DEFINE S == m.free \cap OS_PT_REG
             T == n.free \cap OS_PT_REG
  <1>1. T = S \/ \E f \in OS_PT_REG : T = S \ {f}
    BY Zenon
  <1>2. c + 1 \in {1, 2, 3} /\ (c = 1 => c + 1 = 2) /\ (c = 2 => c + 1 = 3)
    OBVIOUS
  <1>3. /\ S # {}
        /\ c = 1 => \A g : S # {g}
        /\ c = 2 => \A g, h : S # {g, h}
    BY <1>2, Zenon DEF Spare
  <1> HIDE DEF S, T
  <1>4. c = 1 => T # {}
    BY <1>1, <1>3
  <1>5. c = 2 => T # {} /\ \A g : T # {g}
    <2>1. ASSUME NEW f, T = S \ {f}, T = {} PROVE S = {} \/ S = {f, f}
      BY <2>1, Zenon
    <2>2. ASSUME NEW f, NEW g, T = S \ {f}, T = {g} PROVE S = {g, g} \/ S = {f, g}
      BY <2>2, Zenon
    <2>3. ASSUME NEW g, T = S, T = {g} PROVE S = {g, g}
      BY <2>3, Zenon
    <2> SUFFICES ASSUME c = 2 PROVE T # {} /\ \A g : T # {g}
      BY Zenon
    <2>4. S # {} /\ \A g, h : S # {g, h}
      BY <1>3, Zenon
    <2>5. T # {}
      BY <1>1, <2>1, <2>4, Zenon
    <2>6. ASSUME NEW g, T = {g} PROVE FALSE
      BY <1>1, <2>2, <2>3, <2>4, <2>6, ZenonT(120)
    <2> QED BY <2>5, <2>6, Zenon
  <1>6. Spare(n, c)
    BY <1>4, <1>5 DEF Spare, T
  <1> QED BY <1>3, <1>6, Zenon DEF S

-----------------------------------------------------------------------------

\* A page is its four indices.
LEMMA AddressParts ==
    /\ \A b \in Addresses :
          b[1] \in Idx /\ b[2] \in Idx /\ b[3] \in Idx /\ b[4] \in Idx
    /\ \A a, b \in Addresses :
          a[1] = b[1] /\ a[2] = b[2] /\ a[3] = b[3] /\ a[4] = b[4] => a = b
BY DEF Addresses

\* The tables on the walk to page b.
L3(mem, pgd, b) == mem[pgd][b[1]].pfn
L2(mem, pgd, b) == mem[L3(mem, pgd, b)][b[2]].pfn
L1(mem, pgd, b) == mem[L2(mem, pgd, b)][b[3]].pfn

\* They are what Tables returns, and the last one has the leaf.
LEMMA WalkIs ==
    ASSUME NEW mem, NEW pgd, NEW b
    PROVE  /\ Tables(mem, pgd, b)[1] = pgd
           /\ Tables(mem, pgd, b)[2] = L3(mem, pgd, b)
           /\ Tables(mem, pgd, b)[3] = L2(mem, pgd, b)
           /\ Tables(mem, pgd, b)[4] = L1(mem, pgd, b)
           /\ Leaf(mem, pgd, b) = mem[L1(mem, pgd, b)][b[4]]
BY Zenon DEF Tables, Leaf, L3, L2, L1

\* An entry of a table, or of table 0, in a memory.
LEMMA EntryType ==
    ASSUME NEW m \in Memories, NEW t \in OS_PT_REG \cup {0}, NEW i \in Idx
    PROVE  /\ m.mem[t][i] \in PTE /\ m.mem[t][i].pfn \in Nat
           /\ m.mem[t][i].w \in BOOLEAN
           /\ m.mem[t] \in [Idx -> PTE]
           /\ m.mem \in [OS_PT_REG \cup {0} -> [Idx -> PTE]]
           /\ m.free \subseteq OS_PT_REG \cup USER_REG
  <1>1. /\ m.mem \in [OS_PT_REG \cup {0} -> [Idx -> PTE]]
        /\ m.free \subseteq OS_PT_REG \cup USER_REG
    BY Zenon DEF Memories
  <1>2. m.mem[t] \in [Idx -> PTE]
    BY <1>1, Zenon
  <1>3. m.mem[t][i] \in PTE
    BY <1>2, Zenon
  <1>4. m.mem[t][i].pfn \in Nat /\ m.mem[t][i].w \in BOOLEAN
    BY <1>3, Zenon DEF PTE
  <1> QED BY <1>1, <1>2, <1>3, <1>4, Zenon

\* The tables on the walk to b are of the tree, each of its level, until the walk
\* ends in table 0; the leaf leads to a page of the tree.
OnLevels(m, pgd, others, lev, b) ==
    LET own == Own(m, others)
        l3 == L3(m.mem, pgd, b)
        l2 == L2(m.mem, pgd, b)
        l1 == L1(m.mem, pgd, b)
    IN  /\ l3 = 0 \/ (l3 \in own /\ lev[l3] = 3)
        /\ l2 = 0 \/ (l2 \in own /\ lev[l2] = 2 /\ l3 # 0)
        /\ l1 = 0 \/ (l1 \in own /\ lev[l1] = 1 /\ l2 # 0)
        /\ \/ m.mem[l1][b[4]] = Absent
           \/ m.mem[l1][b[4]].pfn = 0 /\ l1 # 0
           \/ m.mem[l1][b[4]].pfn \in Data(m, others) /\ l1 # 0
        /\ l3 = 0 => l2 = 0
        /\ l2 = 0 => l1 = 0
        /\ l1 = 0 => m.mem[l1][b[4]] = Absent

\* Every walk in a tree keeps to its levels.
LEMMA WalkLevels ==
    ASSUME NEW m \in Memories, NEW pgd, NEW others, NEW lev,
           Tree(m, pgd, others, lev), NEW b \in Addresses
    PROVE  OnLevels(m, pgd, others, lev, b)
  <1> DEFINE own == Own(m, others)
             l3 == L3(m.mem, pgd, b)
             l2 == L2(m.mem, pgd, b)
             l1 == L1(m.mem, pgd, b)
  <1>1. b[1] \in Idx /\ b[2] \in Idx /\ b[3] \in Idx /\ b[4] \in Idx
    BY AddressParts, Zenon
  <1>2. \A i \in Idx : m.mem[0][i] = Absent /\ m.mem[0][i].pfn = 0
    BY EntryFields, Zenon DEF Tree
  <1>3. /\ pgd \in own /\ lev[pgd] = 4
        /\ \A t \in own, i \in Idx :
              m.mem[t][i].pfn # 0 /\ lev[t] = 1 => m.mem[t][i].pfn \in Data(m, others)
        /\ \A t \in own, i \in Idx :
              m.mem[t][i].pfn # 0 /\ lev[t] # 1 =>
                  m.mem[t][i].pfn \in own /\ lev[m.mem[t][i].pfn] = lev[t] - 1
    BY Zenon DEF Tree, Leads
  <1>4. 4 # 1 /\ 4 - 1 = 3 /\ 3 # 1 /\ 3 - 1 = 2 /\ 2 # 1 /\ 2 - 1 = 1
    OBVIOUS
  <1>5. l3 = 0 \/ (l3 \in own /\ lev[l3] = 3)
    BY <1>1, <1>3, <1>4, Zenon DEF L3
  <1>6. l2 = 0 \/ (l2 \in own /\ lev[l2] = 2 /\ l3 # 0)
    BY <1>1, <1>2, <1>3, <1>4, <1>5, ZenonT(120) DEF L2
  <1>7. l1 = 0 \/ (l1 \in own /\ lev[l1] = 1 /\ l2 # 0)
    BY <1>1, <1>2, <1>3, <1>4, <1>6, ZenonT(120) DEF L1
  <1>8. (l3 = 0 => l2 = 0) /\ (l2 = 0 => l1 = 0) /\ (l1 = 0 => m.mem[l1][b[4]] = Absent)
    BY <1>1, <1>2, ZenonT(30) DEF L2, L1
  <1>9. l1 # 0 /\ m.mem[l1][b[4]].pfn # 0 => m.mem[l1][b[4]].pfn \in Data(m, others)
    BY <1>1, <1>3, <1>7, Zenon
  <1> QED BY <1>5, <1>6, <1>7, <1>8, <1>9, Zenon DEF OnLevels

-----------------------------------------------------------------------------

\* Memory n is m with the new, empty table f in entry i of table t.
Linked(m, n, t, i, w, f) ==
    /\ n \in Memories
    /\ f \in m.free \cap OS_PT_REG
    /\ n.free = m.free \ {f}
    /\ m.mem[t][i].pfn = 0
    /\ n.mem[t][i] = Entry(f, w)
    /\ \A j \in Idx : n.mem[f][j] = Absent
    /\ \A u \in (OS_PT_REG \cup {0}) \ {f} : \A j \in Idx :
          u # t \/ j # i => n.mem[u][j] = m.mem[u][j]

\* Table t, in which f is linked, is a directory of the tree.
TreeLinked(m, n, pgd, others, lev, t, i, w, f) ==
    /\ m \in Memories /\ Tree(m, pgd, others, lev) /\ others \cap m.free = {}
    /\ t \in Own(m, others) /\ i \in Idx /\ lev[t] # 1
    /\ w \in BOOLEAN /\ Linked(m, n, t, i, w, f)

\* assign_page_table_page links a new table, or finds one there.
LEMMA AssignLinks ==
    ASSUME NEW m \in Memories, NEW t \in OS_PT_REG \ m.free, NEW i \in Idx,
           NEW w \in BOOLEAN, m.free \cap OS_PT_REG # {}
    PROVE  LET n == assign_page_table_page(m, t, i, w)
           IN  \/ m.mem[t][i].pfn # 0 /\ n = m
               \/ \E f \in m.free \cap OS_PT_REG : Linked(m, n, t, i, w, f)
  <1> DEFINE n == assign_page_table_page(m, t, i, w)
  <1>1. CASE m.mem[t][i].pfn # 0
    BY <1>1, Zenon DEF assign_page_table_page
  <1>2. CASE m.mem[t][i].pfn = 0
    <2>1. PICK f \in m.free \cap OS_PT_REG : f = os_pfn_alloc(m, OS_PT_REG)
      BY Allocated, Zenon
    <2>2. n = [mem |-> [m.mem EXCEPT ![t][i] = Entry(f, w), ![f] = initialize_page],
               free |-> m.free \ {f}]
      BY <1>2, <2>1, Zenon DEF assign_page_table_page
    <2>3. /\ m.mem \in [OS_PT_REG \cup {0} -> [Idx -> PTE]]
          /\ m.free \subseteq OS_PT_REG \cup USER_REG
      BY Zenon DEF Memories
    <2>4. f \in Nat /\ f # 0 /\ f # t
      BY LayoutAssumption, Zenon
    <2>5. Entry(f, w) \in PTE /\ initialize_page \in [Idx -> PTE]
      BY <2>4, EntryFields, Zenon
    <2>6. n.mem \in [OS_PT_REG \cup {0} -> [Idx -> PTE]] /\ n.free = m.free \ {f}
      BY <2>2, <2>3, <2>5
    <2>7. n \in Memories
      BY <2>2, <2>3, <2>6, Zenon DEF Memories
    <2>8. n.mem[t][i] = Entry(f, w) /\ n.mem[f] = initialize_page
      BY <2>2, <2>3, <2>4
    <2>9. \A u \in (OS_PT_REG \cup {0}) \ {f} : \A j \in Idx :
             u # t \/ j # i => n.mem[u][j] = m.mem[u][j]
      BY <2>2, <2>3
    <2>10. \A j \in Idx : n.mem[f][j] = Absent
      BY <2>8, EntryFields, Zenon
    <2> HIDE DEF n
    <2>11. Linked(m, n, t, i, w, f)
      BY <1>2, <2>6, <2>7, <2>8, <2>9, <2>10, Zenon DEF Linked
    <2> QED BY <2>11, Zenon DEF n
  <1> QED BY <1>1, <1>2, Zenon

\* A new table joins the tree one level below the table it is linked in.
LEMMA LinkedTree ==
    ASSUME NEW m, NEW n, NEW pgd, NEW others, NEW lev, NEW t, NEW i, NEW w, NEW f,
           TreeLinked(m, n, pgd, others, lev, t, i, w, f)
    PROVE  /\ \E lev2 : Tree(n, pgd, others, lev2) /\ lev2[f] = lev[t] - 1
           /\ Own(n, others) = Own(m, others) \cup {f}
           /\ Data(n, others) = Data(m, others)
           /\ f \notin Own(m, others) /\ f # 0
  <1>0. /\ m \in Memories /\ Tree(m, pgd, others, lev) /\ others \cap m.free = {}
        /\ t \in Own(m, others) /\ i \in Idx /\ lev[t] # 1
        /\ w \in BOOLEAN /\ Linked(m, n, t, i, w, f)
    BY Zenon DEF TreeLinked
  <1> USE <1>0
  <1> DEFINE own == Own(m, others)
             lev2 == [u \in Own(n, others) |-> IF u = f THEN lev[t] - 1 ELSE lev[u]]
  <1>1. /\ n.free = m.free \ {f} /\ f \in m.free \cap OS_PT_REG
        /\ m.mem[t][i].pfn = 0 /\ n.mem[t][i].pfn = f
    BY EntryFields DEF Linked
  <1>2. f \in OS_PT_REG /\ f \notin USER_REG /\ f # 0 /\ f \notin others
    BY <1>1, LayoutAssumption, Zenon
  <1>3. Own(n, others) = own \cup {f} /\ f \notin own
    BY <1>1, <1>2, ZenonT(30) DEF Own
  <1>4. Data(n, others) = Data(m, others) /\ f \notin Data(m, others)
    BY <1>1, <1>2, Zenon DEF Data
  <1>5. own \subseteq (OS_PT_REG \cup {0}) \ {f} /\ 0 \in (OS_PT_REG \cup {0}) \ {f} /\ 0 \notin own
    BY <1>2, <1>3, LayoutAssumption, Zenon DEF Own
  <1>6. /\ \A j \in Idx : n.mem[f][j].pfn = 0
        /\ \A u \in own, j \in Idx : u # t \/ j # i => n.mem[u][j] = m.mem[u][j]
        /\ \A j \in Idx : n.mem[0][j] = m.mem[0][j]
    BY <1>5, EntryFields, ZenonT(120) DEF Linked
  <1>7. lev[t] \in 1 .. 4 /\ lev[t] - 1 \in 1 .. 4 /\ pgd \in own
    <2>1. lev[t] \in 1 .. 4 /\ lev[t] # 1 /\ pgd \in own
      BY Zenon DEF Tree
    <2> QED BY <2>1
  <1> HIDE DEF lev2, own
  <1>8. /\ lev2[f] = lev[t] - 1
        /\ \A u \in own : lev2[u] = lev[u]
    BY <1>3, Zenon DEF lev2
  <1>9. lev2 \in [Own(n, others) -> 1 .. 4]
    <2>1. \A u \in own : lev[u] \in 1 .. 4
      BY Zenon DEF Tree, own
    <2> QED BY <1>3, <1>7, <2>1, Zenon DEF lev2
  <1>10. pgd \in Own(n, others) /\ lev2[pgd] = 4
    BY <1>3, <1>7, <1>8, Zenon DEF Tree
  <1>11. ASSUME NEW u \in Own(n, others), NEW j \in Idx, n.mem[u][j].pfn # 0
         PROVE  IF lev2[u] = 1 THEN n.mem[u][j].pfn \in Data(n, others)
                ELSE /\ n.mem[u][j].pfn \in Own(n, others)
                     /\ lev2[n.mem[u][j].pfn] = lev2[u] - 1
    <2>1. u \in own
      BY <1>3, <1>6, <1>11, Zenon
    <2>2. CASE u = t /\ j = i
      <3>1. lev2[u] # 1 /\ n.mem[u][j].pfn = f
        BY <1>1, <1>8, <2>1, <2>2, Zenon
      <3> QED BY <1>3, <1>8, <2>1, <2>2, <3>1, Zenon
    <2>3. CASE ~(u = t /\ j = i)
      <3>1. n.mem[u][j] = m.mem[u][j]
        BY <1>6, <2>1, <2>3, Zenon
      <3>2. IF lev[u] = 1 THEN m.mem[u][j].pfn \in Data(m, others)
            ELSE m.mem[u][j].pfn \in own /\ lev[m.mem[u][j].pfn] = lev[u] - 1
        BY <1>11, <2>1, <3>1, Zenon DEF Tree, Leads, own
      <3> QED BY <1>3, <1>4, <1>8, <2>1, <3>1, <3>2, Zenon
    <2> QED BY <2>2, <2>3, Zenon
  <1>12. \A u \in own, j \in Idx : m.mem[u][j].pfn # 0 => m.mem[u][j].pfn # f
    <2>1. \A u \in own, j \in Idx :
             m.mem[u][j].pfn # 0 => m.mem[u][j].pfn \in own \cup Data(m, others)
      BY Zenon DEF Tree, Leads, own
    <2> QED BY <1>3, <1>4, <2>1, Zenon
  <1>13. ASSUME NEW u \in Own(n, others), NEW v \in Own(n, others), NEW j \in Idx,
                NEW k \in Idx, n.mem[u][j].pfn # 0, n.mem[u][j].pfn = n.mem[v][k].pfn
         PROVE  u = v /\ j = k
    <2>1. u \in own /\ v \in own
      BY <1>3, <1>6, <1>13, Zenon
    <2>2. CASE u = t /\ j = i
      <3>1. n.mem[v][k].pfn = f
        BY <1>1, <1>13, <2>2, Zenon
      <3> QED BY <1>6, <1>12, <1>13, <2>1, <2>2, <3>1, ZenonT(120)
    <2>4. CASE v = t /\ k = i
      <3>1. n.mem[u][j].pfn = f
        BY <1>1, <1>13, <2>4, Zenon
      <3> QED BY <1>6, <1>12, <1>13, <2>1, <2>4, <3>1, ZenonT(120)
    <2>3. CASE ~(u = t /\ j = i) /\ ~(v = t /\ k = i)
      <3>1. n.mem[u][j] = m.mem[u][j] /\ n.mem[v][k] = m.mem[v][k]
        BY <1>6, <2>1, <2>3, Zenon
      <3>2. m.mem[u][j].pfn # 0 /\ m.mem[u][j].pfn = m.mem[v][k].pfn
        BY <1>13, <3>1, Zenon
      <3>3. Apart(m.mem, own)
        BY Zenon DEF Tree, own
      <3> QED BY <2>1, <3>2, <3>3, OneEntry
    <2> QED BY <2>2, <2>3, <2>4, Zenon
  <1>14. ASSUME NEW g \in (Own(n, others) \ {pgd}) \cup Data(n, others)
         PROVE  \E u \in Own(n, others), j \in Idx : n.mem[u][j].pfn = g
    <2>1. CASE g = f
      BY <1>1, <1>3, <2>1, Zenon DEF own
    <2>2. CASE g # f
      <3>1. g \in (own \ {pgd}) \cup Data(m, others)
        BY <1>3, <1>4, <2>2, Zenon
      <3>2. PICK u \in own, j \in Idx : m.mem[u][j].pfn = g
        BY <3>1, Zenon DEF Tree, Reached, own
      <3>3. g # 0
        BY <3>1, <1>5, LayoutAssumption, Zenon DEF Data
      <3> QED BY <1>1, <1>3, <1>6, <3>2, <3>3
    <2> QED BY <2>1, <2>2, Zenon
  <1>15. n.mem[0] = initialize_page
    <2>1. n.mem[0] \in [Idx -> PTE] /\ initialize_page \in [Idx -> PTE]
      BY EntryFields, EntryType, Zenon DEF Linked, Memories
    <2>2. \A j \in Idx : n.mem[0][j] = initialize_page[j]
      BY <1>6, Zenon DEF Tree
    <2> QED BY <2>1, <2>2
  <1>16. Tree(n, pgd, others, lev2)
    <2>1. Leads(n.mem, Own(n, others), Data(n, others), lev2)
      BY <1>11, Zenon DEF Leads
    <2>2. Apart(n.mem, Own(n, others))
      BY <1>13 DEF Apart
    <2>3. Reached(n.mem, Own(n, others), Data(n, others), pgd)
      BY <1>14, Zenon DEF Reached
    <2> QED BY <1>9, <1>10, <1>15, <2>1, <2>2, <2>3, Zenon DEF Tree
  <1> QED BY <1>2, <1>3, <1>4, <1>8, <1>16, Zenon DEF own

\* The table f is empty, and within the tables of own (and frame 0) the only
\* entry of n that m has not leads from t to it.
OneLink(m, n, own, t, f) ==
  /\ \A x \in own \cup {0}, j \in Idx :
        \/ n.mem[x][j] = m.mem[x][j]
        \/ x = t /\ m.mem[x][j].pfn = 0 /\ n.mem[x][j].pfn = f
  /\ \A j \in Idx : n.mem[f][j] = Absent /\ m.mem[0][j] = Absent

\* The new table is empty and the only new entry leads to it.
LEMMA LinkedStep ==
    ASSUME NEW m, NEW n, NEW pgd, NEW others, NEW lev, NEW t, NEW i, NEW w, NEW f,
           TreeLinked(m, n, pgd, others, lev, t, i, w, f)
    PROVE  OneLink(m, n, Own(m, others), t, f)
  <1>1. Tree(m, pgd, others, lev) /\ Linked(m, n, t, i, w, f)
    BY Zenon DEF TreeLinked
  <1>2. f \in OS_PT_REG \cap m.free
    BY <1>1, Zenon DEF Linked
  <1>3. Own(m, others) \cup {0} \subseteq (OS_PT_REG \cup {0}) \ {f}
    BY <1>2, LayoutAssumption, Zenon DEF Own
  <1>4. \A j \in Idx : n.mem[f][j] = Absent /\ m.mem[0][j] = Absent
    BY <1>1, EntryFields, Zenon DEF Tree, Linked
  <1>5. ASSUME NEW x \in Own(m, others) \cup {0}, NEW j \in Idx
        PROVE  \/ n.mem[x][j] = m.mem[x][j]
               \/ x = t /\ m.mem[x][j].pfn = 0 /\ n.mem[x][j].pfn = f
    <2>1. CASE x = t /\ j = i
      <3>1. m.mem[t][i].pfn = 0 /\ n.mem[t][i] = Entry(f, w)
        BY <1>1, Zenon DEF Linked
      <3>2. n.mem[t][i].pfn = f
        BY <3>1, EntryFields, Zenon
      <3> QED BY <2>1, <3>1, <3>2, Zenon
    <2>2. CASE x # t \/ j # i
      BY <1>1, <1>3, <2>2, ZenonT(30) DEF Linked
    <2> QED BY <2>1, <2>2, Zenon
  <1> QED BY <1>4, <1>5, Zenon DEF OneLink

\* A new table changes no translation.
LEMMA LinkedLeaf ==
    ASSUME NEW m, NEW n, NEW pgd, NEW others, NEW lev, NEW t, NEW i, NEW w, NEW f,
           TreeLinked(m, n, pgd, others, lev, t, i, w, f),
           NEW b \in Addresses
    PROVE  Leaf(n.mem, pgd, b) = Leaf(m.mem, pgd, b)
  <1> DEFINE own == Own(m, others) \cup {0}
  <1>1. b[1] \in Idx /\ b[2] \in Idx /\ b[3] \in Idx /\ b[4] \in Idx
    BY AddressParts, Zenon
  <1>2. /\ \A x \in own, j \in Idx :
              \/ n.mem[x][j] = m.mem[x][j]
              \/ x = t /\ m.mem[x][j].pfn = 0 /\ n.mem[x][j].pfn = f
        /\ \A j \in Idx : n.mem[f][j] = m.mem[0][j] /\ m.mem[0][j].pfn = 0
    <2>1. Absent.pfn = 0
      BY EntryFields, Zenon
    <2>2. OneLink(m, n, Own(m, others), t, f)
      BY LinkedStep
    <2> QED BY <2>1, <2>2, Zenon DEF OneLink
  <1>3. m \in Memories /\ Tree(m, pgd, others, lev) /\ lev[t] # 1 /\ t \in Own(m, others)
    BY Zenon DEF TreeLinked
  <1>4. /\ pgd \in own
        /\ L3(m.mem, pgd, b) \in own
        /\ L2(m.mem, pgd, b) \in own
        /\ L1(m.mem, pgd, b) \in own
        /\ L1(m.mem, pgd, b) # t
    <2>1. pgd \in own
      BY <1>3, Zenon DEF Tree
    <2>2. L1(m.mem, pgd, b) # 0 => lev[L1(m.mem, pgd, b)] = 1
      BY <1>3, WalkLevels, Zenon DEF OnLevels
    <2>3. /\ L3(m.mem, pgd, b) \in own
          /\ L2(m.mem, pgd, b) \in own
          /\ L1(m.mem, pgd, b) \in own
      BY <1>3, WalkLevels, Zenon DEF OnLevels
    <2>4. t # 0
      BY <1>3, LayoutAssumption, Zenon DEF Own
    <2> QED BY <1>3, <2>1, <2>2, <2>3, <2>4, Zenon
  <1> HIDE DEF own
  <1>5. \/ L3(n.mem, pgd, b) = L3(m.mem, pgd, b)
        \/ L3(m.mem, pgd, b) = 0 /\ L3(n.mem, pgd, b) = f
    BY <1>1, <1>2, <1>4, ZenonT(30) DEF L3
  <1>6. \/ L2(n.mem, pgd, b) = L2(m.mem, pgd, b)
        \/ L2(m.mem, pgd, b) = 0 /\ L2(n.mem, pgd, b) = f
    <2>1. CASE L3(n.mem, pgd, b) = L3(m.mem, pgd, b)
      <3>1. \/ n.mem[L3(m.mem, pgd, b)][b[2]] = m.mem[L3(m.mem, pgd, b)][b[2]]
            \/ /\ m.mem[L3(m.mem, pgd, b)][b[2]].pfn = 0
               /\ n.mem[L3(m.mem, pgd, b)][b[2]].pfn = f
        BY <1>1, <1>2, <1>4, Zenon
      <3> QED BY <2>1, <3>1, Zenon DEF L2
    <2>2. CASE L3(m.mem, pgd, b) = 0 /\ L3(n.mem, pgd, b) = f
      BY <1>1, <1>2, <2>2, Zenon DEF L2
    <2> QED BY <1>5, <2>1, <2>2, Zenon
  <1>7. \/ L1(n.mem, pgd, b) = L1(m.mem, pgd, b)
        \/ L1(m.mem, pgd, b) = 0 /\ L1(n.mem, pgd, b) = f
    <2>1. CASE L2(n.mem, pgd, b) = L2(m.mem, pgd, b)
      <3>1. \/ n.mem[L2(m.mem, pgd, b)][b[3]] = m.mem[L2(m.mem, pgd, b)][b[3]]
            \/ /\ m.mem[L2(m.mem, pgd, b)][b[3]].pfn = 0
               /\ n.mem[L2(m.mem, pgd, b)][b[3]].pfn = f
        BY <1>1, <1>2, <1>4, Zenon
      <3> QED BY <2>1, <3>1, Zenon DEF L1
    <2>2. CASE L2(m.mem, pgd, b) = 0 /\ L2(n.mem, pgd, b) = f
      BY <1>1, <1>2, <2>2, Zenon DEF L1
    <2> QED BY <1>6, <2>1, <2>2, Zenon
  <1>8. n.mem[L1(n.mem, pgd, b)][b[4]] = m.mem[L1(m.mem, pgd, b)][b[4]]
    <2>1. CASE L1(n.mem, pgd, b) = L1(m.mem, pgd, b)
      BY <1>1, <1>2, <1>4, <2>1
    <2>2. CASE L1(m.mem, pgd, b) = 0 /\ L1(n.mem, pgd, b) = f
      BY <1>1, <1>2, <2>2, Zenon
    <2> QED BY <1>7, <2>1, <2>2, Zenon
  <1>9. \A x : Leaf(x.mem, pgd, b) = x.mem[L1(x.mem, pgd, b)][b[4]]
    BY WalkIs
  <1> QED BY <1>8, <1>9, Zenon

-----------------------------------------------------------------------------

\* n has the tree of m and perhaps more tables in it: no translation and no entry
\* that was there has changed, and nothing that is not of the tree.
Grown(m, n, pgd, others) ==
    /\ n \in Memories
    /\ HasTree(n, pgd, others)
    /\ n.free \subseteq m.free
    /\ n.free \cap USER_REG = m.free \cap USER_REG
    /\ \A b \in Addresses : Leaf(n.mem, pgd, b) = Leaf(m.mem, pgd, b)
    /\ \A u \in Own(m, others), j \in Idx :
          m.mem[u][j].pfn # 0 => n.mem[u][j] = m.mem[u][j]
    /\ \A u \in others \cap OS_PT_REG, j \in Idx : n.mem[u][j] = m.mem[u][j]

\* Any number of new tables.
LEMMA GrownTrans ==
    ASSUME NEW m \in Memories, NEW k, NEW n, NEW pgd, NEW others,
           Grown(m, k, pgd, others), Grown(k, n, pgd, others)
    PROVE  Grown(m, n, pgd, others)
  <1>1. \A u \in Own(m, others) : u \in Own(k, others)
    BY Zenon DEF Grown, Own
  <1>2. \A u \in Own(m, others), j \in Idx :
          m.mem[u][j].pfn # 0 => n.mem[u][j] = m.mem[u][j]
    BY <1>1 DEF Grown
  <1>3. \A b \in Addresses : Leaf(n.mem, pgd, b) = Leaf(m.mem, pgd, b)
    BY Zenon DEF Grown
  <1>4. \A u \in others \cap OS_PT_REG, j \in Idx : n.mem[u][j] = m.mem[u][j]
    BY ZenonT(120) DEF Grown
  <1>5. n.free \subseteq m.free /\ n.free \cap USER_REG = m.free \cap USER_REG
    BY Zenon DEF Grown
  <1> QED BY <1>2, <1>3, <1>4, <1>5, Zenon DEF Grown

\* The one entry that may be new is entry i of table t, with write bit w.
Filled(m, n, t, i, w, others) ==
    \A u \in Own(n, others), j \in Idx :
        n.mem[u][j].pfn # 0 =>
           \/ u \in Own(m, others) /\ n.mem[u][j] = m.mem[u][j]
           \/ u = t /\ j = i /\ n.mem[u][j].w = w

\* n is m after assign_page_table_page for a directory t of the tree, and c frames
\* are left for tables.
Assigned(m, n, pgd, others, lev, t, i, w, c) ==
    /\ n = assign_page_table_page(m, t, i, w)
    /\ m \in Memories /\ Tree(m, pgd, others, lev) /\ others \cap m.free = {}
    /\ t \in Own(m, others) /\ i \in Idx /\ lev[t] # 1
    /\ w \in BOOLEAN /\ c \in {0, 1, 2} /\ Spare(m, c + 1)

\* The entry leads to a table of the next level.
Descends(m, n, pgd, others, lev, t, i, w, c) ==
    /\ Grown(m, n, pgd, others)
    /\ Filled(m, n, t, i, w, others)
    /\ n.mem[t][i].pfn \in Own(n, others)
    /\ \E lev2 : /\ Tree(n, pgd, others, lev2)
                 /\ lev2[n.mem[t][i].pfn] = lev[t] - 1
    /\ Spare(n, c)

\* That is what assign_page_table_page does to a table of the tree.
LEMMA AssignTable ==
    ASSUME NEW m, NEW n, NEW pgd, NEW others, NEW lev, NEW t, NEW i, NEW w, NEW c,
           Assigned(m, n, pgd, others, lev, t, i, w, c)
    PROVE  Descends(m, n, pgd, others, lev, t, i, w, c)
  <1>0. /\ n = assign_page_table_page(m, t, i, w)
        /\ m \in Memories /\ Tree(m, pgd, others, lev) /\ others \cap m.free = {}
        /\ t \in Own(m, others) /\ i \in Idx /\ lev[t] # 1
        /\ w \in BOOLEAN /\ c \in {0, 1, 2} /\ Spare(m, c + 1)
    BY Zenon DEF Assigned
  <1>1. m.free \cap OS_PT_REG # {} /\ t \in OS_PT_REG \ m.free
    BY <1>0, OneLess, Zenon DEF Own
  <1>3. CASE m.mem[t][i].pfn # 0 /\ n = m
    <2>1. Grown(m, n, pgd, others)
      BY <1>0, <1>3, Zenon DEF Grown, HasTree
    <2>2. n.mem[t][i].pfn \in Own(n, others) /\ lev[n.mem[t][i].pfn] = lev[t] - 1
      <3>1. n.mem[t][i].pfn # 0 /\ lev[t] # 1 /\ Leads(n.mem, Own(n, others), Data(n, others), lev)
        BY <1>0, <1>3, Zenon DEF Tree
      <3> QED BY <1>0, <1>3, <3>1, Zenon DEF Leads
    <2>3. Filled(m, n, t, i, w, others)
      BY <1>3, Zenon DEF Filled
    <2>4. Spare(n, c)
      BY <1>0, <1>3, OneLess, Zenon
    <2> QED BY <1>0, <1>3, <2>1, <2>2, <2>3, <2>4, Zenon DEF Descends
  <1>4. ASSUME NEW f \in m.free \cap OS_PT_REG, Linked(m, n, t, i, w, f)
        PROVE  Descends(m, n, pgd, others, lev, t, i, w, c)
    <2>0. TreeLinked(m, n, pgd, others, lev, t, i, w, f)
      BY <1>0, <1>4, Zenon DEF TreeLinked
    <2>1. /\ \E lev2 : Tree(n, pgd, others, lev2) /\ lev2[f] = lev[t] - 1
          /\ Own(n, others) = Own(m, others) \cup {f}
          /\ f \notin Own(m, others) /\ f # 0
      BY <2>0, LinkedTree
    <2>2. n.mem[t][i].pfn = f /\ n.mem[t][i].w = w
      <3>1. n.mem[t][i] = Entry(f, w)
        BY <1>4, Zenon DEF Linked
      <3> QED BY <3>1, EntryFields
    <2>3. \A b \in Addresses : Leaf(n.mem, pgd, b) = Leaf(m.mem, pgd, b)
      BY <2>0, LinkedLeaf
    <2>4. /\ Own(m, others) \subseteq (OS_PT_REG \cup {0}) \ {f}
          /\ others \cap OS_PT_REG \subseteq (OS_PT_REG \cup {0}) \ {f}
          /\ t \notin others
      BY <1>0, <2>1, Zenon DEF Own
    <2>5. \A u \in (OS_PT_REG \cup {0}) \ {f} : \A j \in Idx :
             u # t \/ j # i => n.mem[u][j] = m.mem[u][j]
      BY <1>4, Zenon DEF Linked
    <2>6. m.mem[t][i].pfn = 0 /\ n.free = m.free \ {f} /\ n \in Memories
      BY <1>4, Zenon DEF Linked
    <2>7. \A u \in Own(m, others), j \in Idx :
             m.mem[u][j].pfn # 0 => n.mem[u][j] = m.mem[u][j]
      BY <2>4, <2>5, <2>6, ZenonT(30)
    <2>8. \A u \in others \cap OS_PT_REG, j \in Idx : n.mem[u][j] = m.mem[u][j]
      BY <2>4, <2>5, Zenon
    <2>9. \A j \in Idx : n.mem[f][j].pfn = 0
      <3>1. \A j \in Idx : n.mem[f][j] = Absent
        BY <1>4, Zenon DEF Linked
      <3> QED BY <3>1, EntryFields, Zenon
    <2>10. Filled(m, n, t, i, w, others)
      BY <2>1, <2>2, <2>4, <2>5, <2>9 DEF Filled
    <2>11. n.free \subseteq m.free /\ n.free \cap USER_REG = m.free \cap USER_REG
      BY <1>4, <2>6, LayoutAssumption, Zenon
    <2>12. Grown(m, n, pgd, others)
      BY <2>1, <2>3, <2>6, <2>7, <2>8, <2>11, Zenon DEF Grown, HasTree
    <2>13. Spare(n, c)
      BY <1>0, <2>6, OneLess, ZenonT(120)
    <2> QED BY <2>1, <2>2, <2>10, <2>12, <2>13, Zenon DEF Descends
  <1>5. \/ m.mem[t][i].pfn # 0 /\ n = m
        \/ \E f \in m.free \cap OS_PT_REG : Linked(m, n, t, i, w, f)
    BY <1>0, <1>1, AssignLinks, Zenon
  <1> QED BY <1>3, <1>4, <1>5, Zenon

-----------------------------------------------------------------------------

\* Entry j of table u is one of the three directory entries on the walk to page a.
OnWalk(mem, pgd, a, u, j) ==
    \/ u = pgd /\ j = a[1]
    \/ u = L3(mem, pgd, a) /\ j = a[2]
    \/ u = L2(mem, pgd, a) /\ j = a[3]

\* The walk to page a reaches a last-level table; new entries are on it and have
\* write bit w.
Walked(m, n, pgd, a, w, others) ==
    /\ Grown(m, n, pgd, others)
    /\ L1(n.mem, pgd, a) \in Own(n, others)
    /\ \A u \in Own(n, others), j \in Idx :
          n.mem[u][j].pfn # 0 =>
             \/ u \in Own(m, others) /\ n.mem[u][j] = m.mem[u][j]
             \/ OnWalk(n.mem, pgd, a, u, j) /\ n.mem[u][j].w = w

\* The tree of m, and what is not of the tree, is not free.
Ready(m, pgd, others) ==
    /\ m \in Memories
    /\ HasTree(m, pgd, others)
    /\ others \cap m.free = {}

\* assign_page_table_pages fills in what is missing of a walk, and only that.
LEMMA AssignTables ==
    ASSUME NEW m, NEW n, NEW pgd, NEW others, NEW a \in Addresses, NEW w \in BOOLEAN,
           Ready(m, pgd, others), Spare(m, 3),
           n = assign_page_table_pages(m, pgd, a, w)
    PROVE  Walked(m, n, pgd, a, w, others) /\ Ready(n, pgd, others)
  <1> DEFINE m3 == assign_page_table_page(m, pgd, a[1], w)
             l3 == m3.mem[pgd][a[1]].pfn
             m2 == assign_page_table_page(m3, l3, a[2], w)
             l2 == m2.mem[l3][a[2]].pfn
             l1 == n.mem[l2][a[3]].pfn
  <1>1. n = assign_page_table_page(m2, l2, a[3], w)
    BY Zenon DEF assign_page_table_pages
  <1>2. a[1] \in Idx /\ a[2] \in Idx /\ a[3] \in Idx /\ a[4] \in Idx
    BY AddressParts, Zenon
  <1> HIDE DEF m3, l3, m2, l2, l1
  <1>3. PICK lev : Tree(m, pgd, others, lev)
    BY Zenon DEF Ready, HasTree
  <1>4. Assigned(m, m3, pgd, others, lev, pgd, a[1], w, 2)
    <2>1. pgd \in Own(m, others) /\ lev[pgd] = 4
      BY <1>3, Zenon DEF Tree
    <2>2. 4 # 1 /\ 2 \in {0, 1, 2} /\ 2 + 1 = 3
      OBVIOUS
    <2> QED BY <1>2, <1>3, <2>1, <2>2, Zenon DEF Assigned, Ready, m3
  <1>5. /\ Grown(m, m3, pgd, others) /\ Filled(m, m3, pgd, a[1], w, others)
        /\ l3 \in Own(m3, others)
        /\ \E lev2 : Tree(m3, pgd, others, lev2) /\ lev2[l3] = lev[pgd] - 1
        /\ Spare(m3, 2)
    <2>1. Descends(m, m3, pgd, others, lev, pgd, a[1], w, 2)
      BY <1>4, AssignTable, Zenon
    <2> QED BY <2>1, Zenon DEF Descends, l3
  <1>6. PICK lev3 : Tree(m3, pgd, others, lev3) /\ lev3[l3] = 3
    <2>1. lev[pgd] - 1 = 3
      <3>1. lev[pgd] = 4
        BY <1>3, Zenon DEF Tree
      <3> QED BY <3>1
    <2> QED BY <1>5, <2>1, Zenon
  <1>7. others \cap m3.free = {} /\ m3 \in Memories
    BY <1>5, Zenon DEF Ready, Grown
  <1>8. Assigned(m3, m2, pgd, others, lev3, l3, a[2], w, 1)
    <2>1. 3 # 1 /\ 1 \in {0, 1, 2} /\ 1 + 1 = 2
      OBVIOUS
    <2> QED BY <1>2, <1>5, <1>6, <1>7, <2>1, Zenon DEF Assigned, m2
  <1>9. /\ Grown(m3, m2, pgd, others) /\ Filled(m3, m2, l3, a[2], w, others)
        /\ l2 \in Own(m2, others)
        /\ \E lev2 : Tree(m2, pgd, others, lev2) /\ lev2[l2] = lev3[l3] - 1
        /\ Spare(m2, 1)
    <2>1. Descends(m3, m2, pgd, others, lev3, l3, a[2], w, 1)
      BY <1>8, AssignTable, Zenon
    <2> QED BY <2>1, Zenon DEF Descends, l2
  <1>10. PICK lev2 : Tree(m2, pgd, others, lev2) /\ lev2[l2] = 2
    BY <1>6, <1>9
  <1>11. others \cap m2.free = {} /\ m2 \in Memories
    BY <1>7, <1>9, Zenon DEF Grown
  <1>12. Assigned(m2, n, pgd, others, lev2, l2, a[3], w, 0)
    <2>1. 2 # 1 /\ 0 \in {0, 1, 2} /\ 0 + 1 = 1
      OBVIOUS
    <2> QED BY <1>1, <1>2, <1>9, <1>10, <1>11, <2>1, Zenon DEF Assigned
  <1>13. /\ Grown(m2, n, pgd, others) /\ Filled(m2, n, l2, a[3], w, others)
         /\ l1 \in Own(n, others)
    <2>1. Descends(m2, n, pgd, others, lev2, l2, a[3], w, 0)
      BY <1>12, AssignTable, Zenon
    <2> QED BY <2>1, Zenon DEF Descends, l1
  <1>14. Grown(m3, n, pgd, others) /\ Grown(m, n, pgd, others)
    BY <1>5, <1>7, <1>9, <1>13, GrownTrans, Zenon DEF Ready
  <1>15. l3 # 0 /\ l2 # 0 /\ l1 # 0
    BY <1>5, <1>9, <1>13, LayoutAssumption, Zenon DEF Own
  <1>16. L3(n.mem, pgd, a) = l3
    <2>1. pgd \in Own(m3, others)
      BY <1>6, Zenon DEF Tree
    <2>2. n.mem[pgd][a[1]] = m3.mem[pgd][a[1]]
      BY <1>2, <1>14, <1>15, <2>1, Zenon DEF Grown, l3
    <2> QED BY <2>2, Zenon DEF L3, l3
  <1>17. L2(n.mem, pgd, a) = l2
    <2>1. l3 \in Own(m2, others)
      BY <1>5, <1>9, Zenon DEF Grown, Own
    <2>2. n.mem[l3][a[2]] = m2.mem[l3][a[2]]
      BY <1>2, <1>13, <1>15, <2>1, Zenon DEF Grown, l2
    <2> QED BY <1>16, <2>2, Zenon DEF L2, l2
  <1>18. L1(n.mem, pgd, a) = l1
    BY <1>17, Zenon DEF L1, l1
  <1>19. ASSUME NEW u \in Own(n, others), NEW j \in Idx, n.mem[u][j].pfn # 0
         PROVE  \/ u \in Own(m, others) /\ n.mem[u][j] = m.mem[u][j]
                \/ OnWalk(n.mem, pgd, a, u, j) /\ n.mem[u][j].w = w
    <2>1. CASE u = l2 /\ j = a[3] /\ n.mem[u][j].w = w
      BY <1>17, <2>1, Zenon DEF OnWalk
    <2>2. CASE u \in Own(m2, others) /\ n.mem[u][j] = m2.mem[u][j]
      <3>1. CASE u = l3 /\ j = a[2] /\ m2.mem[u][j].w = w
        BY <1>16, <2>2, <3>1, Zenon DEF OnWalk
      <3>2. CASE u \in Own(m3, others) /\ m2.mem[u][j] = m3.mem[u][j]
        <4>1. CASE u = pgd /\ j = a[1] /\ m3.mem[u][j].w = w
          BY <2>2, <3>2, <4>1, Zenon DEF OnWalk
        <4>2. CASE u \in Own(m, others) /\ m3.mem[u][j] = m.mem[u][j]
          BY <2>2, <3>2, <4>2, Zenon
        <4> QED BY <1>5, <1>19, <2>2, <3>2, <4>1, <4>2, Zenon DEF Filled
      <3> QED BY <1>9, <1>19, <2>2, <3>1, <3>2, Zenon DEF Filled
    <2> QED BY <1>13, <1>19, <2>1, <2>2, Zenon DEF Filled
  <1>20. Walked(m, n, pgd, a, w, others)
    BY <1>13, <1>14, <1>18, <1>19, Zenon DEF Walked
  <1>21. Ready(n, pgd, others)
    BY <1>11, <1>13, Zenon DEF Ready, Grown
  <1> QED BY <1>20, <1>21, Zenon

-----------------------------------------------------------------------------

\* Walks to different pages end in different entries.
LEMMA SlotUnique ==
    ASSUME NEW m \in Memories, NEW pgd, NEW others, NEW lev,
           Tree(m, pgd, others, lev), NEW a \in Addresses, NEW b \in Addresses,
           L1(m.mem, pgd, a) # 0, L1(m.mem, pgd, a) = L1(m.mem, pgd, b)
    PROVE  a[1] = b[1] /\ a[2] = b[2] /\ a[3] = b[3]
  <1> DEFINE own == Own(m, others)
  <1>1. /\ a[1] \in Idx /\ a[2] \in Idx /\ a[3] \in Idx
        /\ b[1] \in Idx /\ b[2] \in Idx /\ b[3] \in Idx
    BY AddressParts, Zenon
  <1>2. Apart(m.mem, own)
    BY Zenon DEF Tree
  <1>3. /\ pgd \in own
        /\ L2(m.mem, pgd, a) \in own /\ L3(m.mem, pgd, a) \in own
        /\ L2(m.mem, pgd, b) \in own /\ L3(m.mem, pgd, b) \in own
        /\ L2(m.mem, pgd, a) # 0 /\ L3(m.mem, pgd, a) # 0
    <2>1. pgd \in own /\ 0 \notin own
      BY LayoutAssumption, Zenon DEF Tree, Own
    <2>2. L2(m.mem, pgd, a) \in own /\ L3(m.mem, pgd, a) \in own
      BY <2>1, WalkLevels, Zenon DEF OnLevels
    <2>3. L2(m.mem, pgd, b) \in own /\ L3(m.mem, pgd, b) \in own
      BY <2>1, WalkLevels, Zenon DEF OnLevels
    <2> QED BY <2>1, <2>2, <2>3, Zenon
  <1> HIDE DEF own
  <1>4. L2(m.mem, pgd, a) = L2(m.mem, pgd, b) /\ a[3] = b[3]
    BY <1>1, <1>2, <1>3, OneEntry DEF L1
  <1>5. L3(m.mem, pgd, a) = L3(m.mem, pgd, b) /\ a[2] = b[2]
    BY <1>1, <1>2, <1>3, <1>4, OneEntry DEF L2
  <1>6. a[1] = b[1]
    BY <1>1, <1>2, <1>3, <1>5, OneEntry DEF L3
  <1> QED BY <1>4, <1>5, <1>6, Zenon

\* Memory n is m with page f in the last entry on the walk to a.
Placed(m, n, pgd, others, a, w, f) ==
    /\ m \in Memories /\ n \in Memories
    /\ HasTree(m, pgd, others)
    /\ a \in Addresses /\ w \in BOOLEAN
    /\ L1(m.mem, pgd, a) \in Own(m, others)
    /\ Leaf(m.mem, pgd, a).pfn = 0
    /\ f \in USER_REG \cap (m.free \cup others)
    /\ n.free = m.free \ {f}
    /\ n.mem[L1(m.mem, pgd, a)][a[4]] = Entry(f, w)
    /\ \A u \in OS_PT_REG \cup {0}, j \in Idx :
          u # L1(m.mem, pgd, a) \/ j # a[4] => n.mem[u][j] = m.mem[u][j]

\* Directories are as they were, so every walk reaches the same tables.
LEMMA PlacedWalk ==
    ASSUME NEW m, NEW n, NEW pgd, NEW others, NEW a, NEW w, NEW f,
           Placed(m, n, pgd, others, a, w, f), NEW b \in Addresses
    PROVE  /\ L3(n.mem, pgd, b) = L3(m.mem, pgd, b)
           /\ L2(n.mem, pgd, b) = L2(m.mem, pgd, b)
           /\ L1(n.mem, pgd, b) = L1(m.mem, pgd, b)
  <1> DEFINE l1 == L1(m.mem, pgd, a)
             dirs == (Own(m, others) \cup {0}) \ {l1}
  <1>1. PICK lev : Tree(m, pgd, others, lev)
    BY Zenon DEF Placed, HasTree
  <1>2. m \in Memories /\ a \in Addresses /\ l1 \in Own(m, others) /\ l1 # 0
    BY LayoutAssumption, Zenon DEF Placed, Own
  <1>3. lev[l1] = 1
    <2>1. OnLevels(m, pgd, others, lev, a)
      BY <1>1, <1>2, WalkLevels
    <2> QED BY <1>2, <2>1, Zenon DEF OnLevels
  <1>4. b[1] \in Idx /\ b[2] \in Idx /\ b[3] \in Idx
    BY AddressParts, Zenon
  <1>5. pgd \in dirs /\ L3(m.mem, pgd, b) \in dirs /\ L2(m.mem, pgd, b) \in dirs
    <2>1. /\ L3(m.mem, pgd, b) = 0 \/ (L3(m.mem, pgd, b) \in Own(m, others) /\ lev[L3(m.mem, pgd, b)] = 3)
          /\ L2(m.mem, pgd, b) = 0 \/ (L2(m.mem, pgd, b) \in Own(m, others) /\ lev[L2(m.mem, pgd, b)] = 2)
      <3>1. OnLevels(m, pgd, others, lev, b)
        BY <1>1, <1>2, WalkLevels
      <3> QED BY <3>1, Zenon DEF OnLevels
    <2>2. pgd \in Own(m, others) /\ lev[pgd] = 4
      BY <1>1, Zenon DEF Tree
    <2>3. 1 # 2 /\ 1 # 3 /\ 1 # 4
      OBVIOUS
    <2> HIDE DEF l1
    <2> QED BY <1>2, <1>3, <2>1, <2>2, <2>3
  <1>6. \A u \in dirs, j \in Idx : n.mem[u][j] = m.mem[u][j]
    BY Zenon DEF Placed, Own
  <1> HIDE DEF dirs
  <1>7. L3(n.mem, pgd, b) = L3(m.mem, pgd, b)
    BY <1>4, <1>5, <1>6, Zenon DEF L3
  <1>8. L2(n.mem, pgd, b) = L2(m.mem, pgd, b)
    <2>1. n.mem[L3(m.mem, pgd, b)][b[2]] = m.mem[L3(m.mem, pgd, b)][b[2]]
      BY <1>4, <1>5, <1>6, Zenon
    <2> QED BY <1>7, <2>1, Zenon DEF L2
  <1>9. L1(n.mem, pgd, b) = L1(m.mem, pgd, b)
    <2>1. n.mem[L2(m.mem, pgd, b)][b[3]] = m.mem[L2(m.mem, pgd, b)][b[3]]
      BY <1>4, <1>5, <1>6, Zenon
    <2> QED BY <1>8, <2>1, Zenon DEF L1
  <1> QED BY <1>7, <1>8, <1>9, Zenon

\* The page has its translation; the other pages keep theirs.
LEMMA PlacedLeaf ==
    ASSUME NEW m, NEW n, NEW pgd, NEW others, NEW a, NEW w, NEW f,
           Placed(m, n, pgd, others, a, w, f)
    PROVE  /\ Leaf(n.mem, pgd, a) = Entry(f, w)
           /\ \A b \in Addresses : b # a => Leaf(n.mem, pgd, b) = Leaf(m.mem, pgd, b)
  <1>1. PICK lev : Tree(m, pgd, others, lev)
    BY Zenon DEF Placed, HasTree
  <1>2. /\ m \in Memories /\ a \in Addresses
        /\ L1(m.mem, pgd, a) \in Own(m, others) /\ L1(m.mem, pgd, a) # 0
    BY LayoutAssumption, Zenon DEF Placed, Own
  <1>3. \A x, b : Leaf(x, pgd, b) = x[L1(x, pgd, b)][b[4]]
    BY WalkIs
  <1>4. \A b \in Addresses : L1(n.mem, pgd, b) = L1(m.mem, pgd, b)
    BY PlacedWalk
  <1>5. Leaf(n.mem, pgd, a) = Entry(f, w)
    BY <1>2, <1>3, <1>4 DEF Placed
  <1>6. ASSUME NEW b \in Addresses, b # a
        PROVE  Leaf(n.mem, pgd, b) = Leaf(m.mem, pgd, b)
    <2>1. L1(m.mem, pgd, b) # L1(m.mem, pgd, a) \/ b[4] # a[4]
      <3> SUFFICES ASSUME L1(m.mem, pgd, b) = L1(m.mem, pgd, a), b[4] = a[4]
                   PROVE  FALSE
        BY Zenon
      <3>1. a[1] = b[1] /\ a[2] = b[2] /\ a[3] = b[3]
        BY <1>1, <1>2, SlotUnique
      <3> QED BY <1>2, <1>6, <3>1, AddressParts, Zenon
    <2>2. L1(m.mem, pgd, b) \in OS_PT_REG \cup {0} /\ b[4] \in Idx
      <3>1. L1(m.mem, pgd, b) \in Own(m, others) \cup {0}
        BY <1>1, <1>2, WalkLevels, Zenon DEF OnLevels
      <3> QED BY <3>1, AddressParts, Zenon DEF Own
    <2>3. n.mem[L1(m.mem, pgd, b)][b[4]] = m.mem[L1(m.mem, pgd, b)][b[4]]
      BY <2>1, <2>2, Zenon DEF Placed
    <2> QED BY <1>3, <1>4, <2>3, Zenon
  <1> QED BY <1>5, <1>6, Zenon

Joined(m, n, pgd, others, f) ==
    /\ HasTree(n, pgd, others \ {f})
    /\ Own(n, others \ {f}) = Own(m, others)
    /\ Data(n, others \ {f}) = Data(m, others) \cup {f}

\* The page joins the tree; it was free, or somebody else's.
LEMMA PlacedTree ==
    ASSUME NEW m, NEW n, NEW pgd, NEW others, NEW a, NEW w, NEW f,
           Placed(m, n, pgd, others, a, w, f)
    PROVE  Joined(m, n, pgd, others, f)
  <1> DEFINE l1 == L1(m.mem, pgd, a)
             own == Own(m, others)
  <1>1. PICK lev : Tree(m, pgd, others, lev)
    BY Zenon DEF Placed, HasTree
  <1>2. m \in Memories /\ n \in Memories /\ a \in Addresses /\ l1 \in own /\ l1 # 0
    BY LayoutAssumption, Zenon DEF Placed, Own
  <1>3. lev[l1] = 1 /\ a[4] \in Idx /\ m.mem[l1][a[4]].pfn = 0
    <2>1. lev[l1] = 1
      <3>1. OnLevels(m, pgd, others, lev, a)
        BY <1>1, <1>2, WalkLevels
      <3> QED BY <1>2, <3>1, Zenon DEF OnLevels
    <2>2. Leaf(m.mem, pgd, a) = m.mem[l1][a[4]]
      BY WalkIs
    <2> QED BY <1>2, <2>1, <2>2, AddressParts, Zenon DEF Placed
  <1> HIDE DEF l1
  <1>4. /\ f \in USER_REG /\ f \notin OS_PT_REG /\ f # 0 /\ f \in m.free \cup others
        /\ n.free = m.free \ {f}
    BY LayoutAssumption, Zenon DEF Placed
  <1>5. Own(n, others \ {f}) = own
    BY <1>4, Zenon DEF Own
  <1>6. Data(n, others \ {f}) = Data(m, others) \cup {f} /\ f \notin Data(m, others)
    BY <1>4, Zenon DEF Data
  <1>7. /\ \A u \in own \cup {0}, j \in Idx :
              u # l1 \/ j # a[4] => n.mem[u][j] = m.mem[u][j]
        /\ n.mem[l1][a[4]].pfn = f
    <2>1. \A u \in OS_PT_REG \cup {0}, j \in Idx :
             u # l1 \/ j # a[4] => n.mem[u][j] = m.mem[u][j]
      BY Zenon DEF Placed, l1
    <2>2. n.mem[l1][a[4]] = Entry(f, w)
      BY Zenon DEF Placed, l1
    <2>3. n.mem[l1][a[4]].pfn = f
      BY <2>2, EntryFields, Zenon
    <2> QED BY <2>1, <2>3, Zenon DEF Own
  <1>8. /\ lev \in [own -> 1 .. 4]
        /\ pgd \in own /\ lev[pgd] = 4
        /\ Leads(m.mem, own, Data(m, others), lev)
        /\ Apart(m.mem, own)
        /\ Reached(m.mem, own, Data(m, others), pgd)
        /\ m.mem[0] = initialize_page
        /\ own \subseteq OS_PT_REG /\ 0 \notin own /\ 0 \notin Data(m, others)
    <2>1. own \subseteq OS_PT_REG /\ 0 \notin own /\ 0 \notin Data(m, others)
      BY LayoutAssumption, Zenon DEF Own, Data
    <2> HIDE DEF own
    <2> QED BY <1>1, <2>1, Zenon DEF Tree, own
  <1> HIDE DEF own
  <1>9. ASSUME NEW t \in own, NEW i \in Idx, n.mem[t][i].pfn # 0
        PROVE  IF lev[t] = 1 THEN n.mem[t][i].pfn \in Data(n, others \ {f})
               ELSE n.mem[t][i].pfn \in own /\ lev[n.mem[t][i].pfn] = lev[t] - 1
    <2>1. CASE t = l1 /\ i = a[4]
      BY <1>3, <1>6, <1>7, <2>1, Zenon
    <2>2. CASE t # l1 \/ i # a[4]
      <3>1. n.mem[t][i] = m.mem[t][i]
        BY <1>7, <2>2, Zenon
      <3>2. IF lev[t] = 1 THEN m.mem[t][i].pfn \in Data(m, others)
            ELSE m.mem[t][i].pfn \in own /\ lev[m.mem[t][i].pfn] = lev[t] - 1
        BY <1>8, <1>9, <3>1, Zenon DEF Leads
      <3> QED BY <1>6, <3>1, <3>2, Zenon
    <2> QED BY <2>1, <2>2, Zenon
  <1>10. \A t \in own, i \in Idx : m.mem[t][i].pfn # f
    <2>1. \A t \in own, i \in Idx :
             m.mem[t][i].pfn # 0 => m.mem[t][i].pfn \in own \cup Data(m, others)
      BY <1>8, Zenon DEF Leads
    <2>2. f \notin own \cup Data(m, others) /\ f # 0
      BY <1>4, <1>6, <1>8, Zenon
    <2> QED BY <2>1, <2>2
  <1>11. ASSUME NEW t \in own, NEW u \in own, NEW i \in Idx, NEW j \in Idx,
                n.mem[t][i].pfn # 0, n.mem[t][i].pfn = n.mem[u][j].pfn
         PROVE  t = u /\ i = j
    <2>1. CASE (t # l1 \/ i # a[4]) /\ (u # l1 \/ j # a[4])
      <3>1. n.mem[t][i] = m.mem[t][i] /\ n.mem[u][j] = m.mem[u][j]
        BY <1>7, <2>1, Zenon
      <3>2. m.mem[t][i].pfn # 0 /\ m.mem[t][i].pfn = m.mem[u][j].pfn
        BY <1>11, <3>1, Zenon
      <3> QED BY <1>8, <3>2, OneEntry
    <2>2. CASE t = l1 /\ i = a[4]
      BY <1>7, <1>10, <1>11, <2>2
    <2>3. CASE u = l1 /\ j = a[4]
      BY <1>7, <1>10, <1>11, <2>3
    <2> QED BY <2>1, <2>2, <2>3, Zenon
  <1>12. ASSUME NEW g \in (own \ {pgd}) \cup Data(n, others \ {f})
         PROVE  \E t \in own, i \in Idx : n.mem[t][i].pfn = g
    <2>1. CASE g = f
      BY <1>2, <1>3, <1>7, <2>1, Zenon
    <2>2. CASE g # f
      <3>1. g # 0 /\ g \in (own \ {pgd}) \cup Data(m, others)
        BY <1>6, <1>8, <2>2, Zenon
      <3>2. PICK t \in own, i \in Idx : m.mem[t][i].pfn = g
        BY <1>8, <3>1, Zenon DEF Reached
      <3> QED BY <1>3, <1>7, <3>1, <3>2, Zenon
    <2> QED BY <2>1, <2>2, Zenon
  <1>13. n.mem[0] = initialize_page
    <2>1. n.mem[0] \in [Idx -> PTE] /\ initialize_page \in [Idx -> PTE]
      BY <1>2, EntryFields, Zenon DEF Memories
    <2>2. \A j \in Idx : n.mem[0][j] = initialize_page[j]
      <3>1. m.mem[0] = initialize_page /\ l1 # 0
        BY <1>2, <1>8, Zenon
      <3> QED BY <1>7, <3>1, Zenon
    <2> QED BY <2>1, <2>2
  <1>14. Tree(n, pgd, others \ {f}, lev)
    <2> DEFINE o == others \ {f}
    <2> HIDE DEF o
    <2>1. Own(n, o) = own /\ Data(n, o) = Data(n, others \ {f})
      BY <1>5, Zenon DEF o
    <2>2. \A t \in Own(n, o), i \in Idx : n.mem[t][i].pfn # 0 =>
             IF lev[t] = 1 THEN n.mem[t][i].pfn \in Data(n, o)
             ELSE n.mem[t][i].pfn \in Own(n, o) /\ lev[n.mem[t][i].pfn] = lev[t] - 1
      BY <1>9, <2>1, Zenon
    <2>3. \A t, u \in Own(n, o), i, j \in Idx :
             n.mem[t][i].pfn # 0 /\ n.mem[t][i].pfn = n.mem[u][j].pfn => t = u /\ i = j
      BY <1>11, <2>1
    <2>4. \A g \in (Own(n, o) \ {pgd}) \cup Data(n, o) :
             \E t \in Own(n, o), i \in Idx : n.mem[t][i].pfn = g
      BY <1>12, <2>1, Zenon
    <2>5. lev \in [Own(n, o) -> 1 .. 4] /\ pgd \in Own(n, o) /\ lev[pgd] = 4
      BY <1>8, <2>1, Zenon
    <2>6. Tree(n, pgd, o, lev)
      <3>1. Leads(n.mem, Own(n, o), Data(n, o), lev)
        BY <2>2, Zenon DEF Leads
      <3>2. Apart(n.mem, Own(n, o))
        BY <2>3, Zenon DEF Apart
      <3>3. Reached(n.mem, Own(n, o), Data(n, o), pgd)
        BY <2>4, Zenon DEF Reached
      <3> QED BY <1>13, <2>5, <3>1, <3>2, <3>3, Zenon DEF Tree
    <2> QED BY <2>6, Zenon DEF o
  <1> QED BY <1>5, <1>6, <1>14, Zenon DEF own, HasTree, Joined

\* n is m after assign_data_page for the page that the walk to a has reached.
Placing(m, n, pgd, others, a, w, pfn) ==
    /\ m \in Memories /\ HasTree(m, pgd, others)
    /\ a \in Addresses /\ w \in BOOLEAN
    /\ L1(m.mem, pgd, a) \in Own(m, others)
    /\ m.free \cap USER_REG # {}
    /\ pfn = 0 \/ pfn \in others \cap USER_REG
    /\ n = assign_data_page(m, pgd, a, w, pfn)

\* It maps a free frame, or the given one, unless the page is there.
LEMMA AssignPlaces ==
    ASSUME NEW m, NEW n, NEW pgd, NEW others, NEW a, NEW w, NEW pfn,
           Placing(m, n, pgd, others, a, w, pfn)
    PROVE  \/ Leaf(m.mem, pgd, a).pfn # 0 /\ n = m
           \/ \E f \in USER_REG : /\ Placed(m, n, pgd, others, a, w, f)
                                  /\ f = pfn \/ (pfn = 0 /\ f \in m.free)
  <1>0. /\ m \in Memories /\ HasTree(m, pgd, others)
        /\ a \in Addresses /\ w \in BOOLEAN
        /\ L1(m.mem, pgd, a) \in Own(m, others)
        /\ m.free \cap USER_REG # {}
        /\ pfn = 0 \/ pfn \in others \cap USER_REG
        /\ n = assign_data_page(m, pgd, a, w, pfn)
    BY Zenon DEF Placing
  <1> USE <1>0
  <1> DEFINE l1 == L1(m.mem, pgd, a)
  <1>1. Tables(m.mem, pgd, a)[4] = l1 /\ Leaf(m.mem, pgd, a) = m.mem[l1][a[4]]
    BY WalkIs
  <1>2. CASE Leaf(m.mem, pgd, a).pfn # 0
    BY <1>2, Zenon DEF assign_data_page, is_valid_virtual_addr
  <1>3. CASE Leaf(m.mem, pgd, a).pfn = 0
    <2>1. PICK f : f = IF pfn = 0 THEN os_pfn_alloc(m, USER_REG) ELSE pfn
      BY Zenon
    <2>2. f \in USER_REG /\ f \in m.free \cup others /\ (f = pfn \/ (pfn = 0 /\ f \in m.free))
      <3>1. pfn = 0 => f \in m.free \cap USER_REG
        BY <2>1, Allocated, Zenon
      <3>2. pfn # 0 => f = pfn /\ pfn \in others \cap USER_REG
        BY <2>1, Zenon
      <3> QED BY <3>1, <3>2, Zenon
    <2>3. n = [mem |-> [m.mem EXCEPT ![l1][a[4]] = Entry(f, w)], free |-> m.free \ {f}]
      BY <1>1, <1>3, <2>1, Zenon DEF assign_data_page, is_valid_virtual_addr
    <2>4. l1 \in OS_PT_REG /\ a[4] \in Idx /\ Entry(f, w) \in PTE
      <3>1. f \in Nat
        BY <2>2, LayoutAssumption, Zenon
      <3> QED BY <3>1, EntryFields, AddressParts, Zenon DEF Own
    <2>5. /\ m.mem \in [OS_PT_REG \cup {0} -> [Idx -> PTE]]
          /\ m.free \subseteq OS_PT_REG \cup USER_REG
      BY Zenon DEF Memories
    <2> HIDE DEF l1
    <2>6. n.mem \in [OS_PT_REG \cup {0} -> [Idx -> PTE]] /\ n.free = m.free \ {f}
      BY <2>3, <2>4, <2>5
    <2>7. n \in Memories
      BY <2>3, <2>5, <2>6, Zenon DEF Memories
    <2>8. /\ n.mem[l1][a[4]] = Entry(f, w)
          /\ \A u \in OS_PT_REG \cup {0}, j \in Idx :
                u # l1 \/ j # a[4] => n.mem[u][j] = m.mem[u][j]
      BY <2>3, <2>4, <2>5
    <2>9. Placed(m, n, pgd, others, a, w, f)
      BY <1>3, <2>2, <2>6, <2>7, <2>8, Zenon DEF Placed, l1
    <2> QED BY <2>2, <2>9, Zenon
  <1> QED BY <1>2, <1>3, Zenon

-----------------------------------------------------------------------------

\* n is m with page a mapped to frame f, or as it was if it had one (f is 0 then):
\* tables that were missing are made with write bit w, the page gets wd, and
\* nothing else changes.
Maps(m, n, pgd, others, a, w, wd, f) ==
    /\ n \in Memories
    /\ HasTree(n, pgd, others \ {f})
    /\ n.free \subseteq m.free
    /\ n.free \cap USER_REG = (m.free \cap USER_REG) \ {f}
    /\ Own(m, others) \subseteq Own(n, others \ {f})
    /\ IF Leaf(m.mem, pgd, a).pfn # 0
       THEN f = 0 /\ Leaf(n.mem, pgd, a) = Leaf(m.mem, pgd, a)
       ELSE f \in USER_REG /\ Leaf(n.mem, pgd, a) = Entry(f, wd)
    /\ \A b \in Addresses : b # a => Leaf(n.mem, pgd, b) = Leaf(m.mem, pgd, b)
    /\ \A u \in Own(m, others), j \in Idx :
          m.mem[u][j].pfn # 0 => n.mem[u][j] = m.mem[u][j]
    /\ \A u \in others \cap OS_PT_REG, j \in Idx : n.mem[u][j] = m.mem[u][j]
    /\ L1(n.mem, pgd, a) \in Own(n, others \ {f})
    /\ \A u \in Own(n, others \ {f}), j \in Idx :
          n.mem[u][j].pfn # 0 =>
             \/ u \in Own(m, others) /\ n.mem[u][j] = m.mem[u][j]
             \/ OnWalk(n.mem, pgd, a, u, j) /\ n.mem[u][j].w = w
             \/ u = L1(n.mem, pgd, a) /\ j = a[4]

\* Page a of m can be mapped, to a free frame or to a given one.
Mappable(m, k, n, pgd, others, a, w, wd, pfn) ==
    /\ Ready(m, pgd, others) /\ FramesLeft(m)
    /\ a \in Addresses /\ w \in BOOLEAN /\ wd \in BOOLEAN
    /\ pfn = 0 \/ pfn \in others \cap USER_REG
    /\ 0 \notin others
    /\ k = assign_page_table_pages(m, pgd, a, w)
    /\ n = assign_data_page(k, pgd, a, wd, pfn)

\* Filling in the tables and then the page.
LEMMA MapsPage ==
    ASSUME NEW m, NEW k, NEW n, NEW pgd, NEW others, NEW a, NEW w, NEW wd, NEW pfn,
           Mappable(m, k, n, pgd, others, a, w, wd, pfn)
    PROVE  \E f : /\ Maps(m, n, pgd, others, a, w, wd, f)
                  /\ f \in {0, pfn} \/ f \in m.free
                  /\ f = pfn \/ f = 0 \/ pfn = 0
                  /\ Ready(n, pgd, others \ {f})
  <1>1. /\ Ready(m, pgd, others) /\ FramesLeft(m)
        /\ a \in Addresses /\ w \in BOOLEAN /\ wd \in BOOLEAN
        /\ pfn = 0 \/ pfn \in others \cap USER_REG
        /\ 0 \notin others
        /\ k = assign_page_table_pages(m, pgd, a, w)
        /\ n = assign_data_page(k, pgd, a, wd, pfn)
    BY Zenon DEF Mappable
  <1>2. Walked(m, k, pgd, a, w, others) /\ Ready(k, pgd, others)
    <2>1. Spare(m, 3)
      BY <1>1 DEF FramesLeft, Spare
    <2> QED BY <1>1, <2>1, AssignTables, Zenon
  <1>3. /\ Grown(m, k, pgd, others) /\ L1(k.mem, pgd, a) \in Own(k, others)
        /\ k \in Memories /\ HasTree(k, pgd, others)
        /\ k.free \subseteq m.free
        /\ k.free \cap USER_REG = m.free \cap USER_REG
        /\ Own(m, others) \subseteq Own(k, others)
        /\ others \cap k.free = {}
    BY <1>2, Zenon DEF Walked, Grown, Ready, Own
  <1>4. k.free \cap USER_REG # {}
    BY <1>1, <1>3, Zenon DEF FramesLeft
  <1>5. /\ \A b \in Addresses : Leaf(k.mem, pgd, b) = Leaf(m.mem, pgd, b)
        /\ \A u \in Own(m, others), j \in Idx :
              m.mem[u][j].pfn # 0 => k.mem[u][j] = m.mem[u][j]
        /\ \A u \in others \cap OS_PT_REG, j \in Idx : k.mem[u][j] = m.mem[u][j]
        /\ \A u \in Own(k, others), j \in Idx :
              k.mem[u][j].pfn # 0 =>
                 \/ u \in Own(m, others) /\ k.mem[u][j] = m.mem[u][j]
                 \/ OnWalk(k.mem, pgd, a, u, j) /\ k.mem[u][j].w = w
    BY <1>2, Zenon DEF Walked, Grown
  <1>6. \/ Leaf(k.mem, pgd, a).pfn # 0 /\ n = k
        \/ \E f \in USER_REG : /\ Placed(k, n, pgd, others, a, wd, f)
                               /\ f = pfn \/ (pfn = 0 /\ f \in k.free)
    <2>1. Placing(k, n, pgd, others, a, wd, pfn)
      BY <1>1, <1>3, <1>4, Zenon DEF Placing
    <2> QED BY <2>1, AssignPlaces
  <1>7. CASE Leaf(k.mem, pgd, a).pfn # 0 /\ n = k
    <2>1. others \ {0} = others
      BY <1>1, Zenon
    <2>2. 0 \notin USER_REG /\ (m.free \cap USER_REG) \ {0} = m.free \cap USER_REG
      BY LayoutAssumption, Zenon
    <2>3. Leaf(m.mem, pgd, a).pfn # 0 /\ Leaf(n.mem, pgd, a) = Leaf(m.mem, pgd, a)
      BY <1>1, <1>5, <1>7, Zenon
    <2>4. Maps(m, n, pgd, others, a, w, wd, 0)
      BY <1>3, <1>5, <1>7, <2>1, <2>2, <2>3, ZenonT(120) DEF Maps
    <2> QED BY <1>2, <1>7, <2>1, <2>4, Zenon
  <1>8. ASSUME NEW f \in USER_REG, Placed(k, n, pgd, others, a, wd, f),
               f = pfn \/ (pfn = 0 /\ f \in k.free)
        PROVE  /\ Maps(m, n, pgd, others, a, w, wd, f)
               /\ Ready(n, pgd, others \ {f})
    <2>1. /\ HasTree(n, pgd, others \ {f})
          /\ Own(n, others \ {f}) = Own(k, others)
      <3>1. Joined(k, n, pgd, others, f)
        BY <1>8, PlacedTree, Zenon
      <3> QED BY <3>1, Zenon DEF Joined
    <2>2. /\ Leaf(n.mem, pgd, a) = Entry(f, wd)
          /\ \A b \in Addresses : b # a => Leaf(n.mem, pgd, b) = Leaf(k.mem, pgd, b)
      BY <1>8, PlacedLeaf
    <2>3. /\ L3(n.mem, pgd, a) = L3(k.mem, pgd, a)
          /\ L2(n.mem, pgd, a) = L2(k.mem, pgd, a)
          /\ L1(n.mem, pgd, a) = L1(k.mem, pgd, a)
      BY <1>1, <1>8, PlacedWalk
    <2>4. /\ n \in Memories /\ n.free = k.free \ {f} /\ Leaf(k.mem, pgd, a).pfn = 0
          /\ \A u \in OS_PT_REG \cup {0}, j \in Idx :
                u # L1(k.mem, pgd, a) \/ j # a[4] => n.mem[u][j] = k.mem[u][j]
      BY <1>8, Zenon DEF Placed
    <2>5. k.mem[L1(k.mem, pgd, a)][a[4]].pfn = 0
      BY <2>4, WalkIs
    <2>6. Leaf(m.mem, pgd, a).pfn = 0
      BY <1>1, <1>5, <2>4, Zenon
    <2>7. \A b \in Addresses : b # a => Leaf(n.mem, pgd, b) = Leaf(m.mem, pgd, b)
      BY <1>5, <2>2, Zenon
    <2>8. \A u \in Own(m, others), j \in Idx :
             m.mem[u][j].pfn # 0 => n.mem[u][j] = m.mem[u][j]
      <3> SUFFICES ASSUME NEW u \in Own(m, others), NEW j \in Idx, m.mem[u][j].pfn # 0
                   PROVE  n.mem[u][j] = m.mem[u][j]
        BY Zenon
      <3>1. k.mem[u][j] = m.mem[u][j]
        BY <1>5, Zenon
      <3>2. u \in OS_PT_REG /\ (u # L1(k.mem, pgd, a) \/ j # a[4])
        BY <2>5, <3>1, Zenon DEF Own
      <3> QED BY <2>4, <3>1, <3>2, Zenon
    <2>9. \A u \in others \cap OS_PT_REG, j \in Idx : n.mem[u][j] = m.mem[u][j]
      <3>1. L1(k.mem, pgd, a) \notin others
        BY <1>3, Zenon DEF Own
      <3> TAKE u \in others \cap OS_PT_REG, j \in Idx
      <3>2. n.mem[u][j] = k.mem[u][j] /\ k.mem[u][j] = m.mem[u][j]
        BY <1>5, <2>4, <3>1, Zenon
      <3> QED BY <3>2, Zenon
    <2>10. ASSUME NEW u \in Own(n, others \ {f}), NEW j \in Idx, n.mem[u][j].pfn # 0
           PROVE  \/ u \in Own(m, others) /\ n.mem[u][j] = m.mem[u][j]
                  \/ OnWalk(n.mem, pgd, a, u, j) /\ n.mem[u][j].w = w
                  \/ u = L1(n.mem, pgd, a) /\ j = a[4]
      <3>1. CASE u = L1(k.mem, pgd, a) /\ j = a[4]
        BY <2>3, <3>1, Zenon
      <3>2. CASE u # L1(k.mem, pgd, a) \/ j # a[4]
        <4>1. u \in Own(k, others) /\ n.mem[u][j] = k.mem[u][j]
          BY <2>1, <2>4, <3>2, Zenon DEF Own
        <4>2. \/ u \in Own(m, others) /\ k.mem[u][j] = m.mem[u][j]
              \/ OnWalk(k.mem, pgd, a, u, j) /\ k.mem[u][j].w = w
          BY <1>5, <2>10, <4>1, ZenonT(30)
        <4> QED BY <2>3, <4>1, <4>2, Zenon DEF OnWalk
      <3> QED BY <3>1, <3>2, Zenon
    <2>11. /\ n.free \subseteq m.free
           /\ n.free \cap USER_REG = (m.free \cap USER_REG) \ {f}
      BY <1>3, <2>4, LayoutAssumption, Zenon
    <2>12. Maps(m, n, pgd, others, a, w, wd, f)
      BY <1>3, <2>1, <2>2, <2>3, <2>4, <2>6, <2>7, <2>8, <2>9, <2>10, <2>11, Zenon
      DEF Maps
    <2>13. Ready(n, pgd, others \ {f})
      <3>1. (others \ {f}) \cap n.free = {}
        BY <1>3, <2>4, Zenon
      <3> QED BY <2>1, <2>4, <3>1, Zenon DEF Ready
    <2> QED BY <2>12, <2>13, Zenon
  <1>9. CASE \E f \in USER_REG : /\ Placed(k, n, pgd, others, a, wd, f)
                                 /\ f = pfn \/ (pfn = 0 /\ f \in k.free)
    <2>1. PICK f \in USER_REG : /\ Placed(k, n, pgd, others, a, wd, f)
                                /\ f = pfn \/ (pfn = 0 /\ f \in k.free)
      BY <1>9, Zenon
    <2>2. /\ Maps(m, n, pgd, others, a, w, wd, f)
          /\ Ready(n, pgd, others \ {f})
      BY <1>8, <2>1, Zenon
    <2> QED BY <1>3, <2>1, <2>2, Zenon
  <1> QED BY <1>6, <1>7, <1>9, Zenon

-----------------------------------------------------------------------------

\* Division with remainder.
LEMMA DivMod ==
    ASSUME NEW n \in Nat, NEW d \in Nat \ {0}
    PROVE  n \div d \in Nat /\ n % d \in 0 .. d - 1 /\ n = d * (n \div d) + (n % d)
OBVIOUS

\* A page is a segment and a page number in it.
LEMMA PageParts ==
    \A p \in Pages : /\ p = <<p[1], p[2]>> /\ p[1] \in Segments
                     /\ p[2] \in Nat /\ p[2] < PAGES[p[1]]
BY LayoutAssumption DEF Pages, Segments

\* The four indices of the walk to a page.
LEMMA AddrParts ==
    ASSUME NEW p
    PROVE  /\ Addr(p)[1] = 0 /\ Addr(p)[2] = L3Index[p[1]]
           /\ Addr(p)[3] = p[2] \div SPAN /\ Addr(p)[4] = p[2] % SPAN
BY Zenon DEF Addr

\* The segments have different entries of the third-level table.
LEMMA Indices ==
    /\ \A s \in Segments : L3Index[s] \in 0 .. 3
    /\ \A s, r \in Segments : L3Index[s] = L3Index[r] => s = r
  <1>1. L3Index["CODE"] = 0 /\ L3Index["RODATA"] = 1 /\ L3Index["DATA"] = 2 /\ L3Index["STACK"] = 3
    BY Zenon DEF L3Index
  <1> QED BY <1>1 DEF Segments

\* Each page has its own four indices.
LEMMA AddrInjective ==
    /\ \A p \in Pages : Addr(p) \in Addresses
    /\ \A p, q \in Pages : Addr(p) = Addr(q) => p = q
  <1>1. ASSUME NEW p \in Pages PROVE Addr(p) \in Addresses
    <2>1. p[1] \in Segments /\ p[2] \in Nat /\ p[2] < PAGES[p[1]]
      BY PageParts, Zenon
    <2>2. SPAN \in Nat \ {0} /\ SPAN <= ENTRIES /\ ENTRIES \in Nat /\ 4 <= ENTRIES
      BY SpanAssumption
    <2>3. p[2] \div SPAN \in Nat /\ p[2] % SPAN \in 0 .. SPAN - 1
          /\ p[2] = SPAN * (p[2] \div SPAN) + (p[2] % SPAN)
      BY <2>1, <2>2, DivMod, Zenon
    <2>4. PAGES[p[1]] \in Nat /\ PAGES[p[1]] <= SPAN * ENTRIES
      BY <2>1, LayoutAssumption, SpanAssumption, Zenon DEF Segments
    <2>5. p[2] \div SPAN < ENTRIES
      <3> DEFINE k == p[2] \div SPAN
      <3>1. k \in Nat /\ p[2] % SPAN \in Nat /\ p[2] = SPAN * k + (p[2] % SPAN)
        BY <2>2, <2>3
      <3> HIDE DEF k
      <3>2. SPAN * k < SPAN * ENTRIES
        BY <2>1, <2>2, <2>4, <3>1
      <3>3. k < ENTRIES
        BY <2>2, <3>1, <3>2
      <3> QED BY <3>3, Zenon DEF k
    <2>6. 0 \in Idx /\ L3Index[p[1]] \in Idx /\ p[2] \div SPAN \in Idx /\ p[2] % SPAN \in Idx
      <3>1. L3Index[p[1]] \in 0 .. 3
        BY <2>1, Indices, Zenon
      <3> QED BY <2>2, <2>3, <2>5, <3>1 DEF Idx
    <2> QED BY <2>6, Zenon DEF Addr, Addresses
  <1>2. ASSUME NEW p \in Pages, NEW q \in Pages, Addr(p) = Addr(q) PROVE p = q
    <2>1. L3Index[p[1]] = L3Index[q[1]] /\ p[2] \div SPAN = q[2] \div SPAN /\ p[2] % SPAN = q[2] % SPAN
      BY <1>2, AddrParts, Zenon
    <2>2. p[2] \in Nat /\ q[2] \in Nat /\ SPAN \in Nat \ {0} /\ p[1] \in Segments /\ q[1] \in Segments
      BY PageParts, SpanAssumption
    <2>3. p[2] = SPAN * (p[2] \div SPAN) + (p[2] % SPAN)
      BY <2>2, DivMod, Zenon
    <2>4. q[2] = SPAN * (q[2] \div SPAN) + (q[2] % SPAN)
      BY <2>2, DivMod, Zenon
    <2>5. p[2] = q[2] /\ p[1] = q[1]
      BY <2>1, <2>2, <2>3, <2>4, Indices, Zenon
    <2> QED BY <2>5, PageParts, Zenon
  <1> QED BY <1>1, <1>2, Zenon

-----------------------------------------------------------------------------

\* Entry j of table u is a directory entry below the top one on the walk to a page
\* of the read-only segment.
RodataDir(mm, top, u, j) ==
    \E q \in Pages : /\ q[1] = "RODATA"
                     /\ \/ u = L3(mm, top, Addr(q)) /\ j = Addr(q)[2]
                        \/ u = L2(mm, top, Addr(q)) /\ j = Addr(q)[3]

\* The tables below top are a tree; every page that is not free is the page of a
\* segment; pages have the write bit of their segment, and a directory entry
\* lacks it only on the way to the read-only segment.
MapOK(m, top) ==
    /\ m \in Memories
    /\ HasTree(m, top, {})
    /\ \A f \in USER_REG \ m.free : \E p \in Pages : Leaf(m.mem, top, Addr(p)).pfn = f
    /\ \A p \in Pages : Leaf(m.mem, top, Addr(p)).pfn # 0 =>
                           Leaf(m.mem, top, Addr(p)).w = CanWrite(p[1])
    /\ \A u \in OS_PT_REG \ m.free, j \in Idx :
          m.mem[u][j].pfn \in OS_PT_REG /\ ~m.mem[u][j].w => RodataDir(m.mem, top, u, j)

\* A tree of its own memory has all the tables and all the pages that are not free.
LEMMA OwnAll ==
    ASSUME NEW m
    PROVE  Own(m, {}) = OS_PT_REG \ m.free /\ Data(m, {}) = USER_REG \ m.free
BY Zenon DEF Own, Data

\* What the tree says of the walk to a page.
LEMMA PageWalk ==
    ASSUME NEW m, NEW top, MapOK(m, top), NEW p \in Pages
    PROVE  LET a == Addr(p)
               own == OS_PT_REG \ m.free
           IN  /\ \E lev : /\ Tree(m, top, {}, lev)
                           /\ L3(m.mem, top, a) # 0 => lev[L3(m.mem, top, a)] = 3
                           /\ L2(m.mem, top, a) # 0 => lev[L2(m.mem, top, a)] = 2
                           /\ L1(m.mem, top, a) # 0 => lev[L1(m.mem, top, a)] = 1
               /\ L3(m.mem, top, a) # 0 => L3(m.mem, top, a) \in own
               /\ L2(m.mem, top, a) # 0 => L2(m.mem, top, a) \in own /\ L3(m.mem, top, a) # 0
               /\ L1(m.mem, top, a) # 0 => L1(m.mem, top, a) \in own /\ L2(m.mem, top, a) # 0
               /\ Leaf(m.mem, top, a).pfn # 0 =>
                     Leaf(m.mem, top, a).pfn \in USER_REG \ m.free /\ L1(m.mem, top, a) # 0
  <1> DEFINE a == Addr(p)
  <1>1. PICK lev : Tree(m, top, {}, lev)
    BY Zenon DEF MapOK, HasTree
  <1>2. m \in Memories /\ a \in Addresses
    BY AddrInjective, Zenon DEF MapOK
  <1>3. Leaf(m.mem, top, a) = m.mem[L1(m.mem, top, a)][a[4]]
    BY WalkIs
  <1>4. Absent.pfn = 0
    BY EntryFields, ZenonT(30)
  <1> HIDE DEF a
  <1>7. OnLevels(m, top, {}, lev, a)
    BY <1>1, <1>2, WalkLevels
  <1>5. /\ L3(m.mem, top, a) # 0 => L3(m.mem, top, a) \in Own(m, {}) /\ lev[L3(m.mem, top, a)] = 3
        /\ L2(m.mem, top, a) # 0 =>
              /\ L2(m.mem, top, a) \in Own(m, {}) /\ lev[L2(m.mem, top, a)] = 2
              /\ L3(m.mem, top, a) # 0
        /\ L1(m.mem, top, a) # 0 =>
              /\ L1(m.mem, top, a) \in Own(m, {}) /\ lev[L1(m.mem, top, a)] = 1
              /\ L2(m.mem, top, a) # 0
    BY <1>7, Zenon DEF OnLevels
  <1>6. Leaf(m.mem, top, a).pfn # 0 =>
           Leaf(m.mem, top, a).pfn \in Data(m, {}) /\ L1(m.mem, top, a) # 0
    BY <1>3, <1>4, <1>7, Zenon DEF OnLevels
  <1> QED BY <1>1, <1>5, <1>6, OwnAll, Zenon DEF a

\* Two pages never have the same frame.
LEMMA FrameUnique ==
    ASSUME NEW m, NEW top, MapOK(m, top), NEW p \in Pages, NEW q \in Pages,
           Leaf(m.mem, top, Addr(p)).pfn # 0,
           Leaf(m.mem, top, Addr(p)).pfn = Leaf(m.mem, top, Addr(q)).pfn
    PROVE  p = q
  <1>1. PICK lev : Tree(m, top, {}, lev)
    BY Zenon DEF MapOK, HasTree
  <1>2. m \in Memories /\ Addr(p) \in Addresses /\ Addr(q) \in Addresses
    BY AddrInjective, ZenonT(30) DEF MapOK
  <1>3. /\ L1(m.mem, top, Addr(p)) \in Own(m, {}) /\ L1(m.mem, top, Addr(p)) # 0
        /\ L1(m.mem, top, Addr(q)) \in Own(m, {})
    BY PageWalk, OwnAll
  <1>4. Addr(p)[4] \in Idx /\ Addr(q)[4] \in Idx
    BY <1>2, AddressParts, Zenon
  <1>5. /\ Leaf(m.mem, top, Addr(p)) = m.mem[L1(m.mem, top, Addr(p))][Addr(p)[4]]
        /\ Leaf(m.mem, top, Addr(q)) = m.mem[L1(m.mem, top, Addr(q))][Addr(q)[4]]
    BY WalkIs
  <1>6. Apart(m.mem, Own(m, {}))
    BY <1>1, Zenon DEF Tree
  <1>7. L1(m.mem, top, Addr(p)) = L1(m.mem, top, Addr(q)) /\ Addr(p)[4] = Addr(q)[4]
    BY <1>3, <1>4, <1>5, <1>6, OneEntry
  <1>8. Addr(p)[1] = Addr(q)[1] /\ Addr(p)[2] = Addr(q)[2] /\ Addr(p)[3] = Addr(q)[3]
    BY <1>1, <1>2, <1>3, <1>7, SlotUnique
  <1>9. Addr(p) = Addr(q)
    BY <1>2, <1>7, <1>8, AddressParts, Zenon
  <1> QED BY <1>9, AddrInjective, Zenon

\* The processor may write a page exactly if its segment is writable.
LEMMA WritableIs ==
    ASSUME NEW m, NEW top, MapOK(m, top), NEW p \in Pages,
           Leaf(m.mem, top, Addr(p)).pfn # 0
    PROVE  Writable(m.mem, top, Addr(p)) = CanWrite(p[1])
  <1> DEFINE a == Addr(p)
             l3 == L3(m.mem, top, a)
             l2 == L2(m.mem, top, a)
             l1 == L1(m.mem, top, a)
             own == OS_PT_REG \ m.free
  <1>1. Writable(m.mem, top, a) <=> /\ m.mem[top][a[1]].w /\ m.mem[l3][a[2]].w
                                    /\ m.mem[l2][a[3]].w /\ m.mem[l1][a[4]].w
    <2>1. \A d \in 1 .. 4 : d = 1 \/ d = 2 \/ d = 3 \/ d = 4
      OBVIOUS
    <2>2. /\ Tables(m.mem, top, a)[1] = top /\ Tables(m.mem, top, a)[2] = l3
          /\ Tables(m.mem, top, a)[3] = l2 /\ Tables(m.mem, top, a)[4] = l1
      BY WalkIs
    <2>3. 1 \in 1 .. 4 /\ 2 \in 1 .. 4 /\ 3 \in 1 .. 4 /\ 4 \in 1 .. 4
      OBVIOUS
    <2> HIDE DEF a, l3, l2, l1
    <2> QED BY <2>1, <2>2, <2>3, Zenon DEF Writable
  <1>2. Leaf(m.mem, top, a) = m.mem[l1][a[4]] /\ m.mem[l1][a[4]].w = CanWrite(p[1])
    <2>1. Leaf(m.mem, top, a) = m.mem[l1][a[4]]
      BY WalkIs
    <2> QED BY <2>1, Zenon DEF MapOK
  <1>3. CanWrite(p[1]) \in BOOLEAN
    BY DEF CanWrite
  <1>4. CASE ~CanWrite(p[1])
    <2> HIDE DEF a, l3, l2, l1
    <2>1. ~Writable(m.mem, top, a)
      BY <1>1, <1>2, <1>4, Zenon
    <2>2. Writable(m.mem, top, a) \in BOOLEAN
      BY Zenon DEF Writable
    <2> QED BY <1>3, <1>4, <2>1, <2>2, Zenon DEF a
  <1>5. CASE CanWrite(p[1])
    <2>1. PICK lev : Tree(m, top, {}, lev)
      BY Zenon DEF MapOK, HasTree
    <2>2. m \in Memories /\ a \in Addresses
      BY AddrInjective, ZenonT(30) DEF MapOK
    <2>3. /\ l3 \in own /\ l2 \in own /\ l1 \in own /\ l3 # 0 /\ l2 # 0 /\ l1 # 0
      BY PageWalk, Zenon
    <2>4. \A b \in Addresses :
            /\ L3(m.mem, top, b) # 0 => lev[L3(m.mem, top, b)] = 3
            /\ L2(m.mem, top, b) # 0 => lev[L2(m.mem, top, b)] = 2 /\ L3(m.mem, top, b) \in own
      <3> TAKE b \in Addresses
      <3>1. OnLevels(m, top, {}, lev, b)
        BY <2>1, <2>2, WalkLevels
      <3>2. Own(m, {}) = own
        BY OwnAll
      <3>3. L2(m.mem, top, b) # 0 => L3(m.mem, top, b) \in Own(m, {})
        BY <3>1, Zenon DEF OnLevels
      <3> QED BY <3>1, <3>2, <3>3, Zenon DEF OnLevels
    <2>5. lev[top] = 4 /\ top \in own /\ 0 \notin own
      BY <2>1, OwnAll, LayoutAssumption, Zenon DEF Tree
    <2>6. a[1] \in Idx /\ a[2] \in Idx /\ a[3] \in Idx
      BY <2>2, AddressParts, Zenon
    <2>7. \A q \in Pages : q[1] = "RODATA" => Addr(q)[2] # a[2] /\ Addr(q) \in Addresses
      <3>1. \A q \in Pages : q[1] = "RODATA" => q[1] # p[1] /\ q[1] \in Segments /\ p[1] \in Segments
        BY <1>5, PageParts, Zenon DEF CanWrite
      <3>2. \A q \in Pages : Addr(q)[2] = L3Index[q[1]] /\ Addr(q) \in Addresses
        BY AddrParts, AddrInjective, Zenon
      <3>3. a[2] = L3Index[p[1]]
        BY AddrParts, Zenon
      <3> HIDE DEF a
      <3> QED BY <3>1, <3>2, <3>3, Indices, ZenonT(30)
    <2>8. \A u \in own, j \in Idx : m.mem[u][j].pfn \in own /\ ~m.mem[u][j].w =>
             \E q \in Pages : /\ q[1] = "RODATA"
                              /\ \/ u = L3(m.mem, top, Addr(q)) /\ j = Addr(q)[2]
                                 \/ u = L2(m.mem, top, Addr(q)) /\ j = Addr(q)[3]
      BY ZenonT(30) DEF MapOK, RodataDir
    <2>9. \A t, u \in own, i, j \in Idx :
            m.mem[t][i].pfn # 0 /\ m.mem[t][i].pfn = m.mem[u][j].pfn => t = u /\ i = j
      <3>1. \A t, u \in Own(m, {}), i, j \in Idx :
              m.mem[t][i].pfn # 0 /\ m.mem[t][i].pfn = m.mem[u][j].pfn => t = u /\ i = j
        BY <2>1, Zenon DEF Tree, Apart
      <3> QED BY <3>1, OwnAll, Zenon
    <2>10. lev[l3] = 3 /\ lev[l2] = 2
      BY <2>2, <2>3, <2>4, Zenon
    <2>11. l3 = m.mem[top][a[1]].pfn /\ l2 = m.mem[l3][a[2]].pfn /\ l1 = m.mem[l2][a[3]].pfn
      BY Zenon DEF L3, L2, L1
    <2> HIDE DEF a, l3, l2, l1, own
    <2>12. m.mem[top][a[1]].w
      <3> SUFFICES ASSUME ~m.mem[top][a[1]].w PROVE FALSE
        BY Zenon
      <3>1. PICK q \in Pages : /\ q[1] = "RODATA"
                               /\ \/ top = L3(m.mem, top, Addr(q))
                                  \/ top = L2(m.mem, top, Addr(q))
        BY <2>3, <2>5, <2>6, <2>8, <2>11, ZenonT(30)
      <3>2. top # 0 /\ Addr(q) \in Addresses
        BY <2>5, <2>7, <3>1, Zenon
      <3>3. 4 # 3 /\ 4 # 2
        OBVIOUS
      <3> QED BY <2>4, <2>5, <3>1, <3>2, <3>3, Zenon
    <2>13. m.mem[l3][a[2]].w
      <3> SUFFICES ASSUME ~m.mem[l3][a[2]].w PROVE FALSE
        BY Zenon
      <3>1. PICK q \in Pages : /\ q[1] = "RODATA"
                               /\ \/ a[2] = Addr(q)[2]
                                  \/ l3 = L2(m.mem, top, Addr(q))
        BY <2>3, <2>6, <2>8, <2>11, ZenonT(30)
      <3>2. 3 # 2 /\ Addr(q) \in Addresses /\ Addr(q)[2] # a[2]
        BY <2>7, <3>1
      <3> QED BY <2>3, <2>4, <2>10, <3>1, <3>2, Zenon
    <2>14. m.mem[l2][a[3]].w
      <3> SUFFICES ASSUME ~m.mem[l2][a[3]].w PROVE FALSE
        BY Zenon
      <3>1. PICK q \in Pages : /\ q[1] = "RODATA"
                               /\ \/ l2 = L3(m.mem, top, Addr(q))
                                  \/ l2 = L2(m.mem, top, Addr(q))
        BY <2>3, <2>6, <2>8, <2>11, ZenonT(30)
      <3>2. 3 # 2 /\ Addr(q) \in Addresses /\ Addr(q)[2] # a[2] /\ Addr(q)[2] \in Idx
        BY <2>7, <3>1, AddressParts
      <3>3. l2 = L2(m.mem, top, Addr(q)) /\ L3(m.mem, top, Addr(q)) \in own
        BY <2>3, <2>4, <2>10, <3>1, <3>2, Zenon
      <3> DEFINE x == L3(m.mem, top, Addr(q))
                 k == Addr(q)[2]
      <3>4. m.mem[x][k].pfn = l2
        BY <3>3, Zenon DEF L2
      <3>5. x \in own /\ k \in Idx /\ k # a[2]
        BY <3>2, <3>3, Zenon
      <3> HIDE DEF x, k
      <3>6. m.mem[x][k].pfn # 0 /\ m.mem[x][k].pfn = m.mem[l3][a[2]].pfn
        BY <2>3, <2>11, <3>4, Zenon
      <3> QED BY <2>3, <2>6, <2>9, <3>5, <3>6
    <2>15. Writable(m.mem, top, a)
      BY <1>1, <1>2, <1>5, <2>12, <2>13, <2>14, Zenon
    <2>16. Writable(m.mem, top, a) \in BOOLEAN
      BY Zenon DEF Writable
    <2> QED BY <1>3, <1>5, <2>15, <2>16, Zenon DEF a
  <1> QED BY <1>4, <1>5, Zenon

\* Page p has been mapped: with writable tables, or below a top entry that exists
\* if it is a page of the read-only segment.
Added(m, n, top, p, w, f) ==
    /\ MapOK(m, top) /\ p \in Pages
    /\ Maps(m, n, top, {}, Addr(p), w, CanWrite(p[1]), f)
    /\ w \/ (p[1] = "RODATA" /\ m.mem[top][0].pfn # 0)

\* What was mapped to what stays, but for page p, which has a frame.
LEMMA AddedLeaf ==
    ASSUME NEW m, NEW n, NEW top, NEW p, NEW w, NEW f, Added(m, n, top, p, w, f)
    PROVE  /\ \A q \in Pages : q # p => Leaf(n.mem, top, Addr(q)) = Leaf(m.mem, top, Addr(q))
           /\ Leaf(m.mem, top, Addr(p)).pfn # 0 =>
                 f = 0 /\ Leaf(n.mem, top, Addr(p)) = Leaf(m.mem, top, Addr(p))
           /\ Leaf(m.mem, top, Addr(p)).pfn = 0 =>
                 /\ f \in USER_REG /\ Leaf(n.mem, top, Addr(p)).pfn = f
                 /\ Leaf(n.mem, top, Addr(p)).w = CanWrite(p[1])
           /\ n.free \cap USER_REG = (m.free \cap USER_REG) \ {f}
           /\ n.mem[top][0].pfn # 0
  <1>1. p \in Pages /\ Maps(m, n, top, {}, Addr(p), w, CanWrite(p[1]), f)
    BY Zenon DEF Added
  <1>2. \A q \in Pages : q # p => Leaf(n.mem, top, Addr(q)) = Leaf(m.mem, top, Addr(q))
    <2>1. \A b \in Addresses : b # Addr(p) => Leaf(n.mem, top, b) = Leaf(m.mem, top, b)
      BY <1>1, Zenon DEF Maps
    <2> QED BY <1>1, <2>1, AddrInjective, Zenon
  <1>3. IF Leaf(m.mem, top, Addr(p)).pfn # 0
        THEN f = 0 /\ Leaf(n.mem, top, Addr(p)) = Leaf(m.mem, top, Addr(p))
        ELSE f \in USER_REG /\ Leaf(n.mem, top, Addr(p)) = Entry(f, CanWrite(p[1]))
    BY <1>1, Zenon DEF Maps
  <1>4. Entry(f, CanWrite(p[1])).pfn = f /\ Entry(f, CanWrite(p[1])).w = CanWrite(p[1])
    BY EntryFields, Zenon
  <1>5. n.free \cap USER_REG = (m.free \cap USER_REG) \ {f}
    BY <1>1, Zenon DEF Maps
  <1>6. n.mem[top][0].pfn # 0
    <2>1. {} \ {f} = {}
      BY Zenon
    <2>2. n \in Memories /\ HasTree(n, top, {}) /\ L1(n.mem, top, Addr(p)) \in Own(n, {})
      BY <1>1, <2>1, Zenon DEF Maps
    <2>3. PICK lev : Tree(n, top, {}, lev)
      BY <2>2, Zenon DEF HasTree
    <2>4. L1(n.mem, top, Addr(p)) # 0
      BY <2>2, LayoutAssumption, Zenon DEF Own
    <2>5. Addr(p) \in Addresses
      BY <1>1, AddrInjective, ZenonT(30)
    <2>6. L3(n.mem, top, Addr(p)) # 0
      BY <2>2, <2>3, <2>4, <2>5, WalkLevels, Zenon DEF OnLevels
    <2>7. Addr(p)[1] = 0
      BY <1>1, AddrParts, Zenon
    <2> QED BY <2>6, <2>7, Zenon DEF L3
  <1> QED BY <1>2, <1>3, <1>4, <1>5, <1>6, Zenon

OneMore(m, n, top, p) ==
    /\ \A q \in Pages : Leaf(n.mem, top, Addr(q)).pfn # 0 <=>
                          Leaf(m.mem, top, Addr(q)).pfn # 0 \/ q = p
    /\ n.mem[top][0].pfn # 0

\* One more page is mapped.
LEMMA AddedMapped ==
    ASSUME NEW m, NEW n, NEW top, NEW p, NEW w, NEW f, Added(m, n, top, p, w, f)
    PROVE  OneMore(m, n, top, p)
  <1>1. 0 \notin USER_REG
    BY LayoutAssumption, Zenon
  <1> QED BY <1>1, AddedLeaf DEF OneMore

\* The directories on the way to the read-only segment stay where they are.
LEMMA AddedDirs ==
    ASSUME NEW m, NEW n, NEW top, NEW p, NEW w, NEW f, Added(m, n, top, p, w, f),
           NEW u \in OS_PT_REG \ m.free, NEW j, RodataDir(m.mem, top, u, j)
    PROVE  RodataDir(n.mem, top, u, j)
  <1>1. Maps(m, n, top, {}, Addr(p), w, CanWrite(p[1]), f) /\ MapOK(m, top)
    BY Zenon DEF Added
  <1>2. PICK q \in Pages : /\ q[1] = "RODATA"
                           /\ \/ u = L3(m.mem, top, Addr(q)) /\ j = Addr(q)[2]
                              \/ u = L2(m.mem, top, Addr(q)) /\ j = Addr(q)[3]
    BY Zenon DEF RodataDir
  <1>3. \A x \in OS_PT_REG \ m.free, i \in Idx :
           m.mem[x][i].pfn # 0 => n.mem[x][i] = m.mem[x][i]
    BY <1>1, OwnAll, Zenon DEF Maps
  <1>4. Addr(q)[1] \in Idx /\ Addr(q)[2] \in Idx
    BY AddrInjective, AddressParts, Zenon
  <1>5. u # 0
    BY LayoutAssumption, Zenon
  <1>6. L3(m.mem, top, Addr(q)) # 0
    BY <1>1, <1>2, <1>5, PageWalk, Zenon
  <1>7. top \in OS_PT_REG \ m.free
    BY <1>1, OwnAll, Zenon DEF MapOK, HasTree, Tree
  <1>8. L3(n.mem, top, Addr(q)) = L3(m.mem, top, Addr(q))
    BY <1>3, <1>4, <1>6, <1>7, Zenon DEF L3
  <1>9. CASE u = L3(m.mem, top, Addr(q)) /\ j = Addr(q)[2]
    BY <1>2, <1>8, <1>9, Zenon DEF RodataDir
  <1>10. CASE u = L2(m.mem, top, Addr(q)) /\ j = Addr(q)[3]
    <2>1. L3(m.mem, top, Addr(q)) \in OS_PT_REG \ m.free
      BY <1>1, <1>6, PageWalk, Zenon
    <2>2. L2(n.mem, top, Addr(q)) = L2(m.mem, top, Addr(q))
      BY <1>3, <1>4, <1>5, <1>8, <1>10, <2>1, ZenonT(120) DEF L2
    <2> QED BY <1>2, <1>10, <2>2, ZenonT(30) DEF RodataDir
  <1> QED BY <1>2, <1>9, <1>10, Zenon

\* Mapping a page keeps the tables in order.
LEMMA AddedOK ==
    ASSUME NEW m, NEW n, NEW top, NEW p, NEW w, NEW f, Added(m, n, top, p, w, f)
    PROVE  MapOK(n, top)
  <1>1. /\ MapOK(m, top) /\ p \in Pages
        /\ Maps(m, n, top, {}, Addr(p), w, CanWrite(p[1]), f)
        /\ w \/ (p[1] = "RODATA" /\ m.mem[top][0].pfn # 0)
    BY Zenon DEF Added
  <1>2. {} \ {f} = {}
    BY Zenon
  <1>3. n \in Memories /\ HasTree(n, top, {}) /\ L1(n.mem, top, Addr(p)) \in Own(n, {})
    BY <1>1, <1>2, Zenon DEF Maps
  <1>4. ASSUME NEW g \in USER_REG \ n.free
        PROVE  \E q \in Pages : Leaf(n.mem, top, Addr(q)).pfn = g
    <2>1. n.free \cap USER_REG = (m.free \cap USER_REG) \ {f}
      BY AddedLeaf
    <2>2. g # 0
      BY LayoutAssumption, Zenon
    <2>3. CASE g = f
      BY <1>1, <2>2, <2>3, AddedLeaf
    <2>4. CASE g # f
      <3>1. g \in USER_REG \ m.free
        BY <2>1, <2>4, Zenon
      <3>2. PICK q \in Pages : Leaf(m.mem, top, Addr(q)).pfn = g
        BY <1>1, <3>1, Zenon DEF MapOK
      <3>3. Leaf(n.mem, top, Addr(q)) = Leaf(m.mem, top, Addr(q))
        BY <2>2, <3>2, AddedLeaf
      <3> QED BY <3>2, <3>3, ZenonT(30)
    <2> QED BY <2>3, <2>4, Zenon
  <1>5. ASSUME NEW q \in Pages, Leaf(n.mem, top, Addr(q)).pfn # 0
        PROVE  Leaf(n.mem, top, Addr(q)).w = CanWrite(q[1])
    <2>1. \A x \in Pages : Leaf(m.mem, top, Addr(x)).pfn # 0 =>
                              Leaf(m.mem, top, Addr(x)).w = CanWrite(x[1])
      BY <1>1, Zenon DEF MapOK
    <2>2. \A x \in Pages : x # p => Leaf(n.mem, top, Addr(x)) = Leaf(m.mem, top, Addr(x))
      BY AddedLeaf
    <2>3. CASE q # p
      BY <1>5, <2>1, <2>2, <2>3, ZenonT(30)
    <2>4. CASE q = p
      BY <1>1, <2>1, <2>4, AddedLeaf
    <2> QED BY <2>3, <2>4, Zenon
  <1>6. ASSUME NEW u \in OS_PT_REG \ n.free, NEW j \in Idx,
               n.mem[u][j].pfn \in OS_PT_REG, ~n.mem[u][j].w
        PROVE  RodataDir(n.mem, top, u, j)
    <2>1. n.mem[u][j].pfn # 0 /\ n.mem[u][j].pfn \notin USER_REG
      BY <1>6, LayoutAssumption, Zenon
    <2>2. \/ u \in Own(m, {}) /\ n.mem[u][j] = m.mem[u][j]
          \/ OnWalk(n.mem, top, Addr(p), u, j) /\ n.mem[u][j].w = w
          \/ u = L1(n.mem, top, Addr(p)) /\ j = Addr(p)[4]
      BY <1>1, <1>2, <1>6, <2>1, OwnAll, ZenonT(30) DEF Maps
    <2>3. ASSUME u \in Own(m, {}), n.mem[u][j] = m.mem[u][j]
          PROVE  RodataDir(n.mem, top, u, j)
      <3>1. u \in OS_PT_REG \ m.free
        BY <2>3, OwnAll, Zenon
      <3>2. RodataDir(m.mem, top, u, j)
        BY <1>1, <1>6, <2>3, <3>1, Zenon DEF MapOK
      <3> QED BY <3>1, <3>2, AddedDirs, Zenon
    <2>4. CASE OnWalk(n.mem, top, Addr(p), u, j) /\ n.mem[u][j].w = w
      <3>1. p[1] = "RODATA" /\ m.mem[top][0].pfn # 0
        BY <1>1, <1>6, <2>4, Zenon
      <3>2. CASE u = top /\ j = Addr(p)[1]
        <4>1. Addr(p)[1] = 0
          BY <1>1, AddrParts, Zenon
        <4>2. top \in Own(m, {})
          BY <1>1, Zenon DEF MapOK, HasTree, Tree
        <4>3. n.mem[u][j] = m.mem[u][j]
          <5>1. \A x \in Own(m, {}), i \in Idx :
                   m.mem[x][i].pfn # 0 => n.mem[x][i] = m.mem[x][i]
            BY <1>1, Zenon DEF Maps
          <5>2. m.mem[u][j].pfn # 0 /\ u \in Own(m, {}) /\ j \in Idx
            BY <3>1, <3>2, <4>1, <4>2, Zenon
          <5> QED BY <5>1, <5>2, Zenon
        <4> QED BY <2>3, <3>2, <4>2, <4>3, Zenon
      <3>3. CASE u = L3(n.mem, top, Addr(p)) /\ j = Addr(p)[2]
        BY <1>1, <3>1, <3>3, Zenon DEF RodataDir
      <3>4. CASE u = L2(n.mem, top, Addr(p)) /\ j = Addr(p)[3]
        BY <1>1, <3>1, <3>4, Zenon DEF RodataDir
      <3> QED BY <2>4, <3>2, <3>3, <3>4, Zenon DEF OnWalk
    <2>5. CASE u = L1(n.mem, top, Addr(p)) /\ j = Addr(p)[4]
      <3>1. PICK lev : Tree(n, top, {}, lev)
        BY <1>3, Zenon DEF HasTree
      <3>2. u # 0 /\ Addr(p) \in Addresses
        BY <1>1, LayoutAssumption, AddrInjective, Zenon
      <3>3. n.mem[u][j].pfn \in Data(n, {})
        <4>1. Absent.pfn = 0
          BY EntryFields, Zenon
        <4> QED BY <1>3, <2>1, <2>5, <3>1, <3>2, <4>1, WalkLevels, Zenon DEF OnLevels
      <3> QED BY <2>1, <3>3, Zenon DEF Data
    <2> QED BY <2>2, <2>3, <2>4, <2>5, Zenon
  <1> QED BY <1>3, <1>4, <1>5, <1>6, Zenon DEF MapOK

\* To load page p into m gives n.
CanAdd(m, n, top, p, w) ==
    /\ MapOK(m, top) /\ FramesLeft(m)
    /\ p \in Pages /\ w \in BOOLEAN
    /\ w \/ (p[1] = "RODATA" /\ m.mem[top][0].pfn # 0)
    /\ n = assign_data_page(assign_page_table_pages(m, top, Addr(p), w),
                            top, Addr(p), CanWrite(p[1]), 0)

AddsTo(m, n, top, p, w, f) ==
    /\ Added(m, n, top, p, w, f)
    /\ f = 0 \/ f \in m.free
    /\ MapOK(n, top)

\* Filling in the tables and the page.
LEMMA Adds ==
    ASSUME NEW m, NEW n, NEW top, NEW p, NEW w, CanAdd(m, n, top, p, w)
    PROVE  \E f : AddsTo(m, n, top, p, w, f)
  <1> DEFINE k == assign_page_table_pages(m, top, Addr(p), w)
  <1>1. /\ MapOK(m, top) /\ FramesLeft(m)
        /\ p \in Pages /\ w \in BOOLEAN
        /\ w \/ (p[1] = "RODATA" /\ m.mem[top][0].pfn # 0)
        /\ n = assign_data_page(k, top, Addr(p), CanWrite(p[1]), 0)
    BY Zenon DEF CanAdd
  <1>2. Addr(p) \in Addresses /\ CanWrite(p[1]) \in BOOLEAN /\ {} \cap m.free = {}
    BY <1>1, AddrInjective DEF CanWrite
  <1>3. Ready(m, top, {})
    BY <1>1, <1>2, Zenon DEF Ready, MapOK
  <1>4. Mappable(m, k, n, top, {}, Addr(p), w, CanWrite(p[1]), 0)
    BY <1>1, <1>2, <1>3, Zenon DEF Mappable
  <1> HIDE DEF k
  <1>5. PICK f : /\ Maps(m, n, top, {}, Addr(p), w, CanWrite(p[1]), f)
                 /\ f \in {0, 0} \/ f \in m.free
    BY <1>4, MapsPage, Zenon
  <1>6. Added(m, n, top, p, w, f)
    BY <1>1, <1>5, Zenon DEF Added
  <1>7. MapOK(n, top)
    BY <1>6, AddedOK, Zenon
  <1> QED BY <1>5, <1>6, <1>7, Zenon DEF AddsTo

\* With all memory free, a top table is allocated and cleared.
Fresh(m, n, top) ==
    /\ m \in Memories
    /\ m.free = OS_PT_REG \cup USER_REG
    /\ m.mem[0] = initialize_page
    /\ FramesLeft(m)
    /\ top = os_pfn_alloc(m, OS_PT_REG)
    /\ n = [mem |-> [m.mem EXCEPT ![top] = initialize_page], free |-> m.free \ {top}]

\* It is a tree without a page.
LEMMA FreshOK ==
    ASSUME NEW m, NEW n, NEW top, Fresh(m, n, top)
    PROVE  /\ MapOK(n, top)
           /\ \A p \in Pages : Leaf(n.mem, top, Addr(p)).pfn = 0
  <1>1. /\ m \in Memories /\ m.free = OS_PT_REG \cup USER_REG
        /\ m.mem[0] = initialize_page
        /\ FramesLeft(m)
        /\ top = os_pfn_alloc(m, OS_PT_REG)
        /\ n = [mem |-> [m.mem EXCEPT ![top] = initialize_page], free |-> m.free \ {top}]
    BY Zenon DEF Fresh
  <1>2. m.free \cap OS_PT_REG # {}
    BY <1>1, Zenon DEF FramesLeft
  <1>3. top \in OS_PT_REG /\ top # 0 /\ 0 \in OS_PT_REG \cup {0}
    BY <1>1, <1>2, Allocated, LayoutAssumption, Zenon
  <1>4. n.mem = [m.mem EXCEPT ![top] = initialize_page] /\ n.free = m.free \ {top}
    BY <1>1, Zenon
  <1>5. m.mem \in [OS_PT_REG \cup {0} -> [Idx -> PTE]]
    BY <1>1, Zenon DEF Memories
  <1>6. n.mem[top] = initialize_page /\ n.mem[0] = initialize_page
    BY <1>1, <1>3, <1>4, <1>5, Zenon
  <1>7. n \in Memories
    <2>1. n.mem \in [OS_PT_REG \cup {0} -> [Idx -> PTE]]
      BY <1>3, <1>4, <1>5, EntryFields
    <2> QED BY <1>1, <1>4, <2>1, Zenon DEF Memories
  <1>8. OS_PT_REG \ n.free = {top} /\ USER_REG \ n.free = {} /\ n.free \cap USER_REG = USER_REG
    BY <1>1, <1>3, <1>4, LayoutAssumption
  <1>9. \A i \in Idx : n.mem[top][i].pfn = 0 /\ n.mem[0][i].pfn = 0
    BY <1>6, EntryFields, Zenon
  <1>10. HasTree(n, top, {})
    <2> DEFINE lev == [t \in {top} |-> 4]
    <2>1. Own(n, {}) = {top} /\ Data(n, {}) = {}
      BY <1>8, OwnAll, Zenon
    <2>2. lev \in [{top} -> 1 .. 4] /\ lev[top] = 4
      OBVIOUS
    <2> HIDE DEF lev
    <2>3. lev \in [Own(n, {}) -> 1 .. 4] /\ top \in Own(n, {}) /\ lev[top] = 4
      BY <2>1, <2>2, Zenon
    <2>4. \A t \in Own(n, {}), i \in Idx : n.mem[t][i].pfn = 0
      BY <1>9, <2>1, Zenon
    <2>5. (Own(n, {}) \ {top}) \cup Data(n, {}) = {}
      BY <2>1, Zenon
    <2>6. /\ Leads(n.mem, Own(n, {}), Data(n, {}), lev)
              /\ Apart(n.mem, Own(n, {}))
      BY <2>4, Zenon DEF Leads, Apart
    <2>7. Reached(n.mem, Own(n, {}), Data(n, {}), top)
      BY <2>5, Zenon DEF Reached
    <2> QED BY <1>6, <2>3, <2>6, <2>7, Zenon DEF Tree, HasTree
  <1>11. ASSUME NEW p \in Pages PROVE Leaf(n.mem, top, Addr(p)).pfn = 0
    <2>1. \A i \in 1 .. 4 : i = 1 \/ i = 2 \/ i = 3 \/ i = 4
      OBVIOUS
    <2>2. Addr(p)[1] \in Idx /\ Addr(p)[2] \in Idx /\ Addr(p)[3] \in Idx /\ Addr(p)[4] \in Idx
      BY AddrInjective, AddressParts, Zenon
    <2>3. L3(n.mem, top, Addr(p)) = 0
      BY <1>9, <2>2, Zenon DEF L3
    <2>4. L2(n.mem, top, Addr(p)) = 0
      BY <1>9, <2>2, <2>3, Zenon DEF L2
    <2>5. L1(n.mem, top, Addr(p)) = 0
      BY <1>9, <2>2, <2>4, Zenon DEF L1
    <2>6. Leaf(n.mem, top, Addr(p)) = n.mem[L1(n.mem, top, Addr(p))][Addr(p)[4]]
      BY WalkIs
    <2> QED BY <1>9, <2>2, <2>5, <2>6, Zenon
  <1>12. \A u \in OS_PT_REG \ n.free, j \in Idx : n.mem[u][j].pfn \notin OS_PT_REG
    BY <1>8, <1>9, LayoutAssumption, Zenon
  <1>13. MapOK(n, top)
    BY <1>7, <1>8, <1>10, <1>11, <1>12, Zenon DEF MapOK
  <1> QED BY <1>11, <1>13, Zenon

\* A process is loaded into free memory, page by page.
Loads(m, m0, m1, m2, n, top) ==
    /\ Fresh(m, m0, top)
    /\ FramesLeft(m0) /\ FramesLeft(m1) /\ FramesLeft(m2)
    /\ m1 = LoadPage(m0, top, <<"CODE", 0>>)
    /\ m2 = LoadPage(m1, top, <<"DATA", 0>>)
    /\ n = LoadPage(m2, top, <<"STACK", PAGES["STACK"] - 1>>)

HasLoaded(n, top, pages) ==
    /\ MapOK(n, top) /\ n.mem[top][0].pfn # 0
    /\ \A p \in Pages : Leaf(n.mem, top, Addr(p)).pfn # 0 <=> p \in pages
    /\ pages \subseteq Pages

\* The memory is in order, and exactly the three first pages are mapped.
LEMMA LoadOK ==
    ASSUME NEW m, NEW m0, NEW m1, NEW m2, NEW n, NEW top, Loads(m, m0, m1, m2, n, top)
    PROVE  HasLoaded(n, top, {<<"CODE", 0>>, <<"DATA", 0>>, <<"STACK", PAGES["STACK"] - 1>>})
  <1> USE DEF Loads
  <1> DEFINE code == <<"CODE", 0>>
             data == <<"DATA", 0>>
             stack == <<"STACK", PAGES["STACK"] - 1>>
  <1>1. code \in Pages /\ data \in Pages /\ stack \in Pages
    BY LayoutAssumption DEF Pages, Segments
  <1>2. MapOK(m0, top) /\ \A p \in Pages : Leaf(m0.mem, top, Addr(p)).pfn = 0
    BY FreshOK, Zenon
  <1> HIDE DEF code, data, stack
  <1>5. CanAdd(m0, m1, top, code, TRUE)
    BY <1>1, <1>2, Zenon DEF CanAdd, LoadPage, code
  <1>6. PICK f1 : AddsTo(m0, m1, top, code, TRUE, f1)
    BY <1>5, Adds, Zenon
  <1>7. CanAdd(m1, m2, top, data, TRUE)
    BY <1>1, <1>6, Zenon DEF AddsTo, CanAdd, LoadPage, data
  <1>8. PICK f2 : AddsTo(m1, m2, top, data, TRUE, f2)
    BY <1>7, Adds, Zenon
  <1>9. CanAdd(m2, n, top, stack, TRUE)
    BY <1>1, <1>8, Zenon DEF AddsTo, CanAdd, LoadPage, stack
  <1>10. PICK f3 : AddsTo(m2, n, top, stack, TRUE, f3)
    BY <1>9, Adds, Zenon
  <1>11. /\ Added(m0, m1, top, code, TRUE, f1) /\ Added(m1, m2, top, data, TRUE, f2)
         /\ Added(m2, n, top, stack, TRUE, f3) /\ MapOK(n, top)
    BY <1>6, <1>8, <1>10, Zenon DEF AddsTo
  <1>12. OneMore(m0, m1, top, code)
    BY <1>11, AddedMapped, Zenon
  <1>13. OneMore(m1, m2, top, data)
    BY <1>11, AddedMapped, Zenon
  <1>14. OneMore(m2, n, top, stack)
    BY <1>11, AddedMapped, Zenon
  <1>15. \A p \in Pages : Leaf(n.mem, top, Addr(p)).pfn # 0 <=> p \in {code, data, stack}
    BY <1>2, <1>12, <1>13, <1>14, Zenon DEF OneMore
  <1> QED BY <1>1, <1>11, <1>14, <1>15, Zenon DEF HasLoaded, OneMore, code, data, stack

-----------------------------------------------------------------------------

\* The frames of the pages in cut, all of them mapped, are given back and their
\* entries cleared.
Trimmed(m, n, top, cut) ==
    /\ MapOK(m, top) /\ cut \subseteq Pages
    /\ \A p \in cut : Leaf(m.mem, top, Addr(p)).pfn # 0
    /\ n.free = m.free \cup {Leaf(m.mem, top, Addr(p)).pfn : p \in cut}
    /\ n.mem = [t \in DOMAIN m.mem |-> [i \in DOMAIN m.mem[t] |->
                  IF <<t, i>> \in {<<Tables(m.mem, top, Addr(p))[4], Addr(p)[4]>> : p \in cut}
                  THEN Absent ELSE m.mem[t][i]]]
    /\ n = [mem |-> n.mem, free |-> n.free]

\* The cleared entries are those of the pages in cut.
Slot(m, top, cut, u, j) ==
    \E p \in cut : u = L1(m.mem, top, Addr(p)) /\ j = Addr(p)[4]

\* They are all that changes, and their pages are now free.
Cleared(m, n, top, cut) ==
    /\ n \in Memories
    /\ \A u \in OS_PT_REG \cup {0}, j \in Idx :
          n.mem[u][j] = IF Slot(m, top, cut, u, j) THEN Absent ELSE m.mem[u][j]
    /\ \A u, j : Slot(m, top, cut, u, j) =>
          /\ u \in OS_PT_REG \ m.free /\ m.mem[u][j].pfn \in n.free
          /\ m.mem[u][j].pfn \in USER_REG \ m.free
    /\ OS_PT_REG \ n.free = OS_PT_REG \ m.free
    /\ m.free \subseteq n.free

\* Giving back pages clears their entries and no others.
LEMMA TrimmedEntries ==
    ASSUME NEW m, NEW n, NEW top, NEW cut, Trimmed(m, n, top, cut)
    PROVE  Cleared(m, n, top, cut)
  <1> DEFINE slots == {<<Tables(m.mem, top, Addr(p))[4], Addr(p)[4]>> : p \in cut}
             freed == {Leaf(m.mem, top, Addr(p)).pfn : p \in cut}
  <1>1. /\ MapOK(m, top) /\ cut \subseteq Pages
        /\ \A p \in cut : Leaf(m.mem, top, Addr(p)).pfn # 0
        /\ n.free = m.free \cup freed
        /\ n.mem = [t \in DOMAIN m.mem |-> [i \in DOMAIN m.mem[t] |->
                       IF <<t, i>> \in slots THEN Absent ELSE m.mem[t][i]]]
        /\ n = [mem |-> n.mem, free |-> n.free]
    BY Zenon DEF Trimmed
  <1>2. m \in Memories
    BY <1>1, Zenon DEF MapOK
  <1>3. DOMAIN m.mem = OS_PT_REG \cup {0} /\ \A t \in OS_PT_REG \cup {0} : DOMAIN m.mem[t] = Idx
    <2>1. m.mem \in [OS_PT_REG \cup {0} -> [Idx -> PTE]]
      BY <1>2, Zenon DEF Memories
    <2> QED BY <2>1, Zenon
  <1>4. \A u, j : <<u, j>> \in slots <=> Slot(m, top, cut, u, j)
    <2>1. \A p : Tables(m.mem, top, Addr(p))[4] = L1(m.mem, top, Addr(p))
      BY WalkIs
    <2>2. \A u, j : <<u, j>> \in slots <=>
             \E p \in cut : <<u, j>> = <<L1(m.mem, top, Addr(p)), Addr(p)[4]>>
      BY <2>1, ZenonT(30)
    <2> HIDE DEF slots
    <2> QED BY <2>2, Zenon DEF Slot
  <1>5. \A p \in cut : /\ Leaf(m.mem, top, Addr(p)).pfn \in USER_REG \ m.free
                       /\ L1(m.mem, top, Addr(p)) \in OS_PT_REG \ m.free
                       /\ Leaf(m.mem, top, Addr(p)) = m.mem[L1(m.mem, top, Addr(p))][Addr(p)[4]]
    <2> TAKE p \in cut
    <2>1. p \in Pages /\ Leaf(m.mem, top, Addr(p)).pfn # 0
      BY <1>1, Zenon
    <2>2. Leaf(m.mem, top, Addr(p)) = m.mem[L1(m.mem, top, Addr(p))][Addr(p)[4]]
      BY WalkIs
    <2> QED BY <1>1, <2>1, <2>2, PageWalk, Zenon
  <1>6. freed \subseteq USER_REG /\ freed \subseteq n.free
    BY <1>1, <1>5, ZenonT(120)
  <1>7. \A u, j : Slot(m, top, cut, u, j) =>
           /\ u \in OS_PT_REG \ m.free /\ m.mem[u][j].pfn \in freed
           /\ m.mem[u][j].pfn \in USER_REG \ m.free
    BY <1>5, Zenon DEF Slot
  <1> HIDE DEF slots
  <1>8. \A u \in OS_PT_REG \cup {0} : n.mem[u] = [i \in Idx |->
              IF <<u, i>> \in slots THEN Absent ELSE m.mem[u][i]]
    BY <1>1, <1>3, Zenon
  <1>9. \A u \in OS_PT_REG \cup {0}, j \in Idx :
           n.mem[u][j] = IF <<u, j>> \in slots THEN Absent ELSE m.mem[u][j]
    BY <1>8, ZenonT(30)
  <1>10. n \in Memories
    <2>1. \A u \in OS_PT_REG \cup {0}, j \in Idx : n.mem[u][j] \in PTE
      <3> TAKE u \in OS_PT_REG \cup {0}, j \in Idx
      <3>1. m.mem[u][j] \in PTE /\ Absent \in PTE
        BY <1>2, EntryType, EntryFields, Zenon
      <3> QED BY <1>9, <3>1, Zenon
    <2>2. n.mem \in [OS_PT_REG \cup {0} -> [Idx -> PTE]]
      <3>1. \A u \in OS_PT_REG \cup {0} : n.mem[u] \in [Idx -> PTE]
        BY <1>8, <2>1, Zenon
      <3>2. n.mem = [t \in OS_PT_REG \cup {0} |-> n.mem[t]]
        BY <1>1, <1>3, Zenon
      <3> QED BY <3>1, <3>2, Zenon
    <2>3. m.free \subseteq OS_PT_REG \cup USER_REG
      BY <1>2, Zenon DEF Memories
    <2> HIDE DEF freed
    <2>4. n.free \in SUBSET (OS_PT_REG \cup USER_REG)
      BY <1>1, <1>6, <2>3, Zenon
    <2> QED BY <1>1, <2>2, <2>4, Zenon DEF Memories
  <1> HIDE DEF freed
  <1>11. OS_PT_REG \ n.free = OS_PT_REG \ m.free /\ m.free \subseteq n.free
    BY <1>1, <1>6, LayoutAssumption, Zenon
  <1>12. \A u, j : Slot(m, top, cut, u, j) =>
           /\ u \in OS_PT_REG \ m.free /\ m.mem[u][j].pfn \in n.free
           /\ m.mem[u][j].pfn \in USER_REG \ m.free
    BY <1>6, <1>7, Zenon
  <1> QED BY <1>4, <1>9, <1>10, <1>11, <1>12, Zenon DEF Cleared

Unlinked(m, n, top, cut) ==
    /\ \A b \in Addresses : /\ L3(n.mem, top, b) = L3(m.mem, top, b)
                            /\ L2(n.mem, top, b) = L2(m.mem, top, b)
                            /\ L1(n.mem, top, b) = L1(m.mem, top, b)
    /\ \A p \in Pages : Leaf(n.mem, top, Addr(p)) =
                           IF p \in cut THEN Absent ELSE Leaf(m.mem, top, Addr(p))

\* Directories stay, so every walk reaches the same tables; exactly the pages in cut
\* lose their frames.
LEMMA TrimmedWalk ==
    ASSUME NEW m, NEW n, NEW top, NEW cut, Trimmed(m, n, top, cut)
    PROVE  Unlinked(m, n, top, cut)
  <1>1. /\ MapOK(m, top) /\ cut \subseteq Pages
        /\ \A p \in cut : Leaf(m.mem, top, Addr(p)).pfn # 0
    BY Zenon DEF Trimmed
  <1>2. PICK lev : Tree(m, top, {}, lev)
    BY <1>1, Zenon DEF MapOK, HasTree
  <1>3. m \in Memories
    BY <1>1, ZenonT(30) DEF MapOK
  <1>4. \A p \in cut : /\ p \in Pages /\ Addr(p) \in Addresses
                       /\ L1(m.mem, top, Addr(p)) # 0 /\ lev[L1(m.mem, top, Addr(p))] = 1
    <2> TAKE p \in cut
    <2>1. p \in Pages /\ Leaf(m.mem, top, Addr(p)).pfn # 0
      BY <1>1, Zenon
    <2>2. L1(m.mem, top, Addr(p)) # 0 /\ Addr(p) \in Addresses
      BY <1>1, <2>1, PageWalk, AddrInjective, Zenon
    <2> QED BY <1>2, <1>3, <2>1, <2>2, WalkLevels, Zenon DEF OnLevels
  <1>5. \A u \in OS_PT_REG \cup {0}, j \in Idx :
           n.mem[u][j] = IF Slot(m, top, cut, u, j) THEN Absent ELSE m.mem[u][j]
    <2>1. Cleared(m, n, top, cut)
      BY TrimmedEntries
    <2> QED BY <2>1, Zenon DEF Cleared
  <1>6. \A u \in OS_PT_REG \cup {0}, j \in Idx :
           u = 0 \/ lev[u] # 1 => n.mem[u][j] = m.mem[u][j]
    BY <1>4, <1>5 DEF Slot
  <1>7. ASSUME NEW b \in Addresses
        PROVE  /\ L3(n.mem, top, b) = L3(m.mem, top, b)
               /\ L2(n.mem, top, b) = L2(m.mem, top, b)
               /\ L1(n.mem, top, b) = L1(m.mem, top, b)
    <2>1. b[1] \in Idx /\ b[2] \in Idx /\ b[3] \in Idx
      BY AddressParts, Zenon
    <2>8. OnLevels(m, top, {}, lev, b) /\ Own(m, {}) \subseteq OS_PT_REG /\ 3 # 1 /\ 2 # 1
      BY <1>2, <1>3, WalkLevels DEF Own
    <2>2. top \in OS_PT_REG \cup {0} /\ lev[top] # 1
      <3>1. top \in Own(m, {}) /\ lev[top] = 4
        BY <1>2, ZenonT(30) DEF Tree
      <3> QED BY <3>1, OwnAll
    <2>3. L3(m.mem, top, b) \in OS_PT_REG \cup {0}
          /\ (L3(m.mem, top, b) = 0 \/ lev[L3(m.mem, top, b)] # 1)
      BY <2>8, Zenon DEF OnLevels
    <2>4. L2(m.mem, top, b) \in OS_PT_REG \cup {0}
          /\ (L2(m.mem, top, b) = 0 \/ lev[L2(m.mem, top, b)] # 1)
      BY <2>8, Zenon DEF OnLevels
    <2>5. L3(n.mem, top, b) = L3(m.mem, top, b)
      BY <1>6, <2>1, <2>2, Zenon DEF L3
    <2>6. L2(n.mem, top, b) = L2(m.mem, top, b)
      BY <1>6, <2>1, <2>3, <2>5, ZenonT(30) DEF L2
    <2>7. L1(n.mem, top, b) = L1(m.mem, top, b)
      BY <1>6, <2>1, <2>4, <2>6, ZenonT(120) DEF L1
    <2> QED BY <2>5, <2>6, <2>7, Zenon
  <1>8. ASSUME NEW p \in Pages
        PROVE  Leaf(n.mem, top, Addr(p)) = IF p \in cut THEN Absent ELSE Leaf(m.mem, top, Addr(p))
    <2>1. Addr(p) \in Addresses /\ Addr(p)[4] \in Idx
      BY AddrInjective, AddressParts, Zenon
    <2>2. /\ Leaf(n.mem, top, Addr(p)) = n.mem[L1(n.mem, top, Addr(p))][Addr(p)[4]]
          /\ Leaf(m.mem, top, Addr(p)) = m.mem[L1(m.mem, top, Addr(p))][Addr(p)[4]]
      BY WalkIs
    <2>3. L1(n.mem, top, Addr(p)) = L1(m.mem, top, Addr(p))
      BY <1>7, <2>1, ZenonT(30)
    <2>4. L1(m.mem, top, Addr(p)) \in OS_PT_REG \cup {0}
      BY <1>1, PageWalk, Zenon
    <2>5. Leaf(n.mem, top, Addr(p)) =
             IF Slot(m, top, cut, L1(m.mem, top, Addr(p)), Addr(p)[4])
             THEN Absent ELSE Leaf(m.mem, top, Addr(p))
      BY <1>5, <2>1, <2>2, <2>3, <2>4, Zenon
    <2>6. ASSUME NEW q \in cut, L1(m.mem, top, Addr(p)) = L1(m.mem, top, Addr(q)),
                 Addr(p)[4] = Addr(q)[4]
          PROVE  p = q
      <3>1. q \in Pages /\ Addr(q) \in Addresses /\ L1(m.mem, top, Addr(p)) # 0
        BY <1>4, <2>6, ZenonT(30)
      <3>2. Addr(p)[1] = Addr(q)[1] /\ Addr(p)[2] = Addr(q)[2] /\ Addr(p)[3] = Addr(q)[3]
        BY <1>2, <1>3, <2>1, <2>6, <3>1, SlotUnique
      <3> QED BY <2>1, <2>6, <3>1, <3>2, AddressParts, AddrInjective, Zenon
    <2>7. Slot(m, top, cut, L1(m.mem, top, Addr(p)), Addr(p)[4]) <=> p \in cut
      BY <2>6, Zenon DEF Slot
    <2> QED BY <2>5, <2>7, Zenon
  <1> QED BY <1>7, <1>8, Zenon DEF Unlinked

\* The tree loses the pages in cut.
LEMMA TrimmedTree ==
    ASSUME NEW m, NEW n, NEW top, NEW cut, Trimmed(m, n, top, cut)
    PROVE  HasTree(n, top, {})
  <1> DEFINE own == OS_PT_REG \ m.free
             data == USER_REG \ m.free
  <1>1. MapOK(m, top)
    BY Zenon DEF Trimmed
  <1>2. PICK lev : Tree(m, top, {}, lev)
    BY <1>1, ZenonT(30) DEF MapOK, HasTree
  <1>3. /\ \A u \in OS_PT_REG \cup {0}, j \in Idx :
              n.mem[u][j] = IF Slot(m, top, cut, u, j) THEN Absent ELSE m.mem[u][j]
        /\ \A u, j : Slot(m, top, cut, u, j) =>
              /\ u \in OS_PT_REG \ m.free /\ m.mem[u][j].pfn \in n.free
              /\ m.mem[u][j].pfn \in USER_REG \ m.free
        /\ OS_PT_REG \ n.free = OS_PT_REG \ m.free
        /\ m.free \subseteq n.free
    <2>1. Cleared(m, n, top, cut)
      BY TrimmedEntries
    <2> QED BY <2>1, Zenon DEF Cleared
  <1>4. n \in Memories
    <2>1. Cleared(m, n, top, cut)
      BY TrimmedEntries
    <2> QED BY <2>1, Zenon DEF Cleared
  <1>5. /\ lev \in [own -> 1 .. 4] /\ top \in own /\ lev[top] = 4
        /\ Leads(m.mem, own, data, lev)
        /\ Apart(m.mem, own)
        /\ Reached(m.mem, own, data, top)
        /\ m.mem[0] = initialize_page
    <2>1. Own(m, {}) = own /\ Data(m, {}) = data
      BY OwnAll, Zenon
    <2> HIDE DEF own, data
    <2> QED BY <1>2, <2>1, Zenon DEF Tree
  <1>6. Own(n, {}) = own /\ Data(n, {}) = USER_REG \ n.free
    BY <1>3, OwnAll, Zenon
  <1>7. /\ \A u \in own, j \in Idx : n.mem[u][j].pfn # 0 =>
              n.mem[u][j] = m.mem[u][j] /\ ~Slot(m, top, cut, u, j)
        /\ \A u \in own, j \in Idx : ~Slot(m, top, cut, u, j) => n.mem[u][j] = m.mem[u][j]
    <2>1. Absent.pfn = 0
      BY EntryFields, Zenon
    <2>2. own \subseteq OS_PT_REG
      BY Zenon
    <2> HIDE DEF own
    <2>3. \A u \in own, j \in Idx :
             n.mem[u][j] = IF Slot(m, top, cut, u, j) THEN Absent ELSE m.mem[u][j]
      BY <1>3, <2>2, Zenon
    <2> QED BY <2>1, <2>3, Zenon
  <1>8. \A f \in own \cup (USER_REG \ n.free) : \A u \in own, j \in Idx :
           m.mem[u][j].pfn = f => n.mem[u][j].pfn = f
    <2>1. \A f \in own \cup (USER_REG \ n.free) : f \notin n.free
      BY <1>3, Zenon
    <2> HIDE DEF own
    <2>2. \A u, j : Slot(m, top, cut, u, j) => m.mem[u][j].pfn \in n.free
      BY <1>3, Zenon
    <2> QED BY <1>7, <2>1, <2>2, Zenon
  <1>9. ASSUME NEW t \in own, NEW i \in Idx, n.mem[t][i].pfn # 0
        PROVE  IF lev[t] = 1 THEN n.mem[t][i].pfn \in USER_REG \ n.free
               ELSE n.mem[t][i].pfn \in own /\ lev[n.mem[t][i].pfn] = lev[t] - 1
    <2>1. n.mem[t][i] = m.mem[t][i] /\ ~Slot(m, top, cut, t, i)
      BY <1>7, <1>9, ZenonT(30)
    <2>2. CASE lev[t] # 1
      <3>1. m.mem[t][i].pfn # 0
        BY <1>9, <2>1, Zenon
      <3>2. m.mem[t][i].pfn \in own /\ lev[m.mem[t][i].pfn] = lev[t] - 1
        BY <1>5, <2>2, <3>1, Zenon DEF Leads
      <3> QED BY <2>1, <2>2, <3>2, Zenon
    <2>3. CASE lev[t] = 1
      <3>1. m.mem[t][i].pfn \in data
        BY <1>5, <1>9, <2>1, <2>3, Zenon DEF Leads
      <3>2. m.mem[t][i].pfn \notin n.free
        <4> SUFFICES ASSUME m.mem[t][i].pfn \in n.free PROVE FALSE
          BY Zenon
        <4>1. PICK p \in cut : m.mem[t][i].pfn = Leaf(m.mem, top, Addr(p)).pfn
          <5>1. m.mem[t][i].pfn \in m.free \cup {Leaf(m.mem, top, Addr(p)).pfn : p \in cut}
            BY Zenon DEF Trimmed
          <5> QED BY <3>1, <5>1, Zenon
        <4>2. Leaf(m.mem, top, Addr(p)) = m.mem[L1(m.mem, top, Addr(p))][Addr(p)[4]]
          BY WalkIs
        <4>3. L1(m.mem, top, Addr(p)) \in own /\ Addr(p)[4] \in Idx
          <5>1. p \in Pages /\ Leaf(m.mem, top, Addr(p)).pfn # 0
            BY ZenonT(30) DEF Trimmed
          <5>2. L1(m.mem, top, Addr(p)) \in own
            BY <1>1, <5>1, PageWalk, Zenon
          <5> QED BY <5>1, <5>2, AddrInjective, AddressParts, Zenon
        <4>4. t = L1(m.mem, top, Addr(p)) /\ i = Addr(p)[4]
          <5> DEFINE x == L1(m.mem, top, Addr(p))
                     k == Addr(p)[4]
          <5>1. x \in own /\ k \in Idx /\ m.mem[t][i].pfn = m.mem[x][k].pfn
            BY <4>1, <4>2, <4>3, Zenon
          <5>2. m.mem[t][i].pfn # 0
            BY <1>9, <2>1, ZenonT(30)
          <5> HIDE DEF x, k, own, data
          <5>3. t = x /\ i = k
            BY <1>5, <5>1, <5>2, OneEntry
          <5> QED BY <5>3, Zenon DEF x, k
        <4> QED BY <2>1, <4>4, Zenon DEF Slot
      <3> QED BY <2>1, <2>3, <3>1, <3>2, Zenon
    <2> QED BY <2>2, <2>3, Zenon
  <1>10. n.mem[0] = initialize_page
    <2>1. \A j \in Idx : n.mem[0][j] = m.mem[0][j]
      <3>1. 0 \notin OS_PT_REG
        BY LayoutAssumption, Zenon
      <3> QED BY <1>3, <3>1
    <2>2. n.mem[0] \in [Idx -> PTE]
      BY <1>4, Zenon DEF Memories
    <2>3. initialize_page \in [Idx -> PTE]
      BY EntryFields, ZenonT(30)
    <2>4. m.mem[0] = initialize_page
      BY <1>5, Zenon
    <2> QED BY <2>1, <2>2, <2>3, <2>4
  <1>11. Apart(n.mem, own)
    <2> SUFFICES ASSUME NEW t \in own, NEW u \in own, NEW i \in Idx, NEW j \in Idx,
                        n.mem[t][i].pfn # 0, n.mem[t][i].pfn = n.mem[u][j].pfn
                 PROVE  t = u /\ i = j
      BY DEF Apart
    <2>1. n.mem[t][i] = m.mem[t][i] /\ n.mem[u][j] = m.mem[u][j]
      BY <1>7, Zenon
    <2>2. m.mem[t][i].pfn # 0 /\ m.mem[t][i].pfn = m.mem[u][j].pfn
      BY <2>1, Zenon
    <2> QED BY <1>5, <2>2, OneEntry
  <1>12. Reached(n.mem, own, USER_REG \ n.free, top)
    <2> SUFFICES ASSUME NEW f \in (own \ {top}) \cup (USER_REG \ n.free)
                 PROVE  \E t \in own, i \in Idx : n.mem[t][i].pfn = f
      BY Zenon DEF Reached
    <2>1. f \in (own \ {top}) \cup data /\ f \in own \cup (USER_REG \ n.free)
      BY <1>3, Zenon
    <2> HIDE DEF own, data
    <2>2. PICK t \in own, i \in Idx : m.mem[t][i].pfn = f
      BY <1>5, <2>1, Zenon DEF Reached
    <2> QED BY <1>8, <2>1, <2>2, Zenon
  <1> HIDE DEF own, data
  <1>13. Tree(n, top, {}, lev)
    <2>1. Leads(n.mem, own, USER_REG \ n.free, lev)
      BY <1>9, Zenon DEF Leads
    <2> QED BY <1>5, <1>6, <1>10, <1>11, <1>12, <2>1, Zenon DEF Tree
  <1> QED BY <1>13, Zenon DEF HasTree

\* Giving back pages keeps the tables in order.
LEMMA TrimmedOK ==
    ASSUME NEW m, NEW n, NEW top, NEW cut, Trimmed(m, n, top, cut)
    PROVE  MapOK(n, top)
  <1>1. MapOK(m, top)
    BY Zenon DEF Trimmed
  <1>2. Unlinked(m, n, top, cut)
    BY TrimmedWalk, Zenon
  <1>3. /\ \A u \in OS_PT_REG \cup {0}, j \in Idx :
              n.mem[u][j] = IF Slot(m, top, cut, u, j) THEN Absent ELSE m.mem[u][j]
        /\ OS_PT_REG \ n.free = OS_PT_REG \ m.free
        /\ m.free \subseteq n.free
        /\ n \in Memories
    <2>1. Cleared(m, n, top, cut)
      BY TrimmedEntries
    <2> QED BY <2>1, Zenon DEF Cleared
  <1>4. \A f \in USER_REG \ n.free : \E p \in Pages : Leaf(n.mem, top, Addr(p)).pfn = f
    <2> TAKE f \in USER_REG \ n.free
    <2>1. PICK p \in Pages : Leaf(m.mem, top, Addr(p)).pfn = f
      BY <1>1, <1>3, Zenon DEF MapOK
    <2>2. p \notin cut
      <3>1. n.free = m.free \cup {Leaf(m.mem, top, Addr(q)).pfn : q \in cut}
        BY Zenon DEF Trimmed
      <3> QED BY <2>1, <3>1, Zenon
    <2> QED BY <1>2, <2>1, <2>2, Zenon DEF Unlinked
  <1>5. \A p \in Pages : Leaf(n.mem, top, Addr(p)).pfn # 0 =>
                            Leaf(n.mem, top, Addr(p)).w = CanWrite(p[1])
    BY <1>1, <1>2, EntryFields, Zenon DEF MapOK, Unlinked
  <1>6. ASSUME NEW u \in OS_PT_REG \ n.free, NEW j \in Idx,
               n.mem[u][j].pfn \in OS_PT_REG, ~n.mem[u][j].w
        PROVE  RodataDir(n.mem, top, u, j)
    <2>1. n.mem[u][j].pfn # 0
      BY <1>6, LayoutAssumption, Zenon
    <2>2. n.mem[u][j] = m.mem[u][j]
      BY <1>3, <2>1, EntryFields, Zenon
    <2>3. RodataDir(m.mem, top, u, j)
      BY <1>1, <1>3, <1>6, <2>2, Zenon DEF MapOK
    <2>4. PICK q \in Pages : /\ q[1] = "RODATA"
                             /\ \/ u = L3(m.mem, top, Addr(q)) /\ j = Addr(q)[2]
                                \/ u = L2(m.mem, top, Addr(q)) /\ j = Addr(q)[3]
      BY <2>3, Zenon DEF RodataDir
    <2>5. /\ L3(n.mem, top, Addr(q)) = L3(m.mem, top, Addr(q))
          /\ L2(n.mem, top, Addr(q)) = L2(m.mem, top, Addr(q))
      BY <1>2, AddrInjective, Zenon DEF Unlinked
    <2> QED BY <2>4, <2>5, Zenon DEF RodataDir
  <1>7. HasTree(n, top, {})
    BY TrimmedTree, Zenon
  <1> QED BY <1>3, <1>4, <1>5, <1>6, <1>7, ZenonT(30) DEF MapOK

=============================================================================
