----------------------------- MODULE PageTable ------------------------------
(***************************************************************************)
(* The four-level page tables of gemOS: the walk, and the helpers that     *)
(* fill in missing tables and pages.  They are the same text in            *)
(* assignment1/context_mm.c and assignment2/entry.c.  A virtual page is    *)
(* the sequence of its four table indices, an entry is a frame number and  *)
(* the write bit; frame 0 is no frame, so an entry is present when its pfn *)
(* is not 0.  A memory m has the tables m.mem and the free frames m.free.  *)
(***************************************************************************)
EXTENDS MemoryLayout, Sequences

CONSTANT ENTRIES    \* entries of a table (512)

Entry(pfn, w) == [pfn |-> pfn, w |-> w]
Absent == Entry(0, FALSE)

initialize_page == [i \in 0 .. ENTRIES - 1 |-> Absent]

\* Which free frame of the region os_pfn_alloc returns does not matter.
os_pfn_alloc(m, region) == CHOOSE f \in m.free \cap region : TRUE

\* Bound: frames do not run out; to map a page takes three tables and a page at
\* most.  memory.o, which has no source, says what happens when they do.
FramesLeft(m) ==
    /\ m.free \cap USER_REG # {}
    /\ m.free \cap OS_PT_REG # {}
    /\ ~ \E f, g \in m.free : m.free \cap OS_PT_REG = {f, g}

\* The four tables that the walk to page a visits.  Past an absent entry they
\* are table 0, which is empty.
Tables(mem, pgd, a) ==
    LET l3 == mem[pgd][a[1]].pfn
        l2 == mem[l3][a[2]].pfn
        l1 == mem[l2][a[3]].pfn
    IN  <<pgd, l3, l2, l1>>

Leaf(mem, pgd, a) == mem[Tables(mem, pgd, a)[4]][a[4]]

is_valid_virtual_addr(mem, pgd, a) == Leaf(mem, pgd, a).pfn # 0

\* The processor allows a write if all four entries have the write bit.
Writable(mem, pgd, a) ==
    LET t == Tables(mem, pgd, a)
    IN  \A d \in 1 .. 4 : mem[t[d]][a[d]].w

\* Mutant: the new table is not cleared.
assign_table_uncleared(m, t, i, w) ==
    IF m.mem[t][i].pfn # 0 THEN m
    ELSE LET f == os_pfn_alloc(m, OS_PT_REG)
         IN  [mem |-> [m.mem EXCEPT ![t][i] = Entry(f, w)], free |-> m.free \ {f}]

\* Mutant: a table that is there is replaced.
assign_table_always(m, t, i, w) ==
    LET f == os_pfn_alloc(m, OS_PT_REG)
    IN  [mem |-> [m.mem EXCEPT ![t][i] = Entry(f, w), ![f] = initialize_page],
         free |-> m.free \ {f}]

\* A missing table is allocated and cleared; its entry gets the write bit of the
\* segment that is being mapped.
assign_page_table_page(m, t, i, w) ==
    IF m.mem[t][i].pfn # 0 THEN m
    ELSE LET f == os_pfn_alloc(m, OS_PT_REG)
         IN  [mem |-> [m.mem EXCEPT ![t][i] = Entry(f, w), ![f] = initialize_page],
              free |-> m.free \ {f}]

assign_page_table_pages(m, pgd, a, w) ==
    LET m3 == assign_page_table_page(m, pgd, a[1], w)
        l3 == m3.mem[pgd][a[1]].pfn
        m2 == assign_page_table_page(m3, l3, a[2], w)
        l2 == m2.mem[l3][a[2]].pfn
    IN  assign_page_table_page(m2, l2, a[3], w)

\* pfn 0 asks for a new frame; a page that is present is left alone.
assign_data_page(m, pgd, a, w, pfn) ==
    LET f == IF pfn = 0 THEN os_pfn_alloc(m, USER_REG) ELSE pfn
        l1 == Tables(m.mem, pgd, a)[4]
    IN  IF is_valid_virtual_addr(m.mem, pgd, a) THEN m
        ELSE [mem |-> [m.mem EXCEPT ![l1][a[4]] = Entry(f, w)],
              free |-> m.free \ {f}]

MapPage(m, pgd, a, w, pfn) ==
    assign_data_page(assign_page_table_pages(m, pgd, a, w), pgd, a, w, pfn)

=============================================================================
