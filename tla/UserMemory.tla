----------------------------- MODULE UserMemory -----------------------------
(***************************************************************************)
(* Assignment 2 (entry.c): the page-fault and divide-error handlers and    *)
(* the system calls of the one process, over four-level page tables, with  *)
(* the processor that walks them and caches translations.  A handler runs  *)
(* to completion; the faulting instruction is then tried again.  Loading   *)
(* and ending a process have no source here (context.o).                   *)
(***************************************************************************)
EXTENDS SegmentMap, FiniteSets

CONSTANTS
    U32_PAGES,      \* 2^20: sizes are shifted by 12 in 32 bits
    MaxSize,        \* bound on the argument of expand and shrink
    TLB_SIZE        \* translations that the processor caches

\* Sizes are below 2^20 pages.
ASSUME UserAssumption ==
    /\ U32_PAGES \in Nat /\ MaxSize \in 0 .. U32_PAGES - 1
    /\ TLB_SIZE \in Nat

VARIABLES
    mem,        \* the page tables, by frame
    free,       \* the free frames of both regions
    pgd,        \* the top table of the process, 0 if there is none
    next_free,  \* in pages from the start of the segment
    tlb,        \* cached translations: an entry per page
    access      \* the instruction that is being tried, or NoAccess

memoryVars == <<mem, free, pgd, next_free, tlb, access>>

NoAccess == [page |-> <<>>, write |-> FALSE]
EmptyTLB == [p \in Pages |-> Absent]

Present(p) == is_valid_virtual_addr(mem, pgd, Addr(p))
Memory == [mem |-> mem, free |-> free]

MemoryInit ==
    /\ mem = [f \in OS_PT_REG \cup {0} |-> initialize_page]
    /\ free = OS_PT_REG \cup USER_REG
    /\ pgd = 0
    /\ next_free = [s \in Growing |-> 0]
    /\ tlb = EmptyTLB
    /\ access = NoAccess

\* exec_init: a page of code, the first page of data and the last of the stack,
\* under tables that are all writable; loading the pgd empties the TLB.
exec_init ==
    LET top == os_pfn_alloc(Memory, OS_PT_REG)
        m0 == [mem |-> [mem EXCEPT ![top] = initialize_page], free |-> free \ {top}]
        m1 == LoadPage(m0, top, <<"CODE", 0>>)
        m2 == LoadPage(m1, top, <<"DATA", 0>>)
        m3 == LoadPage(m2, top, <<"STACK", PAGES["STACK"] - 1>>)
    IN  /\ pgd = 0
        /\ \A m \in {Memory, m0, m1, m2} : FramesLeft(m)
        /\ mem' = m3.mem
        /\ free' = m3.free
        /\ pgd' = top
        /\ next_free' = [s \in Growing |-> IF s = "DATA" THEN 1 ELSE 0]
        /\ tlb' = EmptyTLB
        /\ UNCHANGED access

Targets(ts) == {mem[t][i].pfn : t \in ts, i \in 0 .. ENTRIES - 1} \ {0}

\* The tables of the process, and all its frames.
ProcessTables == LET l3 == Targets({pgd})
                     l2 == Targets(l3)
                 IN  {pgd} \cup l3 \cup l2 \cup Targets(l2)
ProcessFrames == ProcessTables \cup Targets(ProcessTables)

\* do_exit clears the page tables and gives back every frame they lead to.
do_exit ==
    /\ mem' = [t \in DOMAIN mem |-> IF t \in ProcessTables THEN initialize_page ELSE mem[t]]
    /\ free' = free \cup ProcessFrames
    /\ pgd' = 0
    /\ next_free' = [s \in Growing |-> 0]
    /\ tlb' = EmptyTLB
    /\ access' = NoAccess

(***************************************************************************)
(* Instructions and faults.                                                *)
(***************************************************************************)
\* The process begins an instruction that reads or writes page p.
Issue(p, write) ==
    /\ pgd # 0
    /\ access = NoAccess
    /\ access' = [page |-> p, write |-> write]
    /\ UNCHANGED <<mem, free, pgd, next_free, tlb>>

Translation(p) == Entry(Leaf(mem, pgd, Addr(p)).pfn, Writable(mem, pgd, Addr(p)))

Allows(entry) == entry.pfn # 0 /\ (access.write => entry.w)

\* The processor may cache the translations of pages ps and drop others.
Cache(ps) ==
    \E keep \in SUBSET (ps \cup {p \in Pages : tlb[p] # Absent}) :
        /\ Cardinality(keep) <= TLB_SIZE
        /\ tlb' = [p \in Pages |-> IF p \notin keep THEN Absent
                                  ELSE IF p \in ps THEN Translation(p) ELSE tlb[p]]

\* The access goes through a cached translation, or the tables are walked.
Perform ==
    LET p == access.page
    IN  /\ access # NoAccess
        /\ \/ Allows(tlb[p]) /\ UNCHANGED tlb
           \/ /\ tlb[p] = Absent
              /\ Allows(Translation(p))
              /\ Cache({p})
        /\ access' = NoAccess
        /\ UNCHANGED <<mem, free, pgd, next_free>>

\* Mutant: every segment is mapped for writing.
seg_fault_writable(p) ==
    LET m == MapPage(Memory, pgd, Addr(p), TRUE, 0)
    IN  /\ mem' = m.mem
        /\ free' = m.free
        /\ UNCHANGED <<pgd, next_free, tlb, access>>

\* handle_mm_seg_data_page_fault, and the same for the other two segments.
seg_page_fault(p) ==
    LET m == MapPage(Memory, pgd, Addr(p), CanWrite(p[1]), 0)
    IN  /\ FramesLeft(Memory)
        /\ mem' = m.mem
        /\ free' = m.free
        /\ UNCHANGED <<pgd, next_free, tlb, access>>

\* Mutant: the last page of the segment is taken for the next one.
fault_beyond(p, protection) ==
    IF \/ p[1] = "DATA" /\ p[2] <= next_free["DATA"] /\ ~protection
       \/ p[1] = "RODATA" /\ p[2] < next_free["RODATA"]
       \/ p[1] = "STACK"
    THEN seg_page_fault(p)
    ELSE do_exit

\* Mutant: a fault in the read-only segment is not served.
fault_no_rodata(p, protection) ==
    IF \/ p[1] = "DATA" /\ p[2] < next_free["DATA"] /\ ~protection
       \/ p[1] = "STACK"
    THEN seg_page_fault(p)
    ELSE UNCHANGED memoryVars

\* protection is bit 0 of the error code: the page is present.  Only the data
\* segment looks at it.
handle_page_fault(p, protection) ==
    IF \/ p[1] = "DATA" /\ p[2] < next_free["DATA"] /\ ~protection
       \/ p[1] = "RODATA" /\ p[2] < next_free["RODATA"]
       \/ p[1] = "STACK"
    THEN seg_page_fault(p)
    ELSE do_exit

Fault ==
    /\ access # NoAccess
    /\ ~Allows(tlb[access.page])
    /\ ~Allows(Translation(access.page))
    /\ handle_page_fault(access.page, Present(access.page))

\* handle_div_by_zero ends the process, like SYSCALL_EXIT.
DivideOrExit ==
    /\ pgd # 0
    /\ access = NoAccess
    /\ do_exit

(***************************************************************************)
(* System calls.                                                           *)
(***************************************************************************)
\* A buffer from page p to page q, the same or the next one.  The calls that
\* fail, and getpid, change nothing.
syscall_write(p, q) ==
    /\ pgd # 0
    /\ access = NoAccess
    /\ Present(p) /\ Present(q)
    /\ Cache({p, q})
    /\ UNCHANGED <<mem, free, pgd, next_free, access>>

\* Mutant: next_free may reach the end of the segment.
expand_to_end(s, size) ==
    LET grown == next_free[s] + (size % U32_PAGES)
    IN  /\ pgd # 0
        /\ access = NoAccess
        /\ grown <= PAGES[s]
        /\ next_free' = [next_free EXCEPT ![s] = grown]
        /\ UNCHANGED <<mem, free, pgd, tlb, access>>

\* mm_segment.end is the last byte of the segment, so next_free must stay
\* below its last page.
syscall_expand(s, size) ==
    LET grown == next_free[s] + (size % U32_PAGES)
    IN  /\ pgd # 0
        /\ access = NoAccess
        /\ grown < PAGES[s]
        /\ next_free' = [next_free EXCEPT ![s] = grown]
        /\ UNCHANGED <<mem, free, pgd, tlb, access>>

\* Mutant: the translation is not flushed.
free_without_invlpg(cut) ==
    LET slot(p) == <<Tables(mem, pgd, Addr(p))[4], Addr(p)[4]>>
        slots == {slot(p) : p \in cut}
    IN  /\ free' = free \cup {Leaf(mem, pgd, Addr(p)).pfn : p \in cut}
        /\ mem' = [t \in DOMAIN mem |-> [i \in DOMAIN mem[t] |->
                      IF <<t, i>> \in slots THEN Absent ELSE mem[t][i]]]
        /\ UNCHANGED tlb

\* Mutant: the frame is given back and its entry stays.
free_keeps_entry(cut) ==
    /\ free' = free \cup {Leaf(mem, pgd, Addr(p)).pfn : p \in cut}
    /\ tlb' = [p \in Pages |-> IF p \in cut THEN Absent ELSE tlb[p]]
    /\ UNCHANGED mem

\* free_data_page of each page in cut, all of them present.
free_data_pages(cut) ==
    LET slot(p) == <<Tables(mem, pgd, Addr(p))[4], Addr(p)[4]>>
        slots == {slot(p) : p \in cut}
    IN  /\ free' = free \cup {Leaf(mem, pgd, Addr(p)).pfn : p \in cut}
        /\ mem' = [t \in DOMAIN mem |-> [i \in DOMAIN mem[t] |->
                      IF <<t, i>> \in slots THEN Absent ELSE mem[t][i]]]
        /\ tlb' = [p \in Pages |-> IF p \in cut THEN Absent ELSE tlb[p]]

\* The loop steps next_free down and frees the page there, if it is present.
pages_to_free(s, size) ==
    {p \in Pages : /\ p[1] = s
                   /\ p[2] \in next_free[s] - size .. next_free[s] - 1
                   /\ Present(p)}

syscall_shrink(s, size) ==
    /\ pgd # 0
    /\ access = NoAccess
    /\ next_free[s] - (size % U32_PAGES) >= 0
    /\ next_free' = [next_free EXCEPT ![s] = @ - size]
    /\ free_data_pages(pages_to_free(s, size))
    /\ UNCHANGED <<pgd, access>>

MemoryNext ==
    \/ exec_init
    \/ \E p \in Pages, write \in BOOLEAN : Issue(p, write)
    \/ Perform
    \/ Fault
    \/ DivideOrExit
    \/ \E p, q \in Pages :
          p[1] = q[1] /\ q[2] \in {p[2], p[2] + 1} /\ syscall_write(p, q)
    \/ \E s \in Growing, size \in 0 .. MaxSize :
          syscall_expand(s, size) \/ syscall_shrink(s, size)

\* The process and the handlers, without the fairness of the processor.
MemorySpec == MemoryInit /\ [][MemoryNext]_memoryVars

-----------------------------------------------------------------------------

\* The page tables implement the flat address space.
Frames == [p \in Pages |-> Leaf(mem, pgd, Addr(p)).pfn]
Cached == [p \in Pages |-> tlb[p].pfn]
Unused == free \cap USER_REG
Alive == pgd # 0

Space == INSTANCE AddressSpace WITH
    frame <- Frames, tlb <- Cached, unused <- Unused, alive <- Alive

\* Every change of the page tables, the free frames, the TLB and the segments is
\* a step of AddressSpace: accesses reach only what is granted and allowed.
ImplementsSpace == Space!Spec

\* No two pages share a frame and none is lost (see AddressSpace).
FramesOwned == Space!FramesOwned

\* The TLB never leads to a frame that was given back (see AddressSpace).
TLBCoherent == Space!TLBCoherent

\* A cached translation is writable exactly if its segment is, whatever write bits
\* the four entries on its walk have.
PermissionsHeld == \A p \in Pages : tlb[p] # Absent => tlb[p].w = CanWrite(p[1])

\* Nothing is mapped at or above next_free (see AddressSpace).
NothingBeyond == Space!NothingBeyond

\* A page-table frame is free or is reached by exactly one entry of the tables
\* of the process: faults neither lose a table nor link one twice.
TablesOwned ==
    LET used == OS_PT_REG \ free
        links(f) == {x \in used \X (0 .. ENTRIES - 1) : mem[x[1]][x[2]].pfn = f}
    IN  \/ pgd = 0 /\ used = {}
        \/ /\ used = ProcessTables
           /\ links(pgd) = {}
           /\ \A f \in used \ {pgd} : \E x \in links(f) : links(f) = {x}

\* An instruction ends: its page is there or comes with the fault, or the
\* process is terminated.  Writes to the read-only segment are left out.
AccessEnds ==
    (access # NoAccess /\ ~(access.write /\ access.page[1] = "RODATA"))
        ~> access = NoAccess

\* The assignment says of the read-only segment: "If the address is not legitimate
\* [...] or the access is a WRITE access, you should terminate the process".
RodataWriteTerminates ==
    (access # NoAccess /\ access.write /\ access.page[1] = "RODATA") ~> pgd = 0

=============================================================================
