----------------------------- MODULE ContextMM ------------------------------
(***************************************************************************)
(* Assignment 1 (context_mm.c): the page tables of a context are built for *)
(* the first page of its code and data and the last page of its stack, and *)
(* given back.  The caller has no source here (context.o): it may hand     *)
(* over the frame of the arguments for the data page, and it installs the  *)
(* operating system's own entry in the new tables.                         *)
(***************************************************************************)
EXTENDS PageTable, Functions

CONSTANTS
    Contexts,
    Layouts,        \* records of three pages: stack, code and data
    OS_INDEX,       \* entry of the third-level table that maps the system
    OS_PFN          \* and its frame, which belongs to no context

PagesOf(l) == {l.stack, l.code, l.data}

\* The three pages are different, and none lies where the system is mapped.
ASSUME ContextAssumption ==
    /\ OS_INDEX \in 0 .. ENTRIES - 1 /\ OS_PFN \in Nat
    /\ \A l \in Layouts :
          /\ \A a \in PagesOf(l) :
                /\ a \in (0 .. ENTRIES - 1) \X (0 .. ENTRIES - 1) \X
                         (0 .. ENTRIES - 1) \X (0 .. ENTRIES - 1)
                /\ a[2] # OS_INDEX
          /\ l.stack # l.code /\ l.code # l.data /\ l.data # l.stack

VARIABLES
    cmem,           \* the tables, by frame
    cfree,          \* the free frames of both regions
    ctx,            \* per context: pgd (0 if it has no tables), layout, arg_pfn
    given           \* history: the frames that went into its address space

contextVars == <<cmem, cfree, ctx, given>>

NoContext == [pgd |-> 0, mms |-> CHOOSE l \in Layouts : TRUE, arg_pfn |-> 0]

Live == {c \in Contexts : ctx[c].pgd # 0}

ContextInit ==
    /\ cmem = [f \in OS_PT_REG \cup {0} |-> initialize_page]
    /\ cfree = OS_PT_REG \cup USER_REG
    /\ ctx = [c \in Contexts |-> NoContext]
    /\ given = [c \in Contexts |-> {}]

\* Mutant: the code is mapped before the stack.
prepare_code_first(m, pgd, l, arg_pfn) ==
    LET code == MapPage(m, pgd, l.code, FALSE, 0)
        stack == MapPage(code, pgd, l.stack, TRUE, 0)
    IN  <<m, code, stack, MapPage(stack, pgd, l.data, TRUE, arg_pfn)>>

\* The memories between the three mappings.  Stack and data are writable, code is
\* not.
prepare_segments(m, pgd, l, arg_pfn) ==
    LET stack == MapPage(m, pgd, l.stack, TRUE, 0)
        code == MapPage(stack, pgd, l.code, FALSE, 0)
    IN  <<m, stack, code, MapPage(code, pgd, l.data, TRUE, arg_pfn)>>

prepare_context_mm(c, l, hasArg) ==
    LET start == [mem |-> cmem, free |-> cfree]
        arg_pfn == IF hasArg THEN os_pfn_alloc(start, USER_REG) ELSE 0
        pgd == os_pfn_alloc(start, OS_PT_REG)
        m0 == [mem |-> [cmem EXCEPT ![pgd] = initialize_page],
               free |-> cfree \ {pgd, arg_pfn}]
        ms == prepare_segments(m0, pgd, l, arg_pfn)
        done == ms[4]
    IN  /\ c \notin Live
        /\ \A m \in {start, ms[1], ms[2], ms[3]} : FramesLeft(m)
        /\ cmem' = done.mem
        /\ cfree' = done.free
        /\ ctx' = [ctx EXCEPT ![c] = [pgd |-> pgd, mms |-> l, arg_pfn |-> arg_pfn]]
        /\ given' = [given EXCEPT ![c] = cfree \ done.free]

\* The caller's own entry, beside those of the context.
install_os_pts(c) ==
    /\ c \in Live
    /\ LET l3 == Tables(cmem, ctx[c].pgd, ctx[c].mms.stack)[2]
       IN  cmem' = [cmem EXCEPT ![l3][OS_INDEX] = Entry(OS_PFN, TRUE)]
    /\ UNCHANGED <<cfree, ctx, given>>

exist_in_array(pfns, f) == f \in Range(pfns)

\* Mutant: a table is listed without a look at those listed before.
AddAlways(pfns, f) == Append(pfns, f)

AddOnce(pfns, f) == IF exist_in_array(pfns, f) THEN pfns ELSE Append(pfns, f)

\* The tables on the walk to page a that pfn_array does not hold yet.
add_pages_to_array(pfns, c, a) ==
    LET t == Tables(cmem, ctx[c].pgd, a)
    IN  AddOnce(AddOnce(AddOnce(pfns, t[2]), t[3]), t[4])

pfn_array(c) ==
    LET l == ctx[c].mms
        stack == add_pages_to_array(<<ctx[c].pgd>>, c, l.stack)
        code == add_pages_to_array(stack, c, l.code)
    IN  add_pages_to_array(code, c, l.data)

data_pfns(c) ==
    LET l == ctx[c].mms
        pfn(a) == Leaf(cmem, ctx[c].pgd, a).pfn
    IN  <<pfn(l.stack), pfn(l.code), pfn(l.data)>>

cleanup_context_mm(c) ==
    /\ c \in Live
    /\ cfree' = cfree \cup Range(pfn_array(c)) \cup Range(data_pfns(c))
    /\ ctx' = [ctx EXCEPT ![c] = NoContext]
    /\ given' = [given EXCEPT ![c] = {}]
    /\ UNCHANGED cmem

ContextNext ==
    \E c \in Contexts :
        \/ \E l \in Layouts, hasArg \in BOOLEAN : prepare_context_mm(c, l, hasArg)
        \/ install_os_pts(c)
        \/ cleanup_context_mm(c)

ContextSpec == ContextInit /\ [][ContextNext]_contextVars

-----------------------------------------------------------------------------

\* cleanup_context_mm gives back what prepare_context_mm took, and each frame
\* once, whichever tables the three walks share; the list fits pfn_array[16].
CleanupExact ==
    \A c \in Live :
        LET freed == pfn_array(c) \o data_pfns(c)
        IN  /\ IsInjective(freed)
            /\ Range(freed) = given[c]
            /\ Len(pfn_array(c)) <= 16

\* The tables of a context hold the three walks and the system's entry: nothing
\* is left in them of what the frames held before.
NoStrayEntries ==
    \A c \in Live :
        LET slots == {<<Tables(cmem, ctx[c].pgd, a)[d], a[d]>> :
                         a \in PagesOf(ctx[c].mms), d \in 1 .. 4}
            l3 == Tables(cmem, ctx[c].pgd, ctx[c].mms.stack)[2]
        IN  \A t \in Range(pfn_array(c)), i \in 0 .. ENTRIES - 1 :
                cmem[t][i].pfn # 0 => <<t, i>> \in slots \cup {<<l3, OS_INDEX>>}

\* The walks to pages a and b have their first d entries in common.
Shares(a, b, d) == \A k \in 1 .. d : a[k] = b[k]

\* No directory entry on the way to the data page was made for the code: what
\* data shares with code it shares with the stack too.
Separated(l) ==
    \A d \in 1 .. 3 : Shares(l.data, l.code, d) => Shares(l.data, l.stack, d)

\* The processor lets a context write its stack and its data and not its code,
\* although the directory entries that the walks share have one write bit only.
PermissionsReflected ==
    \A c \in Live :
        LET l == ctx[c].mms
            writable(a) == Writable(cmem, ctx[c].pgd, a)
        IN  /\ writable(l.stack)
            /\ ~writable(l.code)
            /\ Separated(l) => writable(l.data)

=============================================================================
