----------------------------- MODULE SegmentMap -----------------------------
(***************************************************************************)
(* Where the pages of the one process of assignment 2 lie in its page      *)
(* tables, and which of them it may write.                                 *)
(***************************************************************************)
EXTENDS PageTable

CONSTANT SPAN       \* pages under one first-level table (512)

\* A segment lies under one second-level table.
ASSUME SpanAssumption ==
    /\ ENTRIES \in Nat /\ 4 <= ENTRIES
    /\ SPAN \in 1 .. ENTRIES
    /\ \A s \in Segments : PAGES[s] <= SPAN * ENTRIES

CanWrite(s) == s \in {"DATA", "STACK"}      \* access_flags & MM_WR

\* The segments start in different entries of one third-level table.
L3Index == [CODE |-> 0, RODATA |-> 1, DATA |-> 2, STACK |-> 3]
Addr(p) == <<0, L3Index[p[1]], p[2] \div SPAN, p[2] % SPAN>>

\* A page that the kernel loads before the process runs has writable tables.
LoadPage(m, top, p) ==
    assign_data_page(assign_page_table_pages(m, top, Addr(p), TRUE),
                     top, Addr(p), CanWrite(p[1]), 0)

=============================================================================
