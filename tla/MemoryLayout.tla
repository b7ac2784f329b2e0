---------------------------- MODULE MemoryLayout ----------------------------
(***************************************************************************)
(* Physical frames and virtual segments of gemOS (memory.h, context.h).    *)
(***************************************************************************)
EXTENDS Integers

CONSTANTS
    OS_PT_REG,      \* frames of the page-table region
    USER_REG,       \* frames of the user region
    PAGES           \* number of pages of each segment

ASSUME LayoutAssumption ==
    /\ OS_PT_REG \subseteq Nat \ {0}
    /\ USER_REG \subseteq Nat \ {0}
    /\ OS_PT_REG \cap USER_REG = {}
    /\ PAGES \in [{"CODE", "RODATA", "DATA", "STACK"} -> Nat \ {0}]

Segments == {"CODE", "RODATA", "DATA", "STACK"}
Growing == {"RODATA", "DATA"}

\* Page n of segment s is <<s, n>>.
Pages == UNION {{s} \X (0 .. PAGES[s] - 1) : s \in Segments}

=============================================================================
