---------------------------- MODULE AddressSpace ----------------------------
(***************************************************************************)
(* What the fault handler and the memory system calls of assignment 2      *)
(* promise a process: pages of frames of its own, where the segments allow *)
(* them, seen through a TLB.  Page tables are left out; UserMemory has     *)
(* them, and implements this specification.                                *)
(***************************************************************************)
EXTENDS MemoryLayout

\* The pages that a new process starts with.
Loaded == {<<"CODE", 0>>, <<"DATA", 0>>, <<"STACK", PAGES["STACK"] - 1>>}

VARIABLES
    frame,      \* the frame of each page, 0 if it has none
    tlb,        \* the frame that the TLB has for each page, 0 if none
    next_free,  \* the first page of each growing segment that is not granted
    unused,     \* the frames of no page
    alive

spaceVars == <<frame, tlb, next_free, unused, alive>>

\* An access to page p is legitimate.
Granted(p) ==
    \/ p[1] \in Growing /\ p[2] < next_free[p[1]]
    \/ p[1] = "STACK"

NoFrame == [p \in Pages |-> 0]
Mapped == {p \in Pages : frame[p] # 0}
InUse == {frame[p] : p \in Mapped}

\* A process is loaded: its first pages get different free frames.
Load ==
    /\ \E f \in [Loaded -> USER_REG] :
          /\ \A p, q \in Loaded : f[p] = f[q] => p = q
          /\ frame' = [p \in Pages |-> IF p \in Loaded THEN f[p] ELSE 0]
          /\ unused' = USER_REG \ {f[p] : p \in Loaded}
    /\ tlb' = NoFrame
    /\ next_free' = [s \in Growing |-> IF s = "DATA" THEN 1 ELSE 0]
    /\ alive' = TRUE

Init ==
    /\ frame = NoFrame
    /\ tlb = NoFrame
    /\ next_free = [s \in Growing |-> 0]
    /\ unused = USER_REG
    /\ alive = FALSE

Exec == ~alive /\ Load

\* An access to mapped pages: the TLB learns their frames, and may forget others.
Access ==
    /\ alive
    /\ UNCHANGED <<frame, next_free, unused, alive>>
    /\ tlb' \in [Pages -> USER_REG \cup {0}]
    /\ \A p \in Pages : tlb'[p] \in {tlb[p], frame[p], 0}

\* A page that is granted and has no frame gets one.
Fill(p) ==
    /\ alive
    /\ Granted(p)
    /\ frame[p] = 0
    /\ \E f \in unused :
          /\ frame' = [frame EXCEPT ![p] = f]
          /\ unused' = unused \ {f}
    /\ UNCHANGED <<tlb, next_free, alive>>

Expand(s, size) ==
    /\ alive
    /\ next_free[s] + size < PAGES[s]
    /\ next_free' = [next_free EXCEPT ![s] = @ + size]
    /\ UNCHANGED <<frame, tlb, unused, alive>>

\* The pages that a shrink by size takes away from segment s.
Cut(s, size) == {p \in Pages : /\ p[1] = s
                               /\ p[2] >= next_free[s] - size
                               /\ p[2] < next_free[s]}

Shrink(s, size) ==
    /\ alive
    /\ next_free[s] >= size
    /\ next_free' = [next_free EXCEPT ![s] = @ - size]
    /\ frame' = [p \in Pages |-> IF p \in Cut(s, size) THEN 0 ELSE frame[p]]
    /\ tlb' = [p \in Pages |-> IF p \in Cut(s, size) THEN 0 ELSE tlb[p]]
    /\ unused' = unused \cup {frame[p] : p \in Cut(s, size) \cap Mapped}
    /\ UNCHANGED alive

Exit ==
    /\ alive
    /\ frame' = NoFrame
    /\ tlb' = NoFrame
    /\ next_free' = [s \in Growing |-> 0]
    /\ unused' = unused \cup InUse
    /\ alive' = FALSE

Next ==
    \/ Exec
    \/ Access
    \/ \E p \in Pages : Fill(p)
    \/ \E s \in Growing : \E size \in 0 .. PAGES[s] : Expand(s, size)
    \/ \E s \in Growing : \E size \in 0 .. PAGES[s] : Shrink(s, size)
    \/ Exit

Spec == Init /\ [][Next]_spaceVars

-----------------------------------------------------------------------------

\* Every variable has its type.
SpaceTypeOK ==
    /\ frame \in [Pages -> USER_REG \cup {0}]
    /\ tlb \in [Pages -> USER_REG \cup {0}]
    /\ next_free \in [Growing -> Nat]
    /\ unused \subseteq USER_REG
    /\ alive \in BOOLEAN

\* Two pages never have the same frame, and a frame is unused exactly when no
\* page has it: nothing is handed out twice, nothing is lost in a shrink or at
\* exit.
FramesOwned ==
    /\ \A p, q \in Mapped : frame[p] = frame[q] => p = q
    /\ unused = USER_REG \ InUse

\* The TLB never leads to a frame that its page does not have: after a shrink
\* the process cannot reach the pages it gave up.
TLBCoherent == \A p \in Pages : tlb[p] # 0 => tlb[p] = frame[p]

\* A growing segment has no frame at or above next_free.
NothingBeyond == \A p \in Mapped : p[1] \in Growing => p[2] < next_free[p[1]]

=============================================================================
