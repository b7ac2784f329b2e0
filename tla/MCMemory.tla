------------------------------ MODULE MCMemory ------------------------------
(***************************************************************************)
(* Instances of the two memory models, which share PageTable: a behaviour  *)
(* is one of the kernel of assignment 1 (ContextMM) or one of the kernel   *)
(* of assignment 2 (UserMemory).                                           *)
(***************************************************************************)
EXTENDS ContextMM, UserMemory

CONSTANT Kernels

VARIABLE kernel

vars == <<kernel, contextVars, memoryVars>>

\* One layout per way in which the three walks can share tables.
MCLayouts ==
    LET at(s, c, d) == [stack |-> s, code |-> c, data |-> d]
    IN  { at(<<0, 3, 1, 1>>, <<0, 1, 0, 0>>, <<0, 2, 0, 0>>),   \* as in gemOS
          at(<<1, 3, 1, 1>>, <<0, 1, 0, 0>>, <<0, 2, 0, 0>>),
          at(<<0, 1, 1, 1>>, <<0, 1, 0, 0>>, <<0, 1, 0, 1>>),
          at(<<0, 2, 1, 1>>, <<0, 1, 0, 0>>, <<0, 2, 1, 0>>),
          at(<<0, 1, 0, 2>>, <<0, 1, 0, 0>>, <<0, 1, 0, 1>>) }

MCPages == [CODE |-> 1, RODATA |-> 2, DATA |-> 3, STACK |-> 2]

Init ==
    /\ ContextInit
    /\ MemoryInit
    /\ kernel \in Kernels

ContextStep == kernel = 1 /\ ContextNext /\ UNCHANGED <<kernel, memoryVars>>
UserStep == kernel = 2 /\ MemoryNext /\ UNCHANGED <<kernel, contextVars>>

Next == ContextStep \/ UserStep

\* The processor goes on with the instruction it has begun; nothing is assumed
\* of what the process does next.
Spec == Init /\ [][Next]_vars /\ WF_memoryVars(Perform \/ Fault)

=============================================================================
