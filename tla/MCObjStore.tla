----------------------------- MODULE MCObjStore -----------------------------
(* Small instances of ObjStore: the first MaxSteps requests, remounts and      *)
(* crashes.                                                                    *)
EXTENDS ObjStore

CONSTANTS va, vb, MaxSteps

VARIABLE steps

MCBufs == {<<vb>>, <<va, vb>>}
KeySymmetry == Permutations(Keys)

MCInit == Init /\ steps = 0

MCNext ==
    \/ steps < MaxSteps /\ Next /\ steps' = steps + 1
    \/ steps = MaxSteps /\ UNCHANGED <<vars, steps>>

MCSpec == MCInit /\ [][MCNext]_<<vars, steps>>
=============================================================================
