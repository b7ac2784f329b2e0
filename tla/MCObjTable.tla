----------------------------- MODULE MCObjTable -----------------------------
(* Small instances of ObjTable. *)
EXTENDS ObjTable, TLC

CONSTANTS k1, k2, k3, t1, t2

\* k1 and k2 collide in the last slot, so that the probe wraps around to the
\* slot where k3 hashes.
CollidingHash == [k \in Keys |-> IF k = k3 THEN 0 ELSE NumObjs - 1]

GrowOps == {"find", "put", "create"}

\* Without "put" the contents never change: they play no part in the lookups.
NameOps == {"find", "create", "destroy", "rename"}

ThreadSymmetry == Permutations({t1, t2})
=============================================================================
