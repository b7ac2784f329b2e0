---------------------------- MODULE MCBlockCache ----------------------------
(* Small instances of BlockCache. *)
EXTENDS BlockCache, TLC

CONSTANTS t1, t2

AccessOps == {"read", "write"}
AllOps == {"read", "write", "new", "free", "mount"}

ThreadSymmetry == Permutations(Threads)
=============================================================================
