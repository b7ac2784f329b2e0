------------------------------ MODULE KVStore -------------------------------
(***************************************************************************)
(* What the object store of assignment 4 promises its clients: a map from  *)
(* keys to contents that is kept from one mount to the next.  A process    *)
(* that ends without an unmount takes the store back to the last unmount,  *)
(* except for objects that were removed since.  ObjStore implements this.  *)
(***************************************************************************)
EXTENDS Naturals, Sequences

CONSTANTS
    Keys,
    Bufs,       \* the data that clients write: sequences of blocks
    Zero,       \* what a read returns for a block that was never stored
    MaxBlocks,  \* blocks of the largest object
    NoKey

VARIABLES
    store,      \* the contents of the objects, by key
    saved,      \* the objects that the next mount would find on disk now
    synced,     \* the objects at the last unmount
    origin,     \* for each object, its key at the last unmount, or NoKey
    room        \* blocks that are free

kvVars == <<store, saved, synced, origin, room>>

Put(f, x, v) == [y \in DOMAIN f \cup {x} |-> IF y = x THEN v ELSE f[y]]
Drop(f, x) == [y \in DOMAIN f \ {x} |-> f[y]]
Identity(S) == [k \in S |-> k]

Surviving == {origin[k] : k \in DOMAIN origin} \ {NoKey}

KVInit ==
    /\ store = [k \in {} |-> <<>>]
    /\ saved = store
    /\ synced = store
    /\ origin = [k \in {} |-> NoKey]
    /\ room \in Nat

Create(k) ==
    /\ k \notin DOMAIN store
    /\ origin' = Put(origin, k, NoKey)
    /\ store' = Put(store, k, <<>>)
    /\ UNCHANGED <<saved, synced, room>>

\* The new blocks may be taken from objects that were removed since the last
\* unmount; on disk only those can be harmed.
SavedSurvives ==
    /\ DOMAIN saved' = DOMAIN saved
    /\ \A k \in Surviving : saved'[k] = saved[k]

\* The object keeps what is before off and ends with the data.
Overwrite(k, off, data) ==
    /\ k \in DOMAIN store
    /\ off <= Len(store[k])
    /\ UNCHANGED <<synced, origin>>
    /\ store' = [store EXCEPT ![k] = SubSeq(@, 1, off) \o data]
    /\ SavedSurvives
    /\ room' \in Nat

\* The part of the data that fits an object of the largest size.
Fitting(off, buf) == SubSeq(buf, 1, IF off + Len(buf) <= MaxBlocks THEN Len(buf)
                                    ELSE MaxBlocks - off)

Write(k, off, buf) == Overwrite(k, off, Fitting(off, buf))

\* The disk is full: some blocks of the data are lost.
WriteShort(k, off, buf) ==
    /\ room' = 0
    /\ \E lost \in SUBSET DOMAIN buf :
          Overwrite(k, off, [i \in DOMAIN Fitting(off, buf) |-> IF i \in lost THEN Zero ELSE buf[i]])

Remove(k) ==
    /\ k \in DOMAIN store
    /\ origin' = Drop(origin, k)
    /\ store' = Drop(store, k)
    /\ room' \in Nat
    /\ UNCHANGED <<saved, synced>>

Rename(k, l) ==
    /\ k \in DOMAIN store
    /\ l \notin DOMAIN store
    /\ origin' = Drop(Put(origin, l, origin[k]), k)
    /\ store' = Drop(Put(store, l, store[k]), k)
    /\ UNCHANGED <<saved, synced, room>>

\* Unmount and mount.
Remount ==
    /\ saved' = store
    /\ synced' = store
    /\ origin' = Identity(DOMAIN store)
    /\ room' \in Nat
    /\ UNCHANGED store

\* The process ends without an unmount, and the store is mounted again.
Crash ==
    /\ store' = saved
    /\ synced' = saved
    /\ origin' = Identity(DOMAIN saved)
    /\ room' \in Nat
    /\ UNCHANGED saved

KVNext ==
    \/ \E k \in Keys : Create(k) \/ Remove(k)
    \/ \E k, l \in Keys : Rename(k, l)
    \/ \E k \in DOMAIN store, buf \in Bufs : \E off \in 0 .. Len(store[k]) :
          Write(k, off, buf) \/ WriteShort(k, off, buf)
    \/ Remount
    \/ Crash

KVSpec == KVInit /\ [][KVNext]_kvVars

-----------------------------------------------------------------------------

\* Whatever was created, written, renamed or removed since, the disk has every
\* object that is still there as it was at the last unmount.
CrashKeeps ==
    \A k \in Surviving : /\ k \in DOMAIN saved
                         /\ k \in DOMAIN synced
                         /\ saved[k] = synced[k]

=============================================================================
