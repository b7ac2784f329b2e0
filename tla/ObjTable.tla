------------------------------ MODULE ObjTable ------------------------------
(***************************************************************************)
(* The object table of the FUSE object store: sobject->obj[], an open      *)
(* addressed hash table with linear probing, used by several FUSE worker   *)
(* threads at once.  create_object_lock serialises the creators; lookups   *)
(* and deletions touch the table without it.  One step is one visit of a   *)
(* slot (the tests of its id and key together), one store, or one lock     *)
(* operation.                                                              *)
(*                                                                         *)
(* The size and the block pointers of an object are abstracted to one      *)
(* value, its contents.                                                    *)
(***************************************************************************)
EXTENDS Integers

CONSTANTS
    Keys,       \* object keys
    Threads,    \* FUSE worker threads
    NumObjs,    \* number of slots (1000000 in the source)
    HashOf,     \* hash(key), already reduced modulo NumObjs
    Ops,        \* which operations the clients call
    Exclusive,  \* TRUE: no two calls in progress use the same key
    NoThread, NoKey, Empty

AllOps == {"find", "put", "create", "destroy", "rename"}

ASSUME TableAssumption ==
    /\ NumObjs \in Nat \ {0}
    /\ HashOf \in [Keys -> 0 .. NumObjs - 1]
    /\ Ops \subseteq AllOps
    /\ Exclusive \in BOOLEAN
    /\ NoThread \notin Threads
    /\ NoKey \notin Keys
    /\ Empty \notin Keys

Slots == 0 .. NumObjs - 1

VARIABLES
    id,       \* obj[s].id: 0 when free, s + 2 when in use
    key,      \* obj[s].key: survives the deletion of the object
    data,     \* obj[s].size and obj[s].data_block_pointers
    lock,     \* owner of create_object_lock
    pc,       \* where each thread is
    call,     \* the call each thread executes, with its arguments
    index,    \* the slot the call is looking at
    old,      \* rename_object: the slot of the object being renamed
    held      \* history: slots that have held the key looked up since the call

vars == <<id, key, data, lock, pc, call, index, old, held>>

indexToID(s) == s + 2

After(s) == (s + 1) % NumObjs

Calls == [op : AllOps, key : Keys, newname : Keys]
NoCall == [op |-> "none"]

\* The key that create_object is called with.
NewKey(t) == IF call[t].op = "rename" THEN call[t].newname ELSE call[t].key

\* Slot s holds a complete object named k.
Holds(s, k) ==
    /\ id[s] # 0
    /\ key[s] = k
    /\ \A t \in Threads : ~(pc[t] = "setkey" /\ index[t] = s)

Move(t, to) == pc' = [pc EXCEPT ![t] = to]

Return(t) ==
    /\ Move(t, "idle")
    /\ call' = [call EXCEPT ![t] = NoCall]
    /\ index' = [index EXCEPT ![t] = 0]
    /\ old' = [old EXCEPT ![t] = 0]

\* The lookups in progress, when slot s stops holding the name it held.
Vacate(s) == held' = [u \in Threads |-> held[u] \ {s}]

Init ==
    /\ id = [s \in Slots |-> 0]
    /\ key = [s \in Slots |-> NoKey]
    /\ data = [s \in Slots |-> Empty]
    /\ lock = NoThread
    /\ pc = [t \in Threads |-> "idle"]
    /\ call = [t \in Threads |-> NoCall]
    /\ index = [t \in Threads |-> 0]
    /\ old = [t \in Threads |-> 0]
    /\ held = [t \in Threads |-> {}]

KeysInUse(t) == IF pc[t] = "idle" THEN {} ELSE {call[t].key, call[t].newname}

\* objfs calls into the store.  An open (or the lookup of getattr) is "find";
\* an open followed by a write through the returned handle is "put".
Call(t, o, k, n) ==
    /\ pc[t] = "idle"
    /\ o = "rename" \/ n = k
    /\ Exclusive => \A u \in Threads \ {t} : KeysInUse(u) \cap {k, n} = {}
    /\ call' = [call EXCEPT ![t] = [op |-> o, key |-> k, newname |-> n]]
    /\ index' = [index EXCEPT ![t] = HashOf[k]]
    /\ held' = [held EXCEPT ![t] = IF o = "create" THEN {}
                                  ELSE {s \in Slots : Holds(s, k)}]
    /\ Move(t, IF o = "create" THEN "lock" ELSE "find")
    /\ UNCHANGED <<id, key, data, lock, old>>

(***************************************************************************)
(* find_object_id: scans the whole circle, without the lock.               *)
(***************************************************************************)
\* Mutant: the key is not compared.
MatchesAnyKey(t, k) == id[index[t]] # 0

Matches(t, k) == id[index[t]] # 0 /\ key[index[t]] = k

\* What the caller does with the id that was found.
FindHit(t) ==
    /\ pc[t] = "find"
    /\ Matches(t, call[t].key)
    /\ \/ call[t].op = "find" /\ Return(t)
       \/ /\ call[t].op = "put"
          /\ Move(t, "write")
          /\ UNCHANGED <<call, index, old>>
       \/ /\ call[t].op = "destroy"
          /\ Move(t, "check")
          /\ UNCHANGED <<call, index, old>>
       \/ /\ call[t].op = "rename"
          /\ Move(t, "lock")
          /\ old' = [old EXCEPT ![t] = index[t]]
          /\ UNCHANGED <<call, index>>
    /\ held' = [held EXCEPT ![t] = {}]
    /\ UNCHANGED <<id, key, data, lock>>

\* Mutant: the scan does not notice that it is back at its start.
FindNextEndless(t) ==
    /\ pc[t] = "find"
    /\ ~Matches(t, call[t].key)
    /\ index' = [index EXCEPT ![t] = After(index[t])]
    /\ UNCHANGED <<id, key, data, lock, pc, call, old, held>>

FindNext(t) ==
    /\ pc[t] = "find"
    /\ ~Matches(t, call[t].key)
    /\ After(index[t]) # HashOf[call[t].key]
    /\ index' = [index EXCEPT ![t] = After(index[t])]
    /\ UNCHANGED <<id, key, data, lock, pc, call, old, held>>

\* Mutant: the scan stops one slot early.
FindMissEarly(t) ==
    /\ pc[t] = "find"
    /\ ~Matches(t, call[t].key)
    /\ After(After(index[t])) = HashOf[call[t].key]
    /\ Move(t, "notfound")
    /\ UNCHANGED <<id, key, data, lock, call, index, old, held>>

\* Mutant: the scan stops at a free slot, as textbook linear probing does.
FindMissAtHole(t) ==
    /\ pc[t] = "find"
    /\ ~Matches(t, call[t].key)
    /\ id[index[t]] = 0 \/ After(index[t]) = HashOf[call[t].key]
    /\ Move(t, "notfound")
    /\ UNCHANGED <<id, key, data, lock, call, index, old, held>>

FindMiss(t) ==
    /\ pc[t] = "find"
    /\ ~Matches(t, call[t].key)
    /\ After(index[t]) = HashOf[call[t].key]
    /\ Move(t, "notfound")
    /\ UNCHANGED <<id, key, data, lock, call, index, old, held>>

\* Every caller passes the -1 on.
NotFound(t) ==
    /\ pc[t] = "notfound"
    /\ Return(t)
    /\ UNCHANGED <<id, key, data, lock, held>>

(***************************************************************************)
(* create_object, also called by rename_object with the new name.          *)
(***************************************************************************)
\* Mutant: create_object runs without its lock.
CreateNoLock(t) ==
    /\ pc[t] = "lock"
    /\ lock' = t
    /\ index' = [index EXCEPT ![t] = HashOf[NewKey(t)]]
    /\ Move(t, "probe")
    /\ UNCHANGED <<id, key, data, call, old, held>>

CreateLock(t) ==
    /\ pc[t] = "lock"
    /\ lock = NoThread
    /\ lock' = t
    /\ index' = [index EXCEPT ![t] = HashOf[NewKey(t)]]
    /\ Move(t, "probe")
    /\ UNCHANGED <<id, key, data, call, old, held>>

\* Mutant: the early return forgets the unlock.
CreateDuplicateLocked(t) ==
    /\ pc[t] = "probe"
    /\ Matches(t, NewKey(t))
    /\ Return(t)
    /\ UNCHANGED <<id, key, data, lock, held>>

CreateDuplicate(t) ==
    /\ pc[t] = "probe"
    /\ Matches(t, NewKey(t))
    /\ lock' = NoThread
    /\ Return(t)
    /\ UNCHANGED <<id, key, data, held>>

CreateSkip(t) ==
    /\ pc[t] = "probe"
    /\ id[index[t]] # 0
    /\ key[index[t]] # NewKey(t)
    /\ index' = [index EXCEPT ![t] = After(index[t])]
    /\ UNCHANGED <<id, key, data, lock, pc, call, old, held>>

\* Mutant: the loop of create_object tests the key and not the id.
CreateClaimInUse(t) ==
    /\ pc[t] = "probe"
    /\ ~Matches(t, NewKey(t))
    /\ id' = [id EXCEPT ![index[t]] = indexToID(index[t])]
    /\ Move(t, "setkey")
    /\ UNCHANGED <<key, data, lock, call, index, old, held>>

\* Mutant: ids start at 1.
CreateClaimOffByOne(t) ==
    /\ pc[t] = "probe"
    /\ id[index[t]] = 0
    /\ id' = [id EXCEPT ![index[t]] = index[t] + 1]
    /\ Move(t, "setkey")
    /\ UNCHANGED <<key, data, lock, call, index, old, held>>

CreateClaim(t) ==
    /\ pc[t] = "probe"
    /\ id[index[t]] = 0
    /\ id' = [id EXCEPT ![index[t]] = indexToID(index[t])]
    /\ Move(t, "setkey")
    /\ UNCHANGED <<key, data, lock, call, index, old, held>>

CreateSetKey(t) ==
    /\ pc[t] = "setkey"
    /\ key' = [key EXCEPT ![index[t]] = NewKey(t)]
    /\ Vacate(index[t])
    /\ Move(t, "setptrs")
    /\ UNCHANGED <<id, data, lock, call, index, old>>

CreateUnlock(t) ==
    /\ pc[t] = "setptrs"
    /\ data' = [data EXCEPT ![index[t]] = Empty]
    /\ lock' = NoThread
    /\ Move(t, "created")
    /\ UNCHANGED <<id, key, call, index, old, held>>

\* create_object reads obj->id again after the unlock and returns it.  When
\* the object has been destroyed in between the value is 0, and the copy that
\* rename_object makes next lands outside the table.
CreateReturn(t) ==
    /\ pc[t] = "created"
    /\ IF call[t].op = "create"
       THEN Return(t)
       ELSE /\ Move(t, IF id[index[t]] = 0 THEN "drop" ELSE "copy")
            /\ UNCHANGED <<call, index, old>>
    /\ UNCHANGED <<id, key, data, lock, held>>

(***************************************************************************)
(* The rest of rename_object.                                              *)
(***************************************************************************)
RenameCopy(t) ==
    /\ pc[t] = "copy"
    /\ data' = [data EXCEPT ![index[t]] = data[old[t]]]
    /\ Move(t, "drop")
    /\ UNCHANGED <<id, key, lock, call, index, old, held>>

RenameDrop(t) ==
    /\ pc[t] = "drop"
    /\ lock = NoThread
    /\ id' = [id EXCEPT ![old[t]] = 0]
    /\ Vacate(old[t])
    /\ Return(t)
    /\ UNCHANGED <<key, data, lock>>

(***************************************************************************)
(* The rest of destroy_object: between the check and the clearing of the   *)
(* id it releases the blocks of the object.  The lock is not taken.        *)
(***************************************************************************)
DestroyCheck(t) ==
    /\ pc[t] = "check"
    /\ IF id[index[t]] = 0
       THEN Return(t)
       ELSE Move(t, "clear") /\ UNCHANGED <<call, index, old>>
    /\ UNCHANGED <<id, key, data, lock, held>>

DestroyClear(t) ==
    /\ pc[t] = "clear"
    /\ id' = [id EXCEPT ![index[t]] = 0]
    /\ Vacate(index[t])
    /\ Return(t)
    /\ UNCHANGED <<key, data, lock>>

\* objstore_write through the handle that the open returned.
Write(t) ==
    /\ pc[t] = "write"
    /\ data' = IF id[index[t]] = 0 THEN data
               ELSE [data EXCEPT ![index[t]] = call[t].key]
    /\ Return(t)
    /\ UNCHANGED <<id, key, lock, held>>

Step(t) ==
    \/ FindHit(t) \/ FindNext(t) \/ FindMiss(t) \/ NotFound(t)
    \/ CreateLock(t) \/ CreateDuplicate(t) \/ CreateSkip(t)
    \/ CreateClaim(t) \/ CreateSetKey(t) \/ CreateUnlock(t) \/ CreateReturn(t)
    \/ RenameCopy(t) \/ RenameDrop(t)
    \/ DestroyCheck(t) \/ DestroyClear(t)
    \/ Write(t)

Next ==
    \E t \in Threads :
        \/ \E o \in Ops, k, n \in Keys : Call(t, o, k, n)
        \/ Step(t)

Spec == Init /\ [][Next]_vars

\* A thread inside a call keeps running; nothing is assumed of who wins a
\* contended lock, nor that a client ever makes a call.
FairSpec == Spec /\ \A t \in Threads : WF_vars(Step(t))

-----------------------------------------------------------------------------

Labels == {"idle", "find", "notfound", "lock", "probe", "setkey", "setptrs",
           "created", "copy", "drop", "check", "clear", "write"}

\* Every variable has its type; in particular an id is 0 or names its slot.
TypeOK ==
    /\ id \in [Slots -> Int]
    /\ \A s \in Slots : id[s] \in {0, indexToID(s)}
    /\ key \in [Slots -> Keys \cup {NoKey}]
    /\ data \in [Slots -> Keys \cup {Empty}]
    /\ lock \in Threads \cup {NoThread}
    /\ pc \in [Threads -> Labels]
    /\ call \in [Threads -> Calls \cup {NoCall}]
    /\ \A t \in Threads : pc[t] = "idle" <=> call[t] = NoCall
    /\ index \in [Threads -> Slots]
    /\ old \in [Threads -> Slots]
    /\ held \in [Threads -> SUBSET Slots]

\* find_object_id never misses an object that was there during the whole
\* scan: a lookup that ends in -1 has no such object, whatever the other
\* threads created and deleted meanwhile.
FindNeverMisses == \A t \in Threads : pc[t] = "notfound" => held[t] = {}

\* No create overwrites a live object: a creator claims no slot that holds a
\* complete object, and the key of a slot in use changes only through the
\* creator that claimed it and still has the lock.
NoLiveOverwrite ==
    [][\A s \in Slots :
          /\ \A t \in Threads, k \in Keys :
                pc[t] = "probe" /\ pc'[t] = "setkey" /\ index[t] = s => ~Holds(s, k)
          /\ id[s] # 0 /\ key'[s] # key[s] =>
                \E t \in Threads : pc[t] = "setkey" /\ index[t] = s /\ lock = t]_vars

\* create_object: "Must check for duplicates".
NoDuplicates ==
    \A r, s \in Slots :
        id[r] # 0 /\ id[s] # 0 /\ key[r] = key[s] /\ key[r] # NoKey => r = s

\* A write made through an open handle lands in the object of that key.
ContentsOwn == \A s \in Slots : data[s] \in {Empty, key[s]}

\* destroy_object: "Destroys an object with obj.key=key".
DestroysOwnKey ==
    \A t \in Threads : pc[t] = "clear" => Holds(index[t], call[t].key)

\* A creator gives the lock back: create_object returns.
LockReleased == \A t \in Threads : lock = t ~> lock # t

\* A lookup ends.
FindReturns == \A t \in Threads : pc[t] = "find" ~> pc[t] # "find"

=============================================================================
