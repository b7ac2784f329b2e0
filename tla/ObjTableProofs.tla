--------------------------- MODULE ObjTableProofs ---------------------------
(***************************************************************************)
(* What holds of the object table for every number of slots, every hash    *)
(* function, and every set of keys and threads.                            *)
(***************************************************************************)
EXTENDS ObjTable, TLAPS

\* The slots a probe that started at h has passed when it looks at slot i.
Between(h, i) ==
    {s \in Slots : IF h <= i THEN h <= s /\ s < i ELSE h <= s \/ s < i}

-----------------------------------------------------------------------------
(* The circle of slots.                                                    *)

\* The step of a probe, (index + 1) % NumObjs, without the modulus.
LEMMA AfterIs ==
    ASSUME NEW s \in Slots
    PROVE  /\ After(s) \in Slots
           /\ After(s) = IF s = NumObjs - 1 THEN 0 ELSE s + 1
  <1>1. CASE s = NumObjs - 1
    BY <1>1, TableAssumption DEF After, Slots
  <1>2. CASE s # NumObjs - 1
    BY <1>2, TableAssumption DEF After, Slots
  <1> QED BY <1>1, <1>2, Zenon

\* A probe starts having passed nothing.
LEMMA BetweenStart ==
    ASSUME NEW h \in Slots
    PROVE  Between(h, h) = {}
  BY TableAssumption DEF Between, Slots

\* A step of a probe adds the slot it leaves, until it is back at the start.
LEMMA BetweenStep ==
    ASSUME NEW h \in Slots, NEW i \in Slots
    PROVE  /\ Between(h, After(i)) \subseteq Between(h, i) \cup {i}
           /\ After(i) = h => Between(h, i) \cup {i} = Slots
  BY AfterIs, TableAssumption DEF Between, Slots

\* Of two slots, one is met first by a probe from h.
LEMMA BetweenTotal ==
    ASSUME NEW h \in Slots, NEW r \in Slots, NEW s \in Slots, r # s
    PROVE  r \in Between(h, s) \/ s \in Between(h, r)
  BY TableAssumption DEF Between, Slots

-----------------------------------------------------------------------------
(* Types.                                                                  *)

\* The empty table is well typed.
LEMMA TypeInit == Init => TypeOK
  BY TableAssumption DEF Init, TypeOK, Labels, Slots, indexToID

\* A thread inside a call has the arguments of one.
LEMMA CallOf ==
    ASSUME TypeOK, NEW t \in Threads, pc[t] # "idle"
    PROVE  /\ call[t] \in Calls
           /\ NewKey(t) \in Keys
           /\ call[t].key \in Keys
           /\ HashOf[call[t].key] \in Slots
           /\ HashOf[NewKey(t)] \in Slots
  BY TableAssumption, Zenon DEF TypeOK, Calls, NewKey, Slots

\* Every step keeps the table and the locals well typed.
LEMMA TypeNext == TypeOK /\ [Next]_vars => TypeOK'
  <1> SUFFICES ASSUME TypeOK, [Next]_vars PROVE TypeOK'
    BY Zenon
  <1>c. NoCall \notin Calls
    BY Zenon DEF NoCall, Calls, AllOps
  <1>0. CASE UNCHANGED vars
    BY <1>0, Zenon DEF TypeOK, vars
  <1>1. ASSUME NEW t \in Threads, NEW o \in Ops, NEW k \in Keys, NEW n \in Keys,
               Call(t, o, k, n)
        PROVE  TypeOK'
    <2>1. [op |-> o, key |-> k, newname |-> n] \in Calls
      BY TableAssumption, Zenon DEF Calls
    <2>2. HashOf[k] \in Slots
      BY TableAssumption, Zenon DEF Slots
    <2>3. call' = [call EXCEPT ![t] = [op |-> o, key |-> k, newname |-> n]]
      BY <1>1, Zenon DEF Call
    <2>4. call' \in [Threads -> Calls \cup {NoCall}] /\ call'[t] # NoCall
      BY <1>c, <2>1, <2>3, Zenon DEF TypeOK
    <2>5. pc' \in [Threads -> Labels] /\ pc'[t] # "idle"
      BY <1>1, Zenon DEF Call, TypeOK, Move, Labels
    <2>6. \A u \in Threads : pc'[u] = "idle" <=> call'[u] = NoCall
      BY <1>1, <2>3, <2>4, <2>5, Zenon DEF Call, TypeOK, Move
    <2>7. index' \in [Threads -> Slots] /\ held' \in [Threads -> SUBSET Slots]
      BY <1>1, <2>2, Zenon DEF Call, TypeOK
    <2> QED BY <1>1, <2>4, <2>5, <2>6, <2>7, Zenon DEF Call, TypeOK
  <1>2. ASSUME NEW t \in Threads, Step(t)
        PROVE  TypeOK'
    <2>0. pc[t] # "idle"
      BY <1>2, Zenon DEF Step, FindHit, FindNext, FindMiss, NotFound, CreateLock,
                  CreateDuplicate, CreateSkip, CreateClaim, CreateSetKey,
                  CreateUnlock, CreateReturn, RenameCopy, RenameDrop,
                  DestroyCheck, DestroyClear, Write
    <2>z. 0 \in Slots
      BY TableAssumption DEF Slots
    <2>a. /\ index[t] \in Slots
          /\ NewKey(t) \in Keys
          /\ call[t].key \in Keys
          /\ After(index[t]) \in Slots
          /\ HashOf[NewKey(t)] \in Slots
      BY <2>0, CallOf, AfterIs, Zenon DEF TypeOK
    <2> USE <2>0, <2>z, <2>a, <1>c DEF TypeOK, Move, Return, Labels
    <2>1. CASE FindHit(t)
      <3>1. CASE call[t].op = "find" /\ Return(t)
        BY <2>1, <3>1, Zenon DEF FindHit
      <3>2. CASE Move(t, "write") /\ UNCHANGED <<call, index, old>>
        BY <2>1, <3>2, Zenon DEF FindHit
      <3>3. CASE Move(t, "check") /\ UNCHANGED <<call, index, old>>
        BY <2>1, <3>3, Zenon DEF FindHit
      <3>4. CASE /\ Move(t, "lock")
                 /\ old' = [old EXCEPT ![t] = index[t]]
                 /\ UNCHANGED <<call, index>>
        BY <2>1, <3>4, Zenon DEF FindHit
      <3> QED BY <2>1, <3>1, <3>2, <3>3, <3>4, Zenon DEF FindHit
    <2>2. CASE FindNext(t)
      BY <2>2, Zenon DEF FindNext
    <2>3. CASE FindMiss(t)
      BY <2>3, Zenon DEF FindMiss
    <2>4. CASE NotFound(t)
      BY <2>4, Zenon DEF NotFound
    <2>5. CASE CreateLock(t)
      BY <2>5, Zenon DEF CreateLock
    <2>6. CASE CreateDuplicate(t)
      BY <2>6, Zenon DEF CreateDuplicate
    <2>7. CASE CreateSkip(t)
      BY <2>7, Zenon DEF CreateSkip
    <2>8. CASE CreateClaim(t)
      <3>1. indexToID(index[t]) \in Int
        BY DEF indexToID, Slots
      <3> QED BY <2>8, <3>1, Zenon DEF CreateClaim
    <2>9. CASE CreateSetKey(t)
      BY <2>9, Zenon DEF CreateSetKey, Vacate
    <2>10. CASE CreateUnlock(t)
      BY <2>10, Zenon DEF CreateUnlock
    <2>11. CASE CreateReturn(t)
      BY <2>11 DEF CreateReturn
    <2>12. CASE RenameCopy(t)
      BY <2>12, Zenon DEF RenameCopy
    <2>13. CASE RenameDrop(t)
      BY <2>13 DEF RenameDrop, Vacate
    <2>14. CASE DestroyCheck(t)
      BY <2>14 DEF DestroyCheck
    <2>15. CASE DestroyClear(t)
      BY <2>15 DEF DestroyClear, Vacate
    <2>16. CASE Write(t)
      BY <2>16, Zenon DEF Write
    <2> QED
      BY ZenonT(30), <1>2, <2>1, <2>2, <2>3, <2>4, <2>5, <2>6, <2>7, <2>8, <2>9, <2>10,
         <2>11, <2>12, <2>13, <2>14, <2>15, <2>16 DEF Step
  <1> QED BY <1>0, <1>1, <1>2, Zenon DEF Next

\* Type correctness of the object table: in particular every id is 0 or the
\* one that belongs to its slot, as indexToID computes it.
THEOREM TypeCorrect == Spec => []TypeOK
  BY TypeInit, TypeNext, PTL DEF Spec

-----------------------------------------------------------------------------
(* Lookups.                                                                *)

\* What makes FindNeverMisses inductive: the objects a running lookup may not
\* miss are still there, and ahead of it.
FindInv ==
    \A t \in Threads :
        /\ pc[t] = "find" =>
             \A s \in held[t] :
                 /\ id[s] # 0
                 /\ key[s] = call[t].key
                 /\ s \notin Between(HashOf[call[t].key], index[t])
        /\ pc[t] = "notfound" => held[t] = {}

\* Before the first call no lookup has passed a slot.
LEMMA FindInit == Init => FindInv
  BY Zenon DEF Init, FindInv

\* A step that neither clears an id, nor renames a slot, nor touches the
\* locals of a lookup preserves FindInv for that lookup.
LEMMA FindFrame ==
    ASSUME TypeOK, FindInv, NEW u \in Threads,
           pc'[u] = pc[u], call'[u] = call[u], index'[u] = index[u],
           held'[u] \subseteq held[u],
           \A s \in held'[u] : (id[s] # 0 => id'[s] # 0) /\ key'[s] = key[s]
    PROVE  /\ pc'[u] = "find" =>
                \A s \in held'[u] :
                    /\ id'[s] # 0
                    /\ key'[s] = call'[u].key
                    /\ s \notin Between(HashOf[call'[u].key], index'[u])
           /\ pc'[u] = "notfound" => held'[u] = {}
  BY DEF FindInv

\* Every step keeps what a lookup has yet to see ahead of it.
LEMMA FindNextStep == TypeOK /\ FindInv /\ [Next]_vars => FindInv'
  <1> SUFFICES ASSUME TypeOK, FindInv, [Next]_vars PROVE FindInv'
    BY Zenon
  <1>0. CASE UNCHANGED vars
    BY <1>0, Zenon DEF FindInv, vars, Between
  <1>1. ASSUME NEW t \in Threads, NEW o \in Ops, NEW k \in Keys, NEW n \in Keys,
               Call(t, o, k, n)
        PROVE  FindInv'
    <2>1. HashOf[k] \in Slots
      BY TableAssumption, Zenon DEF Slots
    <2>2. Between(HashOf[k], HashOf[k]) = {}
      BY <2>1, BetweenStart, Zenon
    <2> SUFFICES ASSUME NEW u \in Threads
                 PROVE  /\ pc'[u] = "find" =>
                             \A s \in held'[u] :
                                 /\ id'[s] # 0
                                 /\ key'[s] = call'[u].key
                                 /\ s \notin Between(HashOf[call'[u].key], index'[u])
                        /\ pc'[u] = "notfound" => held'[u] = {}
      BY Zenon DEF FindInv, Between
    <2>3. CASE u = t
      <3>1. call'[t].key = k /\ index'[t] = HashOf[k]
        BY <1>1, Zenon DEF Call, TypeOK
      <3>2. pc'[t] \in {"find", "lock"} /\ (pc'[t] = "find" => o # "create")
        BY <1>1, Zenon DEF Call, TypeOK, Move
      <3>3. o # "create" => held'[t] = {s \in Slots : Holds(s, k)}
        BY <1>1, Zenon DEF Call, TypeOK
      <3> QED BY <1>1, <2>2, <2>3, <3>1, <3>2, <3>3, Zenon DEF Call, Holds
    <2>4. CASE u # t
      BY <1>1, <2>4, FindFrame, Zenon DEF Call, TypeOK, Move
    <2> QED BY <2>3, <2>4, Zenon
  <1>2. ASSUME NEW t \in Threads, Step(t)
        PROVE  FindInv'
    <2> SUFFICES ASSUME NEW u \in Threads
                 PROVE  /\ pc'[u] = "find" =>
                             \A s \in held'[u] :
                                 /\ id'[s] # 0
                                 /\ key'[s] = call'[u].key
                                 /\ s \notin Between(HashOf[call'[u].key], index'[u])
                        /\ pc'[u] = "notfound" => held'[u] = {}
      BY Zenon DEF FindInv, Between
    <2> USE DEF TypeOK, Move, Return
    <2>1. CASE FindHit(t)
      <3>1. pc'[t] \notin {"find", "notfound"}
        BY <2>1, Zenon DEF FindHit
      <3>2. u # t => pc'[u] = pc[u] /\ call'[u] = call[u] /\ index'[u] = index[u]
        BY <2>1, Zenon DEF FindHit
      <3>3. u # t => held'[u] = held[u] /\ id' = id /\ key' = key
        BY <2>1, Zenon DEF FindHit
      <3> QED BY <3>1, <3>2, <3>3, FindFrame, Zenon
    <2>2. CASE FindNext(t)
      <3>1. CASE u # t
        BY <2>2, <3>1, FindFrame, Zenon DEF FindNext
      <3>2. CASE u = t
        <4>1. HashOf[call[t].key] \in Slots /\ index[t] \in Slots
          BY <2>2, CallOf, Zenon DEF FindNext
        <4>2. index[t] \notin held[t]
          BY <2>2, Zenon DEF FindNext, FindInv, Matches
        <4>3. /\ index'[t] = After(index[t])
              /\ held' = held /\ id' = id /\ key' = key /\ call' = call /\ pc' = pc
          BY <2>2, Zenon DEF FindNext
        <4>4. \A s \in held[t] : s \notin Between(HashOf[call[t].key], index'[t])
          BY SMTT(30), <2>2, <4>1, <4>2, <4>3, BetweenStep DEF FindInv, FindNext
        <4> QED BY <2>2, <3>2, <4>3, <4>4 DEF FindInv, FindNext
      <3> QED BY SMTT(30), <3>1, <3>2
    <2>3. CASE FindMiss(t)
      <3>1. CASE u # t
        BY <2>3, <3>1, FindFrame, Zenon DEF FindMiss
      <3>2. CASE u = t
        <4>1. HashOf[call[t].key] \in Slots /\ index[t] \in Slots
          BY <2>3, CallOf, Zenon DEF FindMiss
        <4>2. index[t] \notin held[t]
          BY <2>3, Zenon DEF FindMiss, FindInv, Matches
        <4>3. Between(HashOf[call[t].key], index[t]) \cup {index[t]} = Slots
          BY <2>3, <4>1, BetweenStep DEF FindMiss
        <4>4. held[t] \subseteq Slots
          BY Zenon
        <4>5. held[t] = {}
          BY <2>3, <4>2, <4>3, <4>4 DEF FindInv, FindMiss
        <4> QED BY <2>3, <3>2, <4>5, Zenon DEF FindMiss
      <3> QED BY <3>1, <3>2, Zenon
    <2>4. CASE NotFound(t)
      BY <2>4, FindFrame, Zenon DEF NotFound
    <2>5. CASE CreateLock(t)
      BY <2>5, FindFrame, Zenon DEF CreateLock
    <2>6. CASE CreateDuplicate(t)
      BY SMTT(30), <2>6, FindFrame DEF CreateDuplicate
    <2>7. CASE CreateSkip(t)
      BY SMTT(30), <2>7, FindFrame DEF CreateSkip
    <2>8. CASE CreateClaim(t)
      <3>1. index[t] \in Slots /\ indexToID(index[t]) # 0
        BY DEF indexToID, Slots
      <3>2. \A s \in Slots : id[s] # 0 => id'[s] # 0
        BY SMTT(30), <2>8, <3>1 DEF CreateClaim
      <3> QED BY <2>8, <3>2, FindFrame DEF CreateClaim
    <2>9. CASE CreateSetKey(t)
      BY SMTT(30), <2>9, FindFrame DEF CreateSetKey, Vacate
    <2>10. CASE CreateUnlock(t)
      BY SMTT(30), <2>10, FindFrame DEF CreateUnlock
    <2>11. CASE CreateReturn(t)
      BY SMTT(30), <2>11, FindFrame DEF CreateReturn
    <2>12. CASE RenameCopy(t)
      BY <2>12, FindFrame, Zenon DEF RenameCopy
    <2>13. CASE RenameDrop(t)
      BY <2>13, FindFrame DEF RenameDrop, Vacate
    <2>14. CASE DestroyCheck(t)
      BY <2>14, FindFrame DEF DestroyCheck
    <2>15. CASE DestroyClear(t)
      BY SMTT(30), <2>15, FindFrame DEF DestroyClear, Vacate
    <2>16. CASE Write(t)
      BY <2>16, FindFrame, Zenon DEF Write
    <2> QED
      BY ZenonT(30), <1>2, <2>1, <2>2, <2>3, <2>4, <2>5, <2>6, <2>7, <2>8, <2>9, <2>10,
         <2>11, <2>12, <2>13, <2>14, <2>15, <2>16 DEF Step
  <1> QED BY <1>0, <1>1, <1>2, Zenon DEF Next

\* find_object_id never misses an object that is in the table during the
\* whole of its unlocked scan, whatever the other threads do meanwhile.
THEOREM FindComplete == Spec => []FindNeverMisses
  <1>1. FindInv => FindNeverMisses
    BY Zenon DEF FindInv, FindNeverMisses
  <1> QED BY <1>1, TypeInit, TypeNext, FindInit, FindNextStep, PTL DEF Spec

-----------------------------------------------------------------------------
(* The lock of the creators.                                               *)

Creating == {"probe", "setkey", "setptrs"}

LockInv == \A t \in Threads : pc[t] \in Creating => lock = t

\* At the start nobody is inside create_object.
LEMMA LockInit == Init => LockInv
  BY Zenon DEF Init, LockInv, Creating

\* Every step keeps the creators inside the lock.
LEMMA LockStep == TypeOK /\ LockInv /\ [Next]_vars => LockInv'
  <1> SUFFICES ASSUME TypeOK, LockInv, [Next]_vars PROVE LockInv'
    OBVIOUS
  <1> USE DEF LockInv, Creating
  <1>0. CASE UNCHANGED vars
    BY <1>0, Zenon DEF vars
  <1>1. ASSUME NEW t \in Threads, NEW o \in Ops, NEW k \in Keys, NEW n \in Keys,
               Call(t, o, k, n)
        PROVE  LockInv'
    BY <1>1, Zenon DEF Call, Move, TypeOK
  <1>2. ASSUME NEW t \in Threads, Step(t)
        PROVE  LockInv'
    <2> USE DEF TypeOK, Move, Return
    <2>1. CASE FindHit(t)
      BY <2>1 DEF FindHit
    <2>2. CASE FindNext(t)
      BY <2>2, Zenon DEF FindNext
    <2>3. CASE FindMiss(t)
      BY <2>3, Zenon DEF FindMiss
    <2>4. CASE NotFound(t)
      BY <2>4, Zenon DEF NotFound
    <2>5. CASE CreateLock(t)
      BY <2>5, TableAssumption, Zenon DEF CreateLock
    <2>6. CASE CreateDuplicate(t)
      BY <2>6, Zenon DEF CreateDuplicate
    <2>7. CASE CreateSkip(t)
      BY <2>7, Zenon DEF CreateSkip
    <2>8. CASE CreateClaim(t)
      BY <2>8, Zenon DEF CreateClaim
    <2>9. CASE CreateSetKey(t)
      BY <2>9, Zenon DEF CreateSetKey
    <2>10. CASE CreateUnlock(t)
      BY <2>10, Zenon DEF CreateUnlock
    <2>11. CASE CreateReturn(t)
      BY <2>11 DEF CreateReturn
    <2>12. CASE RenameCopy(t)
      BY <2>12, Zenon DEF RenameCopy
    <2>13. CASE RenameDrop(t)
      BY <2>13, Zenon DEF RenameDrop
    <2>14. CASE DestroyCheck(t)
      BY <2>14 DEF DestroyCheck
    <2>15. CASE DestroyClear(t)
      BY <2>15, Zenon DEF DestroyClear
    <2>16. CASE Write(t)
      BY <2>16, Zenon DEF Write
    <2> QED
      BY Zenon, <1>2, <2>1, <2>2, <2>3, <2>4, <2>5, <2>6, <2>7, <2>8, <2>9, <2>10,
         <2>11, <2>12, <2>13, <2>14, <2>15, <2>16 DEF Step
  <1> QED BY <1>0, <1>1, <1>2, Zenon DEF Next

\* A step of one thread leaves the locals of every other thread alone.
LEMMA OthersStay ==
    ASSUME TypeOK, NEW t \in Threads,
           Step(t) \/ \E o \in Ops, k, n \in Keys : Call(t, o, k, n)
    PROVE  \A u \in Threads \ {t} :
              pc'[u] = pc[u] /\ call'[u] = call[u] /\ index'[u] = index[u]
  <1> USE DEF TypeOK, Move, Return
  <1>0. CASE \E o \in Ops, k, n \in Keys : Call(t, o, k, n)
    BY <1>0 DEF Call
  <1>1. CASE FindHit(t)
    BY SMTT(30), <1>1 DEF FindHit
  <1>2. CASE FindNext(t)
    BY SMTT(30), <1>2 DEF FindNext
  <1>3. CASE FindMiss(t)
    BY <1>3, Zenon DEF FindMiss
  <1>4. CASE NotFound(t)
    BY <1>4, Zenon DEF NotFound
  <1>5. CASE CreateLock(t)
    BY <1>5, Zenon DEF CreateLock
  <1>6. CASE CreateDuplicate(t)
    BY <1>6, Zenon DEF CreateDuplicate
  <1>7. CASE CreateSkip(t)
    BY <1>7, Zenon DEF CreateSkip
  <1>8. CASE CreateClaim(t)
    BY <1>8, Zenon DEF CreateClaim
  <1>9. CASE CreateSetKey(t)
    BY <1>9, Zenon DEF CreateSetKey
  <1>10. CASE CreateUnlock(t)
    BY <1>10, Zenon DEF CreateUnlock
  <1>11. CASE CreateReturn(t)
    BY <1>11 DEF CreateReturn
  <1>12. CASE RenameCopy(t)
    BY <1>12, Zenon DEF RenameCopy
  <1>13. CASE RenameDrop(t)
    BY <1>13, Zenon DEF RenameDrop
  <1>14. CASE DestroyCheck(t)
    BY <1>14 DEF DestroyCheck
  <1>15. CASE DestroyClear(t)
    BY <1>15, Zenon DEF DestroyClear
  <1>16. CASE Write(t)
    BY <1>16, Zenon DEF Write
  <1> HIDE DEF TypeOK, Move, Return
  <1> QED
    BY ZenonT(30), <1>0, <1>1, <1>2, <1>3, <1>4, <1>5, <1>6, <1>7, <1>8, <1>9, <1>10, <1>11,
       <1>12, <1>13, <1>14, <1>15, <1>16 DEF Step

\* create_object overwrites no live object: it claims free slots only, and the
\* only step that changes a key is that of the creator that claimed the slot.
THEOREM LiveKeysStay == Spec => NoLiveOverwrite
  <1> DEFINE Claims(s) ==
               \A t \in Threads, k \in Keys :
                  pc[t] = "probe" /\ pc'[t] = "setkey" /\ index[t] = s => ~Holds(s, k)
             Changes(s) ==
               id[s] # 0 /\ key'[s] # key[s] =>
                  \E t \in Threads : pc[t] = "setkey" /\ index[t] = s /\ lock = t
  <1>1. ASSUME TypeOK, LockInv, Next, NEW s \in Slots PROVE Changes(s)
    <2> SUFFICES ASSUME key'[s] # key[s]
                 PROVE  \E t \in Threads : pc[t] = "setkey" /\ index[t] = s /\ lock = t
      BY Zenon
    <2>1. PICK t \in Threads : CreateSetKey(t)
      <3>1. PICK t \in Threads : \/ \E o \in Ops, j, n \in Keys : Call(t, o, j, n)
                                 \/ Step(t)
        BY <1>1, Zenon DEF Next
      <3> QED BY <3>1, ZenonT(30) DEF Call, Step, FindHit, FindNext, FindMiss, NotFound, CreateLock,
             CreateDuplicate, CreateSkip, CreateClaim, CreateUnlock, CreateReturn,
             RenameCopy, RenameDrop, DestroyCheck, DestroyClear, Write
    <2> QED BY <1>1, <2>1, Zenon DEF CreateSetKey, TypeOK, LockInv, Creating
  <1>2. ASSUME TypeOK, Next, NEW s \in Slots PROVE Claims(s)
    <2> SUFFICES ASSUME NEW t \in Threads, NEW k \in Keys,
                        pc[t] = "probe", pc'[t] = "setkey", index[t] = s
                 PROVE  ~Holds(s, k)
      BY Zenon
    <2>1. PICK u \in Threads : \/ \E o \in Ops, j, n \in Keys : Call(u, o, j, n)
                               \/ Step(u)
      BY <1>2, Zenon DEF Next
    <2>2. u = t
      BY SMTT(30), <1>2, <2>1, OthersStay
    <2>3. CreateDuplicate(t) \/ CreateSkip(t) \/ CreateClaim(t)
      BY <2>1, <2>2, Zenon DEF Call, Step, FindHit, FindNext, FindMiss, NotFound, CreateLock,
             CreateSetKey, CreateUnlock, CreateReturn, RenameCopy, RenameDrop,
             DestroyCheck, DestroyClear, Write
    <2>4. ~CreateDuplicate(t)
      BY SMTT(30), <1>2 DEF CreateDuplicate, Return, Move, TypeOK
    <2>5. ~CreateSkip(t)
      BY SMTT(30) DEF CreateSkip
    <2> QED BY ZenonT(30), <2>3, <2>4, <2>5 DEF CreateClaim, Holds
  <1>3. TypeOK /\ LockInv /\ [Next]_vars =>
          [\A s \in Slots :
             /\ \A t \in Threads, k \in Keys :
                   pc[t] = "probe" /\ pc'[t] = "setkey" /\ index[t] = s => ~Holds(s, k)
             /\ id[s] # 0 /\ key'[s] # key[s] =>
                   \E t \in Threads : pc[t] = "setkey" /\ index[t] = s /\ lock = t]_vars
    BY <1>1, <1>2, Zenon
  <1> HIDE DEF Claims, Changes
  <1> QED BY <1>3, TypeInit, TypeNext, LockInit, LockStep, PTL DEF Spec, NoLiveOverwrite

-----------------------------------------------------------------------------
(* A table that only grows: no deletion and no rename, hence no free slot  *)
(* in the middle of a probe sequence.                                      *)

GrowOnly == Ops \subseteq {"find", "put", "create"}

\* Every slot a probe from the hash of k passes before slot s is in use.
Chained(k, s) == \A r \in Between(HashOf[k], s) : id[r] # 0

\* What holds of the slots.
TableGrow ==
    /\ \A s \in Slots : id[s] = 0 => key[s] = NoKey
    /\ \A s \in Slots : key[s] # NoKey => Chained(key[s], s)
    /\ \A r, s \in Slots : key[r] = key[s] /\ key[r] # NoKey => r = s
    /\ \A s \in Slots : data[s] \in {Empty, key[s]}

\* What holds of the locals of thread t: where it can be, and what its probe
\* has seen so far.
ThreadGrow(t) ==
    /\ pc[t] # "idle" => call[t].op \in {"find", "put", "create"}
    /\ pc[t] \notin {"copy", "drop", "check", "clear"}
    /\ pc[t] \in Creating \cup {"lock", "created"} => call[t].op = "create"
    /\ pc[t] \in {"probe", "setkey"} =>
          /\ Chained(NewKey(t), index[t])
          /\ \A r \in Between(HashOf[NewKey(t)], index[t]) : key[r] # NewKey(t)
    /\ pc[t] = "setkey" =>
          /\ id[index[t]] # 0
          /\ key[index[t]] = NoKey
          /\ \A s \in Slots : key[s] # NewKey(t)
    /\ pc[t] = "write" => key[index[t]] = call[t].key

GrowInv == TableGrow /\ \A t \in Threads : ThreadGrow(t)

\* The empty table has no broken probe sequence.
LEMMA GrowInit == Init => GrowInv
  BY DEF Init, GrowInv, TableGrow, ThreadGrow, Chained, Creating

\* In a table that only grows, a probe that meets a free slot has seen every
\* place where its key could be.
LEMMA FreeSlotEndsProbe ==
    ASSUME TypeOK, GrowInv, NEW t \in Threads, pc[t] = "probe", id[index[t]] = 0
    PROVE  \A s \in Slots : key[s] # NewKey(t)
  <1> DEFINE k == NewKey(t)
             h == HashOf[k]
  <1>1. k \in Keys /\ k # NoKey /\ h \in Slots /\ index[t] \in Slots
    BY CallOf, TableAssumption DEF TypeOK
  <1> SUFFICES ASSUME NEW s \in Slots, key[s] = k PROVE FALSE
    BY SMTT(30)
  <1>2. s # index[t]
    BY <1>1, Zenon DEF GrowInv, TableGrow
  <1>3. index[t] \notin Between(h, s)
    BY <1>1, Zenon DEF GrowInv, TableGrow, Chained
  <1>4. s \in Between(h, index[t])
    BY <1>1, <1>2, <1>3, BetweenTotal, Zenon
  <1> QED BY <1>4, Zenon DEF GrowInv, ThreadGrow

\* A thread that neither probes nor holds a handle has nothing to maintain.
LEMMA QuietThread ==
    ASSUME NEW t \in Threads,
           \/ pc'[t] = "idle"
           \/ /\ pc'[t] \in {"find", "notfound"}
              /\ call'[t].op \in {"find", "put", "create"}
           \/ /\ pc'[t] \in {"lock", "setptrs", "created"}
              /\ call'[t].op = "create"
    PROVE  ThreadGrow(t)'
  BY SMTT(30) DEF ThreadGrow, Creating

\* What a thread maintains depends on ids, keys and its own locals only.
LEMMA ThreadFrame ==
    ASSUME NEW u \in Threads, ThreadGrow(u), UNCHANGED <<id, key>>,
           pc'[u] = pc[u], call'[u] = call[u], index'[u] = index[u]
    PROVE  ThreadGrow(u)'
  <1>1. NewKey(u)' = NewKey(u)
    BY SMTT(30) DEF NewKey
  <1> QED BY SMTT(30), <1>1 DEF ThreadGrow, Chained

\* What holds of the slots survives a step that changes only data, as long as
\* the data written belongs to the slot.
LEMMA TableFrame ==
    ASSUME TableGrow, UNCHANGED <<id, key>>,
           \A s \in Slots : data'[s] \in {Empty, key[s]}
    PROVE  TableGrow'
  BY Zenon DEF TableGrow, Chained

\* So a step of t that changes no id and no key has only t to answer for.
LEMMA GrowFrame ==
    ASSUME TypeOK, GrowInv, NEW t \in Threads,
           Step(t) \/ \E o \in Ops, k, n \in Keys : Call(t, o, k, n),
           UNCHANGED <<id, key>>,
           \A s \in Slots : data'[s] \in {Empty, key[s]},
           ThreadGrow(t)'
    PROVE  GrowInv'
  <1>1. TableGrow'
    BY TableFrame, Zenon DEF GrowInv
  <1>2. ASSUME NEW u \in Threads \ {t} PROVE ThreadGrow(u)'
    BY <1>2, OthersStay, ThreadFrame, Zenon DEF GrowInv
  <1> QED BY <1>1, <1>2, Zenon DEF GrowInv

\* A claim keeps the invariant: the slot was free, so the key is nowhere.
LEMMA GrowClaim ==
    ASSUME TypeOK, LockInv, GrowInv, NEW t \in Threads, CreateClaim(t)
    PROVE  GrowInv'
  <1> DEFINE i == index[t]
  <1>1. i \in Slots /\ pc[t] = "probe" /\ id[i] = 0
    BY Zenon DEF TypeOK, CreateClaim
  <1>2. \A s \in Slots : key[s] # NewKey(t)
    BY <1>1, FreeSlotEndsProbe, Zenon
  <1>3. indexToID(i) # 0
    BY <1>1 DEF indexToID, Slots
  <1>4. id'[i] # 0 /\ \A s \in Slots : id[s] # 0 => id'[s] # 0
    BY <1>1, <1>3, Zenon DEF CreateClaim, TypeOK
  <1>5. UNCHANGED <<key, data, call, index>>
    BY Zenon DEF CreateClaim
  <1>6. pc'[t] = "setkey" /\ \A u \in Threads \ {t} : pc'[u] = pc[u]
    BY Zenon DEF CreateClaim, TypeOK, Move
  <1>7. \A h, s : Between(h, s) \subseteq Slots
    BY Zenon DEF Between
  <1>9. \A u \in Threads : NewKey(u)' = NewKey(u)
    BY <1>5, Zenon DEF NewKey
  <1>10. TableGrow'
    <2>1. \A s \in Slots : id'[s] = 0 => key'[s] = NoKey
      BY <1>4, <1>5, Zenon DEF GrowInv, TableGrow
    <2>2. ASSUME NEW s \in Slots, key'[s] # NoKey PROVE Chained(key[s], s)'
      BY SMTT(30), <1>5, <1>4, <1>7, <2>2 DEF GrowInv, TableGrow, Chained
    <2> QED BY SMTT(30), <1>5, <2>1, <2>2 DEF GrowInv, TableGrow
  <1>11. ThreadGrow(t)'
    <2>1. ThreadGrow(t) /\ key[i] = NoKey
      BY SMTT(30), <1>1 DEF GrowInv, TableGrow
    <2>2. Chained(NewKey(t), i)'
      BY <1>1, <1>4, <1>5, <1>7, <1>9, <2>1, Zenon DEF ThreadGrow, Chained
    <2> QED BY SMTT(30), <1>1, <1>2, <1>4, <1>5, <1>6, <1>9, <2>1, <2>2 DEF ThreadGrow, Creating
  <1>12. ASSUME NEW u \in Threads \ {t} PROVE ThreadGrow(u)'
    <2>1. ThreadGrow(u)
      BY SMTT(30) DEF GrowInv
    <2>2. pc'[u] \notin {"probe", "setkey"}
      BY <1>1, <1>6, Zenon DEF LockInv, Creating
    <2> QED BY ZenonT(30), <1>5, <1>6, <2>1, <2>2 DEF ThreadGrow
  <1> QED BY <1>10, <1>11, <1>12, Zenon DEF GrowInv

\* Writing the key of a claimed slot keeps the invariant: the key is new, and
\* no other thread probes.
LEMMA GrowSetKey ==
    ASSUME TypeOK, LockInv, GrowInv, NEW t \in Threads, CreateSetKey(t)
    PROVE  GrowInv'
  <1> DEFINE k == NewKey(t)
  <1>a. index[t] \in Slots /\ pc[t] = "setkey" /\ TableGrow /\ ThreadGrow(t)
    BY Zenon DEF TypeOK, CreateSetKey, GrowInv
  <1>1. UNCHANGED <<id, data, call, index>>
    BY Zenon DEF CreateSetKey
  <1>2. /\ key'[index[t]] = k
        /\ \A s \in Slots \ {index[t]} : key'[s] = key[s]
    BY <1>a, Zenon DEF CreateSetKey, TypeOK
  <1>3. pc'[t] = "setptrs" /\ \A u \in Threads \ {t} : pc'[u] = pc[u]
    BY Zenon DEF CreateSetKey, TypeOK, Move
  <1>4. \A u \in Threads \ {t} : pc[u] \notin {"probe", "setkey"}
    BY <1>a, Zenon DEF LockInv, Creating
  <1>5. k # NoKey
    BY SMTT(30), <1>a, CallOf, TableAssumption
  <1>6. /\ Chained(k, index[t])
        /\ id[index[t]] # 0
        /\ key[index[t]] = NoKey
        /\ \A s \in Slots : key[s] # k
    BY SMTT(30), <1>a DEF ThreadGrow
  <1>7. TableGrow'
    <2>1. \A s \in Slots : id'[s] = 0 => key'[s] = NoKey
      BY SMTT(30), <1>a, <1>1, <1>2, <1>6 DEF TableGrow
    <2>2. ASSUME NEW s \in Slots, key'[s] # NoKey PROVE Chained(key[s], s)'
      <3>1. Chained(key'[s], s)
        BY SMTT(30), <1>a, <1>2, <1>6, <2>2 DEF TableGrow
      <3> QED BY SMTT(30), <1>1, <3>1 DEF Chained
    <2>3. \A r, s \in Slots : key'[r] = key'[s] /\ key'[r] # NoKey => r = s
      BY <1>a, <1>2, <1>6 DEF TableGrow
    <2>4. data[index[t]] = Empty
      BY SMTT(30), <1>a, <1>6, TableAssumption DEF TableGrow, TypeOK
    <2>5. \A s \in Slots : data'[s] \in {Empty, key'[s]}
      BY <1>a, <1>1, <1>2, <2>4, Zenon DEF TableGrow
    <2> QED BY SMTT(30), <2>1, <2>2, <2>3, <2>5 DEF TableGrow
  <1>8. ThreadGrow(t)'
    <2>1. call'[t].op = "create"
      BY SMTT(30), <1>a, <1>1 DEF ThreadGrow, Creating
    <2> QED BY <1>3, <2>1, QuietThread, Zenon
  <1>9. ASSUME NEW u \in Threads \ {t} PROVE ThreadGrow(u)'
    <2>1. ThreadGrow(u) /\ pc'[u] = pc[u] /\ pc[u] \notin {"probe", "setkey"}
      BY <1>3, <1>4, Zenon DEF GrowInv
    <2>2. pc[u] = "write" => call[u].key # NoKey /\ index[u] \in Slots
      BY SMTT(30), CallOf, TableAssumption DEF TypeOK
    <2>3. pc'[u] = "write" => key'[index'[u]] = call'[u].key
      BY <1>1, <1>2, <1>6, <2>1, <2>2, Zenon DEF ThreadGrow
    <2> QED BY <1>1, <2>1, <2>3, Zenon DEF ThreadGrow
  <1> QED BY <1>7, <1>8, <1>9 DEF GrowInv

\* Without deletions every step keeps the probe sequences unbroken.
LEMMA GrowStep ==
    ASSUME GrowOnly
    PROVE  TypeOK /\ LockInv /\ GrowInv /\ [Next]_vars => GrowInv'
  <1> SUFFICES ASSUME TypeOK, LockInv, GrowInv, [Next]_vars PROVE GrowInv'
    BY Zenon
  <1>0. CASE UNCHANGED vars
    <2>1. TableGrow'
      BY SMTT(30), <1>0, TableFrame DEF vars, GrowInv, TableGrow
    <2>2. ASSUME NEW u \in Threads PROVE ThreadGrow(u)'
      BY <1>0, ThreadFrame, Zenon DEF vars, GrowInv
    <2> QED BY SMTT(30), <2>1, <2>2 DEF GrowInv
  <1>d. \A s \in Slots : data[s] \in {Empty, key[s]}
    BY Zenon DEF GrowInv, TableGrow
  <1>1. ASSUME NEW t \in Threads, NEW o \in Ops, NEW k \in Keys, NEW n \in Keys,
               Call(t, o, k, n)
        PROVE  GrowInv'
    <2>1. UNCHANGED <<id, key, data>>
      BY <1>1, Zenon DEF Call
    <2>2. /\ pc'[t] = IF o = "create" THEN "lock" ELSE "find"
          /\ call'[t].op = o
      BY <1>1, Zenon DEF Call, Move, TypeOK
    <2>3. o \in {"find", "put", "create"}
      BY Zenon DEF GrowOnly
    <2>4. ThreadGrow(t)'
      BY <2>2, <2>3, QuietThread, Zenon
    <2> QED BY ZenonT(30), <1>1, <1>d, <2>1, <2>4, GrowFrame
  <1>2. ASSUME NEW t \in Threads, Step(t)
        PROVE  GrowInv'
    <2>a. ThreadGrow(t) /\ index[t] \in Slots
      BY Zenon DEF GrowInv, TypeOK
    <2>b. /\ pc[t] \notin {"copy", "drop", "check", "clear"}
          /\ pc[t] # "idle" => call[t].op \in {"find", "put", "create"}
          /\ pc[t] \in Creating \cup {"lock", "created"} => call[t].op = "create"
      BY <2>a, Zenon DEF ThreadGrow
    <2>1. CASE FindHit(t)
      <3>1. UNCHANGED <<id, key, data>> /\ key[index[t]] = call[t].key
        BY <2>1, Zenon DEF FindHit, Matches
      <3>2. \/ pc'[t] = "idle"
            \/ /\ pc'[t] = "write" /\ call[t].op = "put"
               /\ call'[t] = call[t] /\ index'[t] = index[t]
        BY SMTT(30), <2>1, <2>b DEF FindHit, Move, Return, TypeOK
      <3>3. ThreadGrow(t)'
        BY <3>1, <3>2, Zenon DEF ThreadGrow, Creating
      <3> QED BY <1>2, <1>d, <3>1, <3>3, GrowFrame, Zenon
    <2>2. CASE FindNext(t)
      <3>1. UNCHANGED <<id, key, data>>
        BY SMTT(30), <2>2 DEF FindNext
      <3>2. ThreadGrow(t)'
        BY <2>2, <2>b, QuietThread, Zenon DEF FindNext, Move, Return, TypeOK, Creating
      <3> QED BY <1>2, <1>d, <3>1, <3>2, GrowFrame, Zenon
    <2>3. CASE FindMiss(t)
      <3>1. UNCHANGED <<id, key, data>>
        BY ZenonT(30), <2>3 DEF FindMiss
      <3>2. ThreadGrow(t)'
        BY <2>3, <2>b, QuietThread, Zenon DEF FindMiss, Move, Return, TypeOK, Creating
      <3> QED BY <1>2, <1>d, <3>1, <3>2, GrowFrame
    <2>4. CASE NotFound(t)
      <3>1. UNCHANGED <<id, key, data>>
        BY <2>4, Zenon DEF NotFound
      <3>2. ThreadGrow(t)'
        BY SMTT(30), <2>4, <2>b, QuietThread DEF NotFound, Move, Return, TypeOK, Creating
      <3> QED BY <1>2, <1>d, <3>1, <3>2, GrowFrame
    <2>5. CASE CreateLock(t)
      <3>1. UNCHANGED <<id, key, data, call>> /\ index'[t] = HashOf[NewKey(t)]
        BY SMTT(30), <2>5 DEF CreateLock, TypeOK
      <3>2. pc'[t] = "probe" /\ call'[t].op = "create" /\ NewKey(t)' = NewKey(t)
        BY SMTT(30), <2>5, <2>b, <3>1 DEF CreateLock, TypeOK, Move, NewKey
      <3>3. Between(HashOf[NewKey(t)], HashOf[NewKey(t)]) = {}
        BY SMTT(30), <2>5, CallOf, BetweenStart DEF CreateLock
      <3>4. ThreadGrow(t)'
        BY <3>1, <3>2, <3>3, Zenon DEF ThreadGrow, Chained, Creating
      <3> QED BY <1>2, <1>d, <3>1, <3>4, GrowFrame, Zenon
    <2>6. CASE CreateDuplicate(t)
      <3>1. UNCHANGED <<id, key, data>>
        BY <2>6, Zenon DEF CreateDuplicate
      <3>2. ThreadGrow(t)'
        BY SMTT(30), <2>6, <2>b, QuietThread DEF CreateDuplicate, Move, Return, TypeOK, Creating
      <3> QED BY <1>2, <1>d, <3>1, <3>2, GrowFrame
    <2>7. CASE CreateSkip(t)
      <3> DEFINE h == HashOf[NewKey(t)]
      <3>1. Between(h, After(index[t])) \subseteq Between(h, index[t]) \cup {index[t]}
        BY <2>7, <2>a, CallOf, BetweenStep, Zenon DEF CreateSkip
      <3>2. /\ UNCHANGED <<id, key, data, call, pc>>
            /\ index'[t] = After(index[t])
            /\ pc[t] = "probe"
        BY <2>7, Zenon DEF CreateSkip, TypeOK
      <3>3. NewKey(t)' = NewKey(t)
        BY SMTT(30), <3>2 DEF NewKey
      <3>4. \A r \in Between(h, index[t]) \cup {index[t]} :
                id[r] # 0 /\ key[r] # NewKey(t)
        BY <2>7, <2>a, Zenon DEF CreateSkip, ThreadGrow, Chained
      <3>5. \A r \in Between(h, After(index[t])) : id[r] # 0 /\ key[r] # NewKey(t)
        BY SMTT(30), <3>1, <3>4
      <3>6. ThreadGrow(t)'
        BY <2>b, <3>2, <3>3, <3>5, Zenon DEF ThreadGrow, Chained
      <3>7. UNCHANGED <<id, key, data>>
        BY <3>2, Zenon
      <3> HIDE DEF h
      <3> QED BY <1>2, <1>d, <3>7, <3>6, GrowFrame, Zenon
    <2>8. CASE CreateClaim(t)
      BY <2>8, GrowClaim, Zenon
    <2>9. CASE CreateSetKey(t)
      BY <2>9, GrowSetKey, Zenon
    <2>10. CASE CreateUnlock(t)
      <3>1. UNCHANGED <<id, key>>
        BY <2>10, Zenon DEF CreateUnlock
      <3>2. \A s \in Slots : data'[s] \in {Empty, key[s]}
        BY <2>10, <2>a, <1>d, Zenon DEF CreateUnlock, TypeOK
      <3>3. ThreadGrow(t)'
        BY <2>10, <2>b, QuietThread, Zenon DEF CreateUnlock, Move, TypeOK, Creating
      <3> QED BY <1>2, <3>1, <3>2, <3>3, GrowFrame, Zenon
    <2>11. CASE CreateReturn(t)
      <3>1. UNCHANGED <<id, key, data>>
        BY <2>11, Zenon DEF CreateReturn
      <3>2. ThreadGrow(t)'
        BY <2>11, <2>b, QuietThread, Zenon DEF CreateReturn, Move, Return, TypeOK, Creating
      <3> QED BY <1>2, <1>d, <3>1, <3>2, GrowFrame
    <2>12. CASE Write(t)
      <3>1. UNCHANGED <<id, key>>
        BY SMTT(30), <2>12 DEF Write
      <3>2. key[index[t]] = call[t].key
        BY <2>12, <2>a, Zenon DEF Write, ThreadGrow
      <3>3. \A s \in Slots : data'[s] \in {Empty, key[s]}
        BY <2>12, <2>a, <1>d, <3>2, Zenon DEF Write, TypeOK
      <3>4. ThreadGrow(t)'
        BY <2>12, QuietThread, Zenon DEF Write, Move, Return, TypeOK
      <3> QED BY <1>2, <3>1, <3>3, <3>4, GrowFrame
    <2> QED
      BY Zenon, <1>2, <2>b, <2>1, <2>2, <2>3, <2>4, <2>5, <2>6, <2>7, <2>8, <2>9, <2>10,
         <2>11, <2>12 DEF Step, RenameCopy, RenameDrop, DestroyCheck, DestroyClear
  <1> QED BY <1>0, <1>1, <1>2, Zenon DEF Next

\* create_object's duplicate check is enough for concurrent creators, as long
\* as nothing is ever deleted or renamed: a key names at most one object.
THEOREM NoDuplicatesWhenGrowing ==
    ASSUME GrowOnly
    PROVE  Spec => []NoDuplicates
  <1>1. GrowInv => NoDuplicates
    BY SMTT(30) DEF GrowInv, TableGrow, NoDuplicates
  <1> QED
    BY <1>1, TypeInit, TypeNext, LockInit, LockStep, GrowInit, GrowStep, PTL DEF Spec

\* Under the same condition a write through an open handle lands in the object
\* that has the key the handle was opened with.
THEOREM WritesLandWhenGrowing ==
    ASSUME GrowOnly
    PROVE  Spec => []ContentsOwn
  <1>1. GrowInv => ContentsOwn
    BY Zenon DEF GrowInv, TableGrow, ContentsOwn
  <1> QED
    BY <1>1, TypeInit, TypeNext, LockInit, LockStep, GrowInit, GrowStep, PTL DEF Spec

=============================================================================
