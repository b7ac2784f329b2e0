--------------------------- MODULE AbstractProofs ---------------------------
(***************************************************************************)
(* The two abstract specifications, for any constants: the address space,  *)
(* whose frames are never shared and whose TLB is never stale, and the     *)
(* store of keys and contents, which a crash brings back as it was saved.  *)
(***************************************************************************)
EXTENDS AddressSpace, KVStore, TLAPS

\* The inductive invariant.  Each conjunct needs the others: a shrink keeps the TLB
\* coherent because it drops the translations of exactly the pages that it frees.
SpaceInv == SpaceTypeOK /\ FramesOwned /\ TLBCoherent /\ NothingBeyond

\* A page is a segment and a page number.
LEMMA PageParts ==
    \A p \in Pages : p = <<p[1], p[2]>> /\ p[1] \in Segments /\ p[2] \in Nat
BY LayoutAssumption DEF Pages, Segments

\* The pages that a process starts with are pages.
LEMMA LoadedPages == Loaded \subseteq Pages
BY LayoutAssumption DEF Loaded, Pages, Segments

\* Nothing is mapped before a process is loaded.
LEMMA InitInv == Init => SpaceInv
<1> SUFFICES ASSUME Init PROVE SpaceInv
    OBVIOUS
<1>1. Mapped = {} /\ InUse = {}
    BY DEF Init, Mapped, InUse, NoFrame
<1>2. SpaceTypeOK
    BY Zenon DEF Init, SpaceTypeOK, NoFrame, Growing
<1>3. FramesOwned
    BY <1>1 DEF Init, FramesOwned
<1>4. TLBCoherent /\ NothingBeyond
    BY <1>1 DEF Init, TLBCoherent, NothingBeyond, NoFrame
<1> QED
    BY <1>2, <1>3, <1>4 DEF SpaceInv

\* Loading starts afresh, with one frame per loaded page.
LEMMA ExecInv == SpaceInv /\ Exec => SpaceInv'
<1> SUFFICES ASSUME SpaceInv, Exec PROVE SpaceInv'
    OBVIOUS
<1>1. PICK f \in [Loaded -> USER_REG] :
          /\ \A p, q \in Loaded : f[p] = f[q] => p = q
          /\ frame' = [p \in Pages |-> IF p \in Loaded THEN f[p] ELSE 0]
          /\ unused' = USER_REG \ {f[p] : p \in Loaded}
    BY DEF Exec, Load
<1>2. /\ tlb' = NoFrame
      /\ next_free' = [s \in Growing |-> IF s = "DATA" THEN 1 ELSE 0]
      /\ alive' = TRUE
    BY DEF Exec, Load
<1>3. Mapped' = Loaded
    BY <1>1, LoadedPages, LayoutAssumption DEF Mapped
<1>4. \A p \in Loaded : frame'[p] = f[p]
    BY <1>1, LoadedPages
<1>5. InUse' = {f[p] : p \in Loaded}
    BY <1>3, <1>4 DEF InUse
<1>6. SpaceTypeOK'
    BY <1>1, <1>2 DEF SpaceTypeOK, NoFrame, Growing
<1>7. FramesOwned'
    BY <1>1, <1>3, <1>4, <1>5 DEF FramesOwned
<1>8. TLBCoherent'
    BY <1>2 DEF TLBCoherent, NoFrame
<1>9. NothingBeyond'
    BY <1>2, <1>3 DEF NothingBeyond, Loaded, Growing
<1> QED
    BY <1>6, <1>7, <1>8, <1>9 DEF SpaceInv

\* An access changes the TLB only, and only to frames that the pages have.
LEMMA AccessInv == SpaceInv /\ Access => SpaceInv'
<1> SUFFICES ASSUME SpaceInv, Access PROVE SpaceInv'
    OBVIOUS
<1>1. SpaceTypeOK'
    BY DEF SpaceInv, SpaceTypeOK, Access
<1>2. FramesOwned' /\ NothingBeyond'
    BY DEF SpaceInv, FramesOwned, NothingBeyond, Access, Mapped, InUse
<1>3. TLBCoherent'
    BY DEF SpaceInv, TLBCoherent, Access
<1> QED
    BY <1>1, <1>2, <1>3 DEF SpaceInv

\* A fault gives a granted page an unused frame.
LEMMA FillInv == ASSUME NEW p \in Pages, SpaceInv, Fill(p) PROVE SpaceInv'
<1>1. PICK f \in unused : frame' = [frame EXCEPT ![p] = f] /\ unused' = unused \ {f}
    BY Zenon DEF Fill
<1>2. /\ frame[p] = 0
      /\ Granted(p)
      /\ UNCHANGED <<tlb, next_free, alive>>
    BY DEF Fill
<1>3. frame \in [Pages -> USER_REG \cup {0}] /\ f \in USER_REG /\ f # 0
    BY LayoutAssumption DEF SpaceInv, SpaceTypeOK
<1>4. /\ frame'[p] = f
      /\ \A q \in Pages \ {p} : frame'[q] = frame[q]
    BY <1>1, <1>3
<1>5. Mapped' = Mapped \cup {p}
    BY <1>1, <1>3, <1>4 DEF Mapped
<1>6. InUse' = InUse \cup {f}
    BY <1>2, <1>4, <1>5 DEF InUse, Mapped
<1>7. SpaceTypeOK'
    BY <1>1, <1>2, <1>3 DEF SpaceInv, SpaceTypeOK
<1>8. FramesOwned'
    <2>1. f \notin InUse
        BY DEF SpaceInv, FramesOwned
    <2>2. \A q \in Mapped : frame[q] \in InUse /\ q \in Pages
        BY DEF InUse, Mapped
    <2>3. \A q, r \in Mapped' : frame'[q] = frame'[r] => q = r
        BY <1>4, <1>5, <2>1, <2>2 DEF SpaceInv, FramesOwned
    <2>4. unused' = USER_REG \ InUse'
        BY <1>1, <1>6 DEF SpaceInv, FramesOwned
    <2> QED
        BY <2>3, <2>4 DEF FramesOwned
<1>9. TLBCoherent'
    BY <1>2, <1>4 DEF SpaceInv, TLBCoherent
<1>10. NothingBeyond'
    BY <1>2, <1>5 DEF SpaceInv, NothingBeyond, Granted, Growing
<1> QED
    BY <1>7, <1>8, <1>9, <1>10 DEF SpaceInv

\* expand only raises next_free.
LEMMA ExpandInv ==
    ASSUME NEW s \in Growing, NEW size \in 0 .. PAGES[s], SpaceInv, Expand(s, size)
    PROVE  SpaceInv'
<1>1. PAGES[s] \in Nat /\ size \in Nat
    BY LayoutAssumption DEF Growing
<1>2. next_free \in [Growing -> Nat]
    BY DEF SpaceInv, SpaceTypeOK
<1>3. /\ next_free' \in [Growing -> Nat]
      /\ \A r \in Growing : next_free'[r] >= next_free[r]
    BY <1>1, <1>2 DEF Expand
<1>4. SpaceTypeOK'
    BY <1>3 DEF SpaceInv, SpaceTypeOK, Expand
<1>5. FramesOwned' /\ TLBCoherent'
    BY DEF SpaceInv, FramesOwned, TLBCoherent, Expand, Mapped, InUse
<1>6. NothingBeyond'
    <2>1. Mapped' = Mapped
        BY DEF Mapped, Expand
    <2>2. \A p \in Mapped : p[2] \in Nat
        BY PageParts DEF Mapped
    <2> QED
        BY <1>2, <1>3, <2>1, <2>2 DEF SpaceInv, NothingBeyond
<1> QED
    BY <1>4, <1>5, <1>6 DEF SpaceInv

\* shrink returns the frames of the pages it cuts off, and their translations go.
LEMMA ShrinkInv ==
    ASSUME NEW s \in Growing, NEW size \in 0 .. PAGES[s], SpaceInv, Shrink(s, size)
    PROVE  SpaceInv'
<1> DEFINE cut == Cut(s, size)
<1>1. PAGES[s] \in Nat /\ size \in Nat
    BY LayoutAssumption DEF Growing
<1>2. next_free \in [Growing -> Nat] /\ frame \in [Pages -> USER_REG \cup {0}]
    BY DEF SpaceInv, SpaceTypeOK
<1>3. /\ next_free' = [next_free EXCEPT ![s] = @ - size]
      /\ next_free[s] >= size
      /\ frame' = [p \in Pages |-> IF p \in cut THEN 0 ELSE frame[p]]
      /\ tlb' = [p \in Pages |-> IF p \in cut THEN 0 ELSE tlb[p]]
      /\ unused' = unused \cup {frame[p] : p \in cut \cap Mapped}
      /\ alive' = alive
    BY DEF Shrink
<1>4. cut \subseteq Pages
    BY DEF Cut
<1>5. Mapped' = Mapped \ cut
    BY <1>3 DEF Mapped
<1>6. \A p \in Mapped \ cut : frame'[p] = frame[p]
    BY <1>3 DEF Mapped
<1>7. SpaceTypeOK'
    <2>1. next_free' \in [Growing -> Nat]
        BY <1>1, <1>2, <1>3
    <2>2. \A p \in Mapped : frame[p] \in USER_REG
        BY <1>2 DEF Mapped
    <2>3. unused' \subseteq USER_REG
        BY <1>3, <2>2 DEF SpaceInv, SpaceTypeOK
    <2> QED
        BY <1>3, <2>1, <2>3 DEF SpaceInv, SpaceTypeOK
<1>8. FramesOwned'
    <2> HIDE DEF cut
    <2>1. InUse' = {frame[p] : p \in Mapped \ cut}
        BY <1>5, <1>6 DEF InUse
    <2>2. \A p, q \in Mapped : frame[p] = frame[q] => p = q
        BY DEF SpaceInv, FramesOwned
    <2>3. unused = USER_REG \ {frame[p] : p \in Mapped}
        BY DEF SpaceInv, FramesOwned, InUse
    <2>4. \A p \in Mapped : frame[p] \in USER_REG
        BY <1>2 DEF Mapped
    <2>5. unused' = USER_REG \ InUse'
        BY <1>3, <2>1, <2>2, <2>3, <2>4
    <2> QED
        BY <1>5, <1>6, <2>2, <2>5 DEF FramesOwned
<1>9. TLBCoherent'
    BY <1>3, <1>4 DEF SpaceInv, TLBCoherent
<1>10. NothingBeyond'
    <2> SUFFICES ASSUME NEW p \in Mapped', p[1] \in Growing
                 PROVE  p[2] < next_free'[p[1]]
        BY DEF NothingBeyond
    <2>1. p \in Mapped /\ p \notin cut /\ p \in Pages /\ p[2] \in Nat
        BY <1>5, PageParts DEF Mapped
    <2>2. p[2] < next_free[p[1]]
        BY <2>1 DEF SpaceInv, NothingBeyond
    <2>3. CASE p[1] = s
        BY <1>1, <1>2, <1>3, <2>1, <2>2, <2>3 DEF Cut
    <2>4. CASE p[1] # s
        BY <1>2, <1>3, <2>2, <2>4
    <2> QED
        BY <2>3, <2>4
<1> QED
    BY <1>7, <1>8, <1>9, <1>10 DEF SpaceInv

\* exit returns every frame.
LEMMA ExitInv == SpaceInv /\ Exit => SpaceInv'
<1> SUFFICES ASSUME SpaceInv, Exit PROVE SpaceInv'
    OBVIOUS
<1>1. Mapped' = {} /\ InUse' = {}
    BY DEF Exit, Mapped, InUse, NoFrame
<1>2. InUse \subseteq USER_REG
    BY DEF SpaceInv, SpaceTypeOK, InUse, Mapped
<1>3. unused' = USER_REG
    BY <1>2 DEF SpaceInv, FramesOwned, Exit
<1>4. SpaceTypeOK'
    BY <1>3, Zenon DEF Exit, SpaceTypeOK, NoFrame
<1>5. FramesOwned' /\ TLBCoherent' /\ NothingBeyond'
    BY <1>1, <1>3 DEF Exit, FramesOwned, TLBCoherent, NothingBeyond, NoFrame
<1> QED
    BY <1>4, <1>5 DEF SpaceInv

\* A step that changes no variable keeps the invariant.
LEMMA StutterInv == SpaceInv /\ UNCHANGED spaceVars => SpaceInv'
BY DEF SpaceInv, SpaceTypeOK, FramesOwned, TLBCoherent, NothingBeyond, Mapped,
       InUse, spaceVars

\* The invariant holds in every state.
THEOREM SpaceCorrect == Spec => []SpaceInv
<1>1. SpaceInv /\ [Next]_spaceVars => SpaceInv'
    BY ExecInv, AccessInv, FillInv, ExpandInv, ShrinkInv, ExitInv, StutterInv
    DEF Next
<1> QED
    BY InitInv, <1>1, PTL DEF Spec

\* No two pages of a process share a frame, and no frame is lost: what shrink and
\* exit give back is what was handed out.
THEOREM FramesNeverShared == Spec => []FramesOwned
<1>1. SpaceInv => FramesOwned
    BY DEF SpaceInv
<1> QED
    BY SpaceCorrect, <1>1, PTL

\* A page that was given up cannot be reached through an old translation.
THEOREM TLBNeverStale == Spec => []TLBCoherent
<1>1. SpaceInv => TLBCoherent
    BY DEF SpaceInv
<1> QED
    BY SpaceCorrect, <1>1, PTL

\* Data and read-only segments have no frames beyond next_free.
THEOREM NothingMappedBeyond == Spec => []NothingBeyond
<1>1. SpaceInv => NothingBeyond
    BY DEF SpaceInv
<1> QED
    BY SpaceCorrect, <1>1, PTL

-----------------------------------------------------------------------------

\* Each object has an origin, and the disk keeps what survives.
KVInv == DOMAIN origin = DOMAIN store /\ CrashKeeps

\* The store starts empty.
LEMMA KVInitInv == KVInit => KVInv
  BY DEF KVInit, KVInv, CrashKeeps, Surviving

\* If nothing new survives and what survives is left alone on disk, CrashKeeps
\* is kept.
LEMMA KeepsStable ==
    ASSUME CrashKeeps, Surviving' \subseteq Surviving, UNCHANGED synced,
           SavedSurvives
    PROVE  CrashKeeps'
  BY DEF CrashKeeps, SavedSurvives

\* Creating an object adds no origin.
LEMMA CreateInv == ASSUME KVInv, NEW k \in Keys, Create(k) PROVE KVInv'
  <1>1. Surviving' \subseteq Surviving
    BY Zenon DEF Create, Surviving, Put
  <1>2. SavedSurvives
    BY DEF Create, SavedSurvives
  <1>3. CrashKeeps'
    BY <1>1, <1>2, KeepsStable DEF KVInv, Create
  <1> QED
    BY <1>3 DEF KVInv, Create, Put

\* A write changes one object and, on disk, removed ones only.
LEMMA OverwriteInv ==
    ASSUME KVInv, NEW k, NEW off, NEW data, Overwrite(k, off, data)
    PROVE  KVInv'
  <1>1. Surviving' = Surviving
    BY DEF Overwrite, Surviving
  <1>2. CrashKeeps'
    BY <1>1, KeepsStable DEF KVInv, Overwrite
  <1> QED
    BY <1>2 DEF KVInv, Overwrite

\* Removing an object drops its origin.
LEMMA RemoveInv == ASSUME KVInv, NEW k \in Keys, Remove(k) PROVE KVInv'
  <1>1. Surviving' \subseteq Surviving
    BY DEF Remove, Surviving, Drop
  <1>2. SavedSurvives
    BY DEF Remove, SavedSurvives
  <1>3. CrashKeeps'
    BY <1>1, <1>2, KeepsStable DEF KVInv, Remove
  <1> QED
    BY <1>3 DEF KVInv, Remove, Drop

\* Renaming an object moves its origin.
LEMMA RenameInv == ASSUME KVInv, NEW k \in Keys, NEW l \in Keys, Rename(k, l) PROVE KVInv'
  <1>1. Surviving' \subseteq Surviving
    BY Zenon DEF KVInv, Rename, Surviving, Drop, Put
  <1>2. SavedSurvives
    BY DEF Rename, SavedSurvives
  <1>3. CrashKeeps'
    BY <1>1, <1>2, KeepsStable DEF KVInv, Rename
  <1> QED
    BY <1>3 DEF KVInv, Rename, Drop, Put

\* After a mount the disk has exactly what the objects come from.
LEMMA MountInv == ASSUME Remount \/ Crash PROVE KVInv'
  <1>1. /\ DOMAIN origin' = DOMAIN store'
        /\ \A k \in DOMAIN store' : origin'[k] = k
        /\ saved' = store'
        /\ synced' = store'
    BY DEF Remount, Crash, Identity
  <1> QED
    BY <1>1 DEF KVInv, CrashKeeps, Surviving

\* No step of the store breaks the invariant.
LEMMA KVNextInv == KVInv /\ [KVNext]_kvVars => KVInv'
  <1> SUFFICES ASSUME KVInv, [KVNext]_kvVars PROVE KVInv'
    OBVIOUS
  <1>1. CASE \E k \in Keys : Create(k) \/ Remove(k)
    BY <1>1, CreateInv, RemoveInv
  <1>2. CASE \E k, l \in Keys : Rename(k, l)
    BY <1>2, RenameInv
  <1>3. CASE \E k \in DOMAIN store, buf \in Bufs : \E off \in 0 .. Len(store[k]) :
                 Write(k, off, buf) \/ WriteShort(k, off, buf)
    BY <1>3, OverwriteInv, Zenon DEF Write, WriteShort
  <1>4. CASE Remount \/ Crash
    BY <1>4, MountInv
  <1>5. CASE UNCHANGED kvVars
    BY <1>5 DEF kvVars, KVInv, CrashKeeps, Surviving
  <1> QED
    BY <1>1, <1>2, <1>3, <1>4, <1>5 DEF KVNext

\* At any time the disk has every object that survives as the last unmount saved
\* it, so that a crash brings it back.
THEOREM CrashSafe == KVSpec => []CrashKeeps
  <1>1. KVInv => CrashKeeps
    BY DEF KVInv
  <1> QED
    BY <1>1, KVInitInv, KVNextInv, PTL DEF KVSpec

\* A crash restores each object that came from the last unmount and is still
\* there, under the key that it had then.
THEOREM CrashRestores ==
    KVSpec => [][Crash => \A k \in Surviving : k \in DOMAIN store' /\ store'[k] = synced[k]]_kvVars
  <1>1. KVInv /\ [KVNext]_kvVars
            => [Crash => \A k \in Surviving : k \in DOMAIN store' /\ store'[k] = synced[k]]_kvVars
    BY DEF KVInv, CrashKeeps, Crash
  <1> QED
    BY <1>1, KVInitInv, KVNextInv, PTL DEF KVSpec

=============================================================================
