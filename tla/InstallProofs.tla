--------------------------- MODULE InstallProofs ----------------------------
(* What putting things in place guarantees: the library packs, the catalog *)
(* and the application itself.                                             *)
EXTENDS PackManager, CatalogInstall, Updater, FiniteSetTheorems, TLAPS

-----------------------------------------------------------------------------
(* What the manager of library packs guarantees, however many packs, leases *)
(* and crashes there are.                                                   *)

USE DEF Dirs, NoDir

-----------------------------------------------------------------------------
(* The inductive invariant *)

PackTypes ==
    /\ PackTypeOK
    /\ closed \in BOOLEAN /\ running \in BOOLEAN /\ unsynced \in BOOLEAN
    /\ made \in 0..MaxDirs
    \* a generation that will be made next is new to all
    /\ record \in 0..made /\ active \in 0..made /\ target \in 0..made
    /\ dirs \subseteq 1..made /\ retired \subseteq 1..made

\* Who keeps an entry from being cleaned up, besides its being active: its
\* leases, and an archive that turned out to be the active generation.
Holders(d) == {l \in Leases : lease[l] = d}
Counted ==
    \A d \in Dirs :
        /\ IsFiniteSet(Holders(d))
        /\ refs[d] = Cardinality(Holders(d)) + (IF phase = "same" /\ target = d THEN 1 ELSE 0)

\* The active generation is open and not on its way out.
ActiveStays ==
    active # NoDir =>
        /\ active \in opened \cap dirs /\ active \notin retired
        /\ running /\ ~closed

\* A generation that is about to become active is nobody's yet.
StagedIsFresh ==
    /\ phase \in {"same", "staged"} => target # NoDir
    /\ phase \in {"staged", "swap"} /\ target # NoDir =>
        /\ target \in opened \cap dirs /\ target \notin retired
        /\ target # active
        /\ \A l \in Leases : lease[l] # target

\* Between two runs of the program memory is empty.
NothingInMemory ==
    ~running => phase = "free" /\ retired = {} /\ \A l \in Leases : lease[l] = NoDir

\* What the record names is not to be removed: it is written before the old
\* generation is given up.
RecordStays ==
    /\ doomed \subseteq retired
    /\ phase = "staged" => record # target
    /\ phase = "swap" => record = target
    /\ ~unsynced => record \notin doomed

PackInv ==
    /\ PackTypes /\ Counted /\ PinnedIsWhole /\ ActiveStays /\ StagedIsFresh
    /\ NothingInMemory /\ RecordStays /\ RecordOpens

USE PacksAssumption

USE DEF onDisk, entries, managed, mutation

-----------------------------------------------------------------------------
(* PackTypes *)

\* Whoever gives a reference back has one.
LEMMA HolderIsCounted ==
    ASSUME PackTypeOK, Counted, NEW l \in Leases, lease[l] # NoDir
    PROVE  refs[lease[l]] >= 1
  <1> DEFINE S == Holders(lease[l])
  <1>1. lease[l] \in Dirs /\ l \in S
    BY DEF PackTypeOK, Holders
  <1>2. IsFiniteSet(S) /\ refs[lease[l]] >= Cardinality(S)
    <2>1. Cardinality(S) \in Nat
      BY <1>1, FS_CardinalityType DEF Counted
    <2> QED
      BY <1>1, <2>1 DEF Counted
  <1>3. Cardinality(S) \in Nat /\ Cardinality(S) # 0
    BY <1>1, <1>2, FS_EmptySet, FS_CardinalityType
  <1> QED
    BY <1>1, <1>2, <1>3 DEF PackTypeOK

LEMMA SameIsCounted ==
    ASSUME PackTypeOK, Counted, phase = "same", target # NoDir
    PROVE  refs[target] >= 1
  <1>1. target \in Dirs /\ Cardinality(Holders(target)) \in Nat
    BY FS_CardinalityType DEF PackTypeOK, Counted
  <1> QED
    BY <1>1 DEF Counted

LEMMA PackTypesStep == PackInv /\ [PackNext]_packVars => PackTypes'
  <1> SUFFICES ASSUME PackInv, [PackNext]_packVars
               PROVE  PackTypes'
    OBVIOUS
  <1> USE DEF PackInv, PackTypes, PackTypeOK
  <1>1. ASSUME NEW d \in Dirs, Sweep(d)
        PROVE  PackTypes'
    BY <1>1 DEF Sweep
  <1>2. ASSUME NEW l \in Leases, Pin(l)
        PROVE  PackTypes'
    <2>1. active \in Dirs
      BY <1>2 DEF Pin
    <2>2. refs' \in [Dirs -> Nat]
      BY <1>2, <2>1 DEF Pin
    <2>3. lease' \in [Leases -> Dirs \cup {NoDir}]
      BY <1>2, <2>1 DEF Pin
    <2> QED
      BY <1>2, <2>2, <2>3 DEF Pin
  <1>3. ASSUME NEW l \in Leases, Release(l)
        PROVE  PackTypes'
    <2>1. refs[lease[l]] >= 1 /\ lease[l] \in Dirs
      BY <1>3, HolderIsCounted DEF Release
    <2>2. refs' \in [Dirs -> Nat]
      BY <1>3, <2>1 DEF Release, Unref
    <2> QED
      BY <1>3, <2>1, <2>2 DEF Release, Unref
  <1>4. CASE StageSame
    BY <1>4 DEF StageSame
  <1>5. CASE Stage
    BY <1>5 DEF Stage
  <1>6. CASE EndSame
    <2>1. refs[target] >= 1 /\ target \in Dirs
      BY <1>6, SameIsCounted DEF EndSame, StagedIsFresh
    <2>2. refs' \in [Dirs -> Nat]
      BY <1>6, <2>1 DEF EndSame, Unref
    <2> QED
      BY <1>6, <2>1, <2>2 DEF EndSame, Unref
  <1>7. CASE DropStaged
    BY <1>7 DEF DropStaged
  <1>8. CASE Publish
    BY <1>8 DEF Publish
  <1>9. CASE PublishFails
    <2>1. unsynced' \in BOOLEAN
      BY <1>9 DEF PublishFails
    <2>2. record' \in {record, target}
      BY <1>9 DEF PublishFails
    <2>3. UNCHANGED <<pack, made, refs, retired, doomed, sweeping, managed, lease>> /\ dirs' \subseteq dirs /\ opened' \subseteq opened /\ phase' = "free" /\ target' = NoDir
      BY <1>9 DEF PublishFails
    <2> QED
      BY <2>1, <2>2, <2>3
  <1>10. CASE PublishEmpty
    BY <1>10 DEF PublishEmpty
  <1>11. CASE SwapClosed
    BY <1>11 DEF SwapClosed
  <1>12. CASE Swap
    BY <1>12 DEF Swap, Retire
  <1>13. CASE CloseManager
    BY <1>13 DEF CloseManager, Retire
  <1>14. CASE PackProgramEnds
    <2>1. running' \in BOOLEAN /\ closed' \in BOOLEAN /\ unsynced' \in BOOLEAN
      BY <1>14 DEF PackProgramEnds
    <2>2. refs' \in [Dirs -> Nat] /\ lease' \in [Leases -> Dirs \cup {NoDir}]
      BY <1>14 DEF PackProgramEnds
    <2>3. opened' = {} /\ retired' = {} /\ doomed' = {} /\ sweeping' = {} /\ active' = 0 /\ phase' = "free" /\ target' = 0 /\ UNCHANGED onDisk
      BY <1>14 DEF PackProgramEnds
    <2> QED
      BY <2>1, <2>2, <2>3
  <1>15. CASE OpenManager
    BY <1>15 DEF OpenManager
  <1>16. CASE UNCHANGED packVars
    BY <1>16 DEF packVars
  <1>17. CASE PublishEmptyFails
    BY <1>17 DEF PublishEmptyFails
  <1> QED
    BY <1>1, <1>2, <1>3, <1>4, <1>5, <1>6, <1>7, <1>8, <1>9, <1>10, <1>11, <1>12, <1>13,
       <1>14, <1>15, <1>16, <1>17 DEF PackNext, CannotOpen

-----------------------------------------------------------------------------
(* References *)

\* A lease that is taken adds itself to the holders of what it takes.
LEMMA PinCounts ==
    ASSUME PackTypes, Counted, NEW l \in Leases, lease[l] = NoDir, active # NoDir,
           lease' = [lease EXCEPT ![l] = active],
           refs' = [refs EXCEPT ![active] = @ + 1],
           UNCHANGED mutation
    PROVE  Counted'
  <1> USE DEF PackTypes, PackTypeOK
  <1> SUFFICES ASSUME NEW d \in Dirs
               PROVE  Counted!(d)'
    BY DEF Counted
  <1>1. IsFiniteSet(Holders(d)) /\ Cardinality(Holders(d)) \in Nat
    BY FS_CardinalityType DEF Counted
  <1>2. CASE d = active
    <2>1. Holders(d)' = Holders(d) \cup {l} /\ l \notin Holders(d)
      BY <1>2 DEF Holders
    <2>2. IsFiniteSet(Holders(d)') /\ Cardinality(Holders(d)') = Cardinality(Holders(d)) + 1
      BY <1>1, <2>1, FS_AddElement
    <2> QED
      BY <1>1, <1>2, <2>2 DEF Counted
  <1>3. CASE d # active
    <2>1. Holders(d)' = Holders(d)
      BY <1>3 DEF Holders
    <2> QED
      BY <1>3, <2>1 DEF Counted
  <1> QED
    BY <1>2, <1>3

\* A lease that is released takes itself away.
LEMMA ReleaseCounts ==
    ASSUME PackTypes, Counted, NEW l \in Leases, Release(l)
    PROVE  Counted'
  <1> USE DEF PackTypes, PackTypeOK, Release, Unref
  <1> SUFFICES ASSUME NEW d \in Dirs
               PROVE  Counted!(d)'
    BY DEF Counted
  <1>1. IsFiniteSet(Holders(d)) /\ Cardinality(Holders(d)) \in Nat
    BY FS_CardinalityType DEF Counted
  <1>2. CASE d = lease[l]
    <2>1. Holders(d)' = Holders(d) \ {l} /\ l \in Holders(d)
      BY <1>2 DEF Holders
    <2>2. IsFiniteSet(Holders(d)') /\ Cardinality(Holders(d)') = Cardinality(Holders(d)) - 1
      BY <1>1, <2>1, FS_RemoveElement
    <2> QED
      BY <1>1, <1>2, <2>2 DEF Counted
  <1>3. CASE d # lease[l]
    <2>1. Holders(d)' = Holders(d)
      BY <1>3 DEF Holders
    <2> QED
      BY <1>3, <2>1 DEF Counted
  <1> QED
    BY <1>2, <1>3

LEMMA CountedStep == PackInv /\ [PackNext]_packVars => Counted'
  <1> SUFFICES ASSUME PackInv, [PackNext]_packVars
               PROVE  Counted'
    OBVIOUS
  <1> USE DEF PackInv, PackTypes, PackTypeOK
  <1>1. ASSUME NEW l \in Leases, Pin(l)
        PROVE  Counted'
    BY <1>1, PinCounts DEF Pin
  <1>2. ASSUME NEW l \in Leases, Release(l)
        PROVE  Counted'
    BY <1>2, ReleaseCounts
  <1> DEFINE Finite(d) == IsFiniteSet(Holders(d)) /\ Cardinality(Holders(d)) \in Nat
  <1>3. \A d \in Dirs : Finite(d)
    BY FS_CardinalityType DEF Counted
  <1>4. ASSUME UNCHANGED lease
        PROVE  \A d \in Dirs : Holders(d)' = Holders(d)
    BY <1>4 DEF Holders
  <1>5. CASE StageSame
    BY <1>3, <1>4, <1>5 DEF StageSame, Counted
  <1>6. CASE EndSame
    <2>1. target \in Dirs
      BY <1>6 DEF EndSame, StagedIsFresh
    <2> QED
      BY <1>3, <1>4, <1>6, <2>1 DEF EndSame, Unref, Counted
  <1>7. ASSUME UNCHANGED <<refs, lease>>, phase # "same", phase' # "same"
        PROVE  Counted'
    BY <1>4, <1>7 DEF Counted
  <1>8. CASE Stage \/ DropStaged \/ Publish \/ PublishFails \/ PublishEmpty
    BY <1>7, <1>8 DEF Stage, DropStaged, Publish, PublishFails, PublishEmpty
  <1>9. CASE SwapClosed \/ Swap
    BY <1>7, <1>9 DEF SwapClosed, Swap
  <1>10. ASSUME UNCHANGED <<refs, lease, phase, target>>
         PROVE  Counted'
    BY <1>4, <1>10 DEF Counted
  <1>11. CASE OpenManager \/ CloseManager \/ PublishEmptyFails \/ UNCHANGED packVars
    BY <1>10, <1>11 DEF OpenManager, CloseManager, PublishEmptyFails, packVars
  <1>12. ASSUME NEW d \in Dirs, Sweep(d)
         PROVE  Counted'
    BY <1>10, <1>12 DEF Sweep
  <1>13. CASE PackProgramEnds
    <2> SUFFICES ASSUME NEW d \in Dirs
                 PROVE  Counted!(d)'
      BY DEF Counted
    <2>1. Holders(d)' = {}
      BY <1>13 DEF PackProgramEnds, Holders
    <2>2. phase' = "free" /\ refs'[d] = 0
      BY <1>13 DEF PackProgramEnds
    <2>3. IsFiniteSet(Holders(d)') /\ Cardinality(Holders(d)') = 0
      BY <2>1, FS_EmptySet
    <2> QED
      BY <2>2, <2>3
  <1> QED
    BY <1>1, <1>2, <1>5, <1>6, <1>8, <1>9, <1>11, <1>12, <1>13 DEF PackNext, CannotOpen

-----------------------------------------------------------------------------
(* What is kept *)

\* Nothing with holders is swept.
LEMMA SweptIsUnheld ==
    ASSUME PackInv, NEW d \in Dirs, Cleanable(d)
    PROVE  (\A l \in Leases : lease[l] # d) /\ active # d
  <1>1. IsFiniteSet(Holders(d)) /\ Cardinality(Holders(d)) \in Nat
    BY FS_CardinalityType DEF PackInv, Counted
  <1>2. Cardinality(Holders(d)) = 0
    BY <1>1 DEF PackInv, Counted, Cleanable
  <1>3. Holders(d) = {}
    BY <1>1, <1>2, FS_EmptySet
  <1> QED
    BY <1>3 DEF Holders, PackInv, ActiveStays, Cleanable

LEMMA PinnedStep == PackInv /\ [PackNext]_packVars => PinnedIsWhole'
  <1> SUFFICES ASSUME PackInv, [PackNext]_packVars, NEW m \in Leases, lease'[m] # NoDir
               PROVE  lease'[m] \in opened' \cap dirs'
    BY DEF PinnedIsWhole
  <1> USE DEF PackInv, PackTypes, PackTypeOK
  <1>1. ASSUME lease'[m] = lease[m], opened \subseteq opened', dirs \subseteq dirs'
        PROVE  lease'[m] \in opened' \cap dirs'
    BY <1>1 DEF PinnedIsWhole
  <1>2. ASSUME NEW d \in Dirs, Sweep(d)
        PROVE  lease'[m] \in opened' \cap dirs'
    BY <1>2, SweptIsUnheld DEF Sweep, PinnedIsWhole
  <1>3. ASSUME NEW l \in Leases, Pin(l)
        PROVE  lease'[m] \in opened' \cap dirs'
    BY <1>3 DEF Pin, PinnedIsWhole, ActiveStays
  <1>4. ASSUME NEW l \in Leases, Release(l)
        PROVE  lease'[m] \in opened' \cap dirs'
    BY <1>4 DEF Release, PinnedIsWhole
  <1>5. CASE StageSame \/ Stage \/ EndSame \/ Publish \/ PublishEmpty \/ PublishEmptyFails
    BY <1>1, <1>5 DEF StageSame, Stage, EndSame, Publish, PublishEmpty, PublishEmptyFails
  <1>6. CASE Swap \/ CloseManager \/ UNCHANGED packVars
    BY <1>1, <1>6 DEF Swap, CloseManager, packVars
  <1>7. CASE DropStaged \/ PublishFails
    <2>1. lease[m] # target /\ lease'[m] = lease[m]
      BY <1>7 DEF DropStaged, PublishFails, StagedIsFresh
    <2>2. opened' = opened \ {target} /\ dirs' = dirs \ {target}
      BY <1>7 DEF DropStaged, PublishFails
    <2> QED
      BY <2>1, <2>2 DEF PinnedIsWhole
  <1>8. CASE SwapClosed
    BY <1>8 DEF SwapClosed, StagedIsFresh, PinnedIsWhole
  <1>9. CASE PackProgramEnds
    BY <1>9 DEF PackProgramEnds
  <1>10. CASE OpenManager
    BY <1>10 DEF OpenManager, NothingInMemory
  <1> QED
    BY <1>2, <1>3, <1>4, <1>5, <1>6, <1>7, <1>8, <1>9, <1>10 DEF PackNext, CannotOpen

LEMMA ActiveStep == PackInv /\ [PackNext]_packVars => ActiveStays'
  <1> SUFFICES ASSUME PackInv, [PackNext]_packVars
               PROVE  ActiveStays'
    OBVIOUS
  <1> USE DEF PackInv, PackTypes, PackTypeOK
  <1>1. ASSUME UNCHANGED <<managed, retired>>, opened \subseteq opened', dirs \subseteq dirs'
        PROVE  ActiveStays'
    BY <1>1 DEF ActiveStays
  <1>2. ASSUME NEW d \in Dirs, Sweep(d)
        PROVE  ActiveStays'
    BY <1>2, SweptIsUnheld DEF Sweep, ActiveStays
  <1>3. ASSUME NEW l \in Leases, Pin(l) \/ Release(l)
        PROVE  ActiveStays'
    BY <1>1, <1>3 DEF Pin, Release
  <1>4. CASE StageSame \/ Stage \/ EndSame \/ Publish \/ PublishEmpty \/ PublishEmptyFails
    BY <1>1, <1>4 DEF StageSame, Stage, EndSame, Publish, PublishEmpty, PublishEmptyFails
  <1>5. ASSUME UNCHANGED <<managed, retired>>, active # target,
               opened' = opened \ {target}, dirs' \in {dirs, dirs \ {target}}
        PROVE  ActiveStays'
    BY <1>5 DEF ActiveStays
  <1>6. CASE DropStaged \/ PublishFails
    BY <1>5, <1>6 DEF DropStaged, PublishFails, StagedIsFresh
  <1>7. CASE SwapClosed
    <2>1. closed /\ UNCHANGED active
      BY <1>7 DEF SwapClosed
    <2> QED
      BY <2>1 DEF ActiveStays
  <1>8. CASE Swap
    <2>1. active' = target /\ UNCHANGED <<opened, dirs, running, closed>>
      BY <1>8 DEF Swap
    <2>2. running /\ ~closed /\ phase = "swap"
      BY <1>8 DEF Swap
    <2>3. retired' \subseteq retired \cup {active}
      BY <1>8 DEF Swap, Retire
    <2> QED
      BY <2>1, <2>2, <2>3 DEF ActiveStays, StagedIsFresh
  <1>9. CASE CloseManager \/ PackProgramEnds
    BY <1>9 DEF CloseManager, PackProgramEnds, ActiveStays
  <1>10. CASE OpenManager
    BY <1>10 DEF OpenManager, ActiveStays, NothingInMemory
  <1>11. CASE UNCHANGED packVars
    BY <1>1, <1>11 DEF packVars
  <1> QED
    BY <1>2, <1>3, <1>4, <1>6, <1>7, <1>8, <1>9, <1>10, <1>11 DEF PackNext, CannotOpen

LEMMA FreshStep == PackInv /\ [PackNext]_packVars => StagedIsFresh'
  <1> SUFFICES ASSUME PackInv, [PackNext]_packVars
               PROVE  StagedIsFresh'
    OBVIOUS
  <1> USE DEF PackInv, PackTypes, PackTypeOK
  <1>1. ASSUME phase' = "free"
        PROVE  StagedIsFresh'
    BY <1>1 DEF StagedIsFresh
  <1>2. CASE EndSame \/ DropStaged \/ PublishFails \/ SwapClosed \/ Swap \/ PackProgramEnds
    BY <1>1, <1>2 DEF EndSame, DropStaged, PublishFails, SwapClosed, Swap, PackProgramEnds
  <1>3. ASSUME NEW d \in Dirs, Sweep(d)
        PROVE  StagedIsFresh'
    BY <1>3 DEF Sweep, Cleanable, StagedIsFresh
  <1>4. ASSUME NEW l \in Leases, Pin(l)
        PROVE  StagedIsFresh'
    BY <1>4 DEF Pin, StagedIsFresh
  <1>5. ASSUME NEW l \in Leases, Release(l)
        PROVE  StagedIsFresh'
    BY <1>5 DEF Release, StagedIsFresh
  <1>6. CASE StageSame \/ PublishEmpty \/ PublishEmptyFails
    BY <1>6 DEF StageSame, PublishEmpty, PublishEmptyFails, StagedIsFresh
  <1>7. CASE Stage
    <2>1. made + 1 \notin retired /\ made + 1 # active
      OBVIOUS
    <2>2. \A l \in Leases : lease[l] # made + 1
      BY DEF PinnedIsWhole
    <2>3. target' = made + 1 /\ phase' = "staged" /\ target' \in opened' \cap dirs'
          /\ UNCHANGED <<retired, active, lease>>
      BY <1>7 DEF Stage
    <2> QED
      BY <2>1, <2>2, <2>3 DEF StagedIsFresh
  <1>8. CASE Publish
    BY <1>8 DEF Publish, StagedIsFresh
  <1>9. CASE CloseManager
    BY <1>9 DEF CloseManager, Retire, StagedIsFresh
  <1>10. CASE OpenManager
    BY <1>1, <1>10 DEF OpenManager, NothingInMemory
  <1>11. CASE UNCHANGED packVars
    BY <1>11 DEF packVars, StagedIsFresh
  <1> QED
    BY <1>2, <1>3, <1>4, <1>5, <1>6, <1>7, <1>8, <1>9, <1>10, <1>11 DEF PackNext, CannotOpen

LEMMA MemoryStep == PackInv /\ [PackNext]_packVars => NothingInMemory'
  <1> SUFFICES ASSUME PackInv, [PackNext]_packVars, ~running'
               PROVE  NothingInMemory'
    BY DEF NothingInMemory
  <1> USE DEF PackInv, PackTypes, PackTypeOK
  <1>1. CASE PackProgramEnds
    BY <1>1 DEF PackProgramEnds, NothingInMemory
  <1>2. ASSUME NEW d \in Dirs, Sweep(d)
        PROVE  NothingInMemory'
    BY <1>2 DEF Sweep, NothingInMemory
  <1>3. ASSUME NEW l \in Leases, Release(l)
        PROVE  NothingInMemory'
    BY <1>3 DEF Release, NothingInMemory
  <1>4. CASE UNCHANGED packVars
    BY <1>4 DEF packVars, NothingInMemory
  <1>5. CASE EndSame \/ DropStaged
    BY <1>5 DEF EndSame, DropStaged, NothingInMemory
  <1>6. ASSUME NEW l \in Leases, Pin(l)
        PROVE  NothingInMemory'
    BY <1>6 DEF Pin
  <1>7. CASE StageSame \/ Stage \/ Publish \/ PublishFails \/ PublishEmpty \/ PublishEmptyFails
    BY <1>7 DEF StageSame, Stage, Publish, PublishFails, PublishEmpty, PublishEmptyFails
  <1>8. CASE SwapClosed \/ Swap \/ CloseManager
    BY <1>8 DEF SwapClosed, Swap, CloseManager
  <1>9. CASE OpenManager
    BY <1>9 DEF OpenManager
  <1> QED
    BY <1>1, <1>2, <1>3, <1>4, <1>5, <1>6, <1>7, <1>8, <1>9 DEF PackNext, CannotOpen

-----------------------------------------------------------------------------
(* The record *)

LEMMA RecordStep == PackInv /\ [PackNext]_packVars => RecordStays'
  <1> SUFFICES ASSUME PackInv, [PackNext]_packVars
               PROVE  RecordStays'
    OBVIOUS
  <1> USE DEF PackInv, PackTypes, PackTypeOK
  <1>1. ASSUME UNCHANGED <<record, doomed, retired, unsynced>>,
               phase' \in {"free", "same"} \/ UNCHANGED mutation
        PROVE  RecordStays'
    BY <1>1 DEF RecordStays
  <1>2. ASSUME NEW d \in Dirs, Sweep(d)
        PROVE  RecordStays'
    BY <1>1, <1>2 DEF Sweep
  <1>3. ASSUME NEW l \in Leases, Pin(l) \/ Release(l)
        PROVE  RecordStays'
    BY <1>1, <1>3 DEF Pin, Release
  <1>4. CASE StageSame \/ EndSame \/ DropStaged
    BY <1>1, <1>4 DEF StageSame, EndSame, DropStaged
  <1>5. CASE Stage
    BY <1>5 DEF Stage, RecordStays
  <1>6. CASE Publish
    BY <1>6 DEF Publish, RecordStays, StagedIsFresh
  <1>7. CASE PublishFails
    <2>1. UNCHANGED <<doomed, retired>> /\ phase' = "free" /\ target \notin doomed
      BY <1>7 DEF PublishFails, RecordStays, StagedIsFresh
    <2>2. UNCHANGED <<record, unsynced>> \/ unsynced'
      BY <1>7 DEF PublishFails
    <2> QED
      BY <2>1, <2>2 DEF RecordStays
  <1>8. CASE PublishEmpty \/ PublishEmptyFails
    <2>1. UNCHANGED <<doomed, retired, unsynced>> /\ record' \in {record, NoDir}
      BY <1>8 DEF PublishEmpty, PublishEmptyFails
    <2>2. NoDir \notin doomed
      BY DEF RecordStays
    <2>3. phase' = "free" \/ (phase' = "swap" /\ record' = target')
      BY <1>8 DEF PublishEmpty, PublishEmptyFails
    <2> QED
      BY <2>1, <2>2, <2>3 DEF RecordStays
  <1>9. CASE SwapClosed
    BY <1>1, <1>9 DEF SwapClosed
  <1>10. CASE Swap
    <2>1. record = target /\ (target # NoDir => target # active)
      BY <1>10 DEF Swap, RecordStays, StagedIsFresh
    <2>2. doomed' \subseteq retired' /\ doomed' \subseteq doomed \cup {active}
          /\ (active = NoDir => doomed' = doomed)
      BY <1>10 DEF Swap, Retire, RecordStays
    <2>3. UNCHANGED <<record, unsynced>> /\ phase' = "free"
      BY <1>10 DEF Swap
    <2> QED
      BY <2>1, <2>2, <2>3 DEF RecordStays
  <1>11. CASE CloseManager
    BY <1>11 DEF CloseManager, Retire, RecordStays
  <1>12. CASE PackProgramEnds
    BY <1>12 DEF PackProgramEnds, RecordStays
  <1>13. CASE OpenManager
    BY <1>1, <1>13 DEF OpenManager
  <1>14. CASE UNCHANGED packVars
    BY <1>1, <1>14 DEF packVars
  <1> QED
    BY <1>2, <1>3, <1>4, <1>5, <1>6, <1>7, <1>8, <1>9, <1>10, <1>11, <1>12, <1>13, <1>14
       DEF PackNext, CannotOpen

LEMMA RecordOpensStep == PackInv /\ [PackNext]_packVars => RecordOpens'
  <1> SUFFICES ASSUME PackInv, [PackNext]_packVars
               PROVE  RecordOpens'
    OBVIOUS
  <1> USE DEF PackInv, PackTypes, PackTypeOK
  <1>1. ASSUME UNCHANGED <<record, unsynced>>, dirs \subseteq dirs'
        PROVE  RecordOpens'
    BY <1>1 DEF RecordOpens
  <1>2. ASSUME NEW d \in Dirs, Sweep(d)
        PROVE  RecordOpens'
    BY <1>2 DEF Sweep, RecordOpens, RecordStays
  <1>3. ASSUME NEW l \in Leases, Pin(l) \/ Release(l)
        PROVE  RecordOpens'
    BY <1>1, <1>3 DEF Pin, Release
  <1>4. CASE StageSame \/ Stage \/ EndSame
    BY <1>1, <1>4 DEF StageSame, Stage, EndSame
  <1>5. CASE DropStaged
    BY <1>5 DEF DropStaged, RecordOpens, RecordStays
  <1>6. CASE Publish
    BY <1>6 DEF Publish, RecordOpens, StagedIsFresh
  <1>7. CASE PublishFails
    <2>1. dirs' = dirs \ {target} /\ record # target
      BY <1>7 DEF PublishFails, RecordStays
    <2>2. UNCHANGED <<record, unsynced>> \/ unsynced'
      BY <1>7 DEF PublishFails
    <2> QED
      BY <2>1, <2>2 DEF RecordOpens
  <1>8. CASE PublishEmpty \/ PublishEmptyFails
    BY <1>8 DEF PublishEmpty, PublishEmptyFails, RecordOpens
  <1>9. CASE SwapClosed \/ Swap \/ CloseManager \/ PackProgramEnds \/ OpenManager
    BY <1>1, <1>9 DEF SwapClosed, Swap, CloseManager, PackProgramEnds, OpenManager
  <1>10. CASE UNCHANGED packVars
    BY <1>1, <1>10 DEF packVars
  <1> QED
    BY <1>2, <1>3, <1>4, <1>5, <1>6, <1>7, <1>8, <1>9, <1>10 DEF PackNext, CannotOpen

-----------------------------------------------------------------------------
(* The theorems *)

LEMMA PackInvHolds == PackSpec => []PackInv
  <1>1. PackInit => PackInv
    <2> SUFFICES ASSUME PackInit
                 PROVE  PackInv
      OBVIOUS
    <2> USE DEF PackInit
    <2>1. PackTypes
      <3>1. closed \in BOOLEAN /\ running \in BOOLEAN /\ unsynced \in BOOLEAN
        OBVIOUS
      <3>2. refs \in [Dirs -> Nat] /\ lease \in [Leases -> Dirs \cup {NoDir}]
        OBVIOUS
      <3> QED
        BY <3>1, <3>2 DEF PackTypes, PackTypeOK
    <2>2. Counted
      <3> SUFFICES ASSUME NEW d \in Dirs
                   PROVE  Counted!(d)
        BY DEF Counted
      <3>1. Holders(d) = {} /\ refs[d] = 0 /\ phase # "same"
        BY DEF Holders
      <3>2. IsFiniteSet(Holders(d)) /\ Cardinality(Holders(d)) = 0
        BY <3>1, FS_EmptySet
      <3> QED
        BY <3>1, <3>2
    <2>3. PinnedIsWhole /\ ActiveStays /\ StagedIsFresh
      BY DEF PinnedIsWhole, ActiveStays, StagedIsFresh
    <2>4. NothingInMemory /\ RecordStays /\ RecordOpens
      BY DEF NothingInMemory, RecordStays, RecordOpens
    <2> QED
      BY <2>1, <2>2, <2>3, <2>4 DEF PackInv
  <1>2. PackInv /\ [PackNext]_packVars => PackInv'
    BY PackTypesStep, CountedStep, PinnedStep, ActiveStep, FreshStep, MemoryStep, RecordStep,
       RecordOpensStep DEF PackInv
  <1> QED
    BY <1>1, <1>2, PTL DEF PackSpec

\* Whoever has pinned a generation can go on reading it: it stays open and its
\* files stay on disk until the lease is released (Manager.Pin, Lease.Release,
\* cleanup), whatever is imported, removed or closed in the meantime.
THEOREM PinnedStaysWhole == PackSpec => []PinnedIsWhole
  <1>1. PackInv => PinnedIsWhole
    BY DEF PackInv
  <1> QED
    BY <1>1, PackInvHolds, PTL

\* The next start finds the directory that the record names, wherever the
\* program was interrupted (Manager.Activate, Remove, OpenManager), unless a
\* publication failed after its rename.
THEOREM RecordAlwaysOpens == PackSpec => []RecordOpens
  <1>1. PackInv => RecordOpens
    BY DEF PackInv
  <1> QED
    BY <1>1, PackInvHolds, PTL

HIDE PacksAssumption
HIDE DEF Dirs, NoDir, onDisk, entries, managed, mutation

-----------------------------------------------------------------------------
(* What installing a catalog guarantees, however many processes, files,      *)
(* crashes and failing operations there are.                                 *)

(* The inductive invariant *)

\* Whoever is at the directory holds the lock, and whoever looks at it holds it
\* shared.
Writing ==
    {"recover", "clean", "prepare", "fetch", "publish", "moveout", "movein", "close"}
LocksAreHeld ==
    /\ \A p \in Processes : step[p] \in Writing <=> writer = p
    /\ \A p \in Processes : step[p] \in {"look", "reading"} <=> p \in readers
    /\ writer # NoProcess => readers = {}

\* Where there is a journal.
JournalIsWhere ==
    /\ \A p \in Processes :
        /\ step[p] \in {"clean", "prepare", "fetch", "publish", "close", "reading"} => journal = None
        /\ step[p] \in {"moveout", "movein"} => journal # None
        /\ step[p] = "movein" => ToMoveOut = {}
        /\ step[p] \in {"prepare", "fetch", "publish"} => backup = NoFiles
    /\ journal # None => \A f \in DOMAIN journal : Backed(f) => journal[f]

\* What is staged is of one manifest; with what is there already it is all of it.
StagesOf(m) ==
    \A f \in Files :
        IF staged[f] # Absent THEN staged[f] = m[f] ELSE m[f] \in {Absent, disk[f]}
MovesIn(m) ==
    \A f \in Files :
        /\ staged[f] # Absent => f \in DOMAIN journal
        /\ f \in DOMAIN journal => m[f] # Absent /\ m[f] \in {staged[f], disk[f]}
        /\ f \in DOMAIN journal /\ staged[f] # Absent => m[f] = staged[f]
        /\ f \notin DOMAIN journal => m[f] \in {Absent, disk[f]}
StageIsOfOne ==
    \A p \in Processes :
        /\ step[p] \in {"publish", "moveout", "movein"} => staged \in [Files -> Contents]
        /\ step[p] = "publish" => \E m \in Manifests : StagesOf(m)
        /\ step[p] \in {"moveout", "movein"} => \E m \in Manifests : MovesIn(m)
        /\ step[p] = "moveout" => \A f \in DOMAIN journal : staged[f] # Absent

CatalogInv == CatalogTypeOK /\ LocksAreHeld /\ JournalIsWhere /\ StageIsOfOne

USE CatalogAssumption
USE DEF directory, locks, catalogVars

\* What a directory and a manifest are.
LEMMA DirectoriesAreTyped ==
    /\ Manifests \cup Before \subseteq [Files -> Contents]
    /\ Absent \in Contents
    /\ NoFiles \in [Files -> Contents]
  <1>1. ASSUME NEW d \in Manifests \cup Before
        PROVE  d \in [Files -> Contents]
    <2>1. d = [f \in Files |-> d[f]]
      OBVIOUS
    <2>2. \A f \in Files : d[f] \in Contents
      <3>1. \A f \in Files : d[f] \in {d[g] : g \in Files}
        OBVIOUS
      <3>2. {d[g] : g \in Files} \in {{e[g] : g \in Files} : e \in Manifests \cup Before}
        OBVIOUS
      <3> QED
        BY <3>1, <3>2 DEF Contents
    <2> QED
      BY <2>1, <2>2
  <1>2. Absent \in Contents
    BY DEF Contents
  <1> QED
    BY <1>1, <1>2 DEF NoFiles

\* What a journal is.
LEMMA JournalIsTyped ==
    ASSUME CatalogTypeOK, journal # None
    PROVE  /\ DOMAIN journal \subseteq Files
           /\ \A f \in DOMAIN journal : journal[f] \in BOOLEAN
  <1>1. PICK s \in SUBSET Files : journal \in [s -> BOOLEAN]
    BY DEF CatalogTypeOK
  <1> QED
    BY <1>1

LEMMA NewJournalIsTyped ==
    ASSUME NEW s \in SUBSET Files, NEW j, j \in [s -> BOOLEAN]
    PROVE  /\ j \in UNION {[t -> BOOLEAN] : t \in SUBSET Files}
           /\ j # None
  <1>1. j \in UNION {[t -> BOOLEAN] : t \in SUBSET Files}
    OBVIOUS
  <1> QED
    BY <1>1

\* The invariant holds at the start.
LEMMA CatalogInvInit == CatalogInit => CatalogInv
  <1> SUFFICES ASSUME CatalogInit
               PROVE  CatalogInv
    OBVIOUS
  <1>1. CatalogTypeOK
    BY DirectoriesAreTyped DEF CatalogInit, CatalogTypeOK
  <1>2. LocksAreHeld
    BY DEF CatalogInit, LocksAreHeld, Writing
  <1>3. JournalIsWhere
    BY DEF CatalogInit, JournalIsWhere
  <1>4. StageIsOfOne
    BY DEF CatalogInit, StageIsOfOne
  <1> QED
    BY <1>1, <1>2, <1>3, <1>4 DEF CatalogInv

\* The variables keep their types.
LEMMA CatalogTypesStep == CatalogInv /\ [CatalogNext]_catalogVars => CatalogTypeOK'
  <1> SUFFICES ASSUME CatalogInv, [CatalogNext]_catalogVars
               PROVE  CatalogTypeOK'
    OBVIOUS
  <1> USE DirectoriesAreTyped DEF CatalogInv
  <1>1. ASSUME UNCHANGED directory, UNCHANGED locks,
               NEW p \in Processes,
               NEW s \in {"idle", "peek", "recover", "clean", "prepare", "fetch", "publish",
                          "moveout", "movein", "share", "look", "reading", "close"},
               NEW e \in {"none", "fetch", "lease", "undo"},
               step' = [step EXCEPT ![p] = s],
               errand' \in {errand, [errand EXCEPT ![p] = e]},
               UNCHANGED tries
        PROVE  CatalogTypeOK'
    BY <1>1 DEF CatalogTypeOK
  <1>2. ASSUME NEW p \in Processes, LeaveCatalog(p), UNCHANGED <<disk, journal>>,
               UNCHANGED <<staged, backup>> \/ (staged' = None /\ backup' = NoFiles)
        PROVE  CatalogTypeOK'
    BY <1>2 DEF CatalogTypeOK, LeaveCatalog
  <1>3. ASSUME NEW p \in Processes, BeginFetch(p)
        PROVE  CatalogTypeOK'
    BY <1>3 DEF BeginFetch, CatalogTypeOK
  <1>4. ASSUME NEW p \in Processes, ProcessCrash(p)
        PROVE  CatalogTypeOK'
    BY <1>2, <1>4 DEF ProcessCrash
  <1>5. ASSUME NEW p \in Processes, RecoverRemove(p)
        PROVE  CatalogTypeOK'
    <2>1. PICK f \in ToUndo : disk' = [disk EXCEPT ![f] = Absent]
      BY <1>5 DEF RecoverRemove
    <2>2. disk' \in [Files -> Contents]
      BY <2>1 DEF CatalogTypeOK
    <2> QED
      BY <1>5, <2>2 DEF RecoverRemove, CatalogTypeOK
  <1>6. ASSUME NEW p \in Processes, RecoverRename(p)
        PROVE  CatalogTypeOK'
    <2>1. PICK f \in ToUndo :
            /\ disk' = [disk EXCEPT ![f] = backup[f]]
            /\ backup' = [backup EXCEPT ![f] = Absent]
      BY <1>6 DEF RecoverRename
    <2>2. f \in Files
      BY <1>6, JournalIsTyped DEF RecoverRename, ToUndo
    <2> QED
      BY <1>6, <2>1, <2>2 DEF RecoverRename, CatalogTypeOK
  <1>7. ASSUME NEW p \in Processes, RecoverForget(p)
        PROVE  CatalogTypeOK'
    BY <1>7 DEF RecoverForget, Goto, CatalogTypeOK
  <1>8. ASSUME NEW p \in Processes, NothingToRecover(p)
        PROVE  CatalogTypeOK'
    BY <1>8 DEF NothingToRecover, Goto, CatalogTypeOK
  <1>9. ASSUME NEW p \in Processes, CleanStages(p)
        PROVE  CatalogTypeOK'
    BY <1>9 DEF CleanStages, Goto, CatalogTypeOK
  <1>10. ASSUME NEW p \in Processes, Prepare(p)
         PROVE  CatalogTypeOK'
    BY <1>10 DEF Prepare, Goto, CatalogTypeOK
  <1>11. ASSUME NEW p \in Processes, Download(p)
         PROVE  CatalogTypeOK'
    <2>1. PICK m \in Manifests :
            LET changed == {f \in Files : m[f] # Absent /\ m[f] # disk[f]}
            IN /\ staged' = [f \in Files |->
                    IF changed # {} /\ f \in changed \cup {Entry} THEN m[f] ELSE Absent]
               /\ Goto(p, IF changed = {} THEN "close" ELSE "publish")
      BY <1>11 DEF Download
    <2>2. staged' \in [Files -> Contents]
      BY <2>1
    <2>3. step' \in {[step EXCEPT ![p] = "close"], [step EXCEPT ![p] = "publish"]}
          /\ UNCHANGED <<errand, tries>>
      BY <2>1 DEF Goto
    <2> QED
      BY <1>11, <2>2, <2>3 DEF Download, CatalogTypeOK
  <1>12. ASSUME NEW p \in Processes, WriteJournal(p)
         PROVE  CatalogTypeOK'
    <2>1. journal' \in [{g \in Files : staged[g] # Absent} -> BOOLEAN]
      BY <1>12 DEF WriteJournal
    <2>2. journal' \in UNION {[t -> BOOLEAN] : t \in SUBSET Files}
      BY <2>1
    <2> QED
      BY <1>12, <2>2 DEF WriteJournal, Goto, CatalogTypeOK
  <1>13. ASSUME NEW p \in Processes, MoveOut(p)
         PROVE  CatalogTypeOK'
    <2>1. PICK f \in ToMoveOut :
            /\ backup' = [backup EXCEPT ![f] = disk[f]]
            /\ disk' = [disk EXCEPT ![f] = Absent]
      BY <1>13 DEF MoveOut
    <2>2. f \in Files
      BY <1>13, JournalIsTyped DEF MoveOut, ToMoveOut, JournalIsWhere
    <2> QED
      BY <1>13, <2>1, <2>2 DEF MoveOut, CatalogTypeOK
  <1>14. ASSUME NEW p \in Processes, AllOut(p)
         PROVE  CatalogTypeOK'
    BY <1>14 DEF AllOut, Goto, CatalogTypeOK
  <1>15. ASSUME NEW p \in Processes, MoveIn(p)
         PROVE  CatalogTypeOK'
    BY <1>15 DEF MoveIn, CatalogTypeOK, StageIsOfOne
  <1>16. ASSUME NEW p \in Processes, CommitInstall(p)
         PROVE  CatalogTypeOK'
    BY <1>16 DEF CommitInstall, Goto, CatalogTypeOK
  <1>17. ASSUME NEW p \in Processes, InstallFails(p)
         PROVE  CatalogTypeOK'
    BY <1>1, <1>17 DEF InstallFails, Goto
  <1>18. ASSUME NEW p \in Processes, EndFetch(p)
         PROVE  CatalogTypeOK'
    BY <1>2, <1>18 DEF EndFetch
  <1>19. ASSUME NEW p \in Processes, BeginLease(p)
         PROVE  CatalogTypeOK'
    BY <1>1, <1>19 DEF BeginLease
  <1>20. ASSUME NEW p \in Processes, Peek(p)
         PROVE  CatalogTypeOK'
    BY <1>1, <1>2, <1>20 DEF Peek, Goto, CatalogTypeOK
  <1>21. ASSUME NEW p \in Processes, Share(p)
         PROVE  CatalogTypeOK'
    BY <1>2, <1>21 DEF Share, Goto, CatalogTypeOK
  <1>22. ASSUME NEW p \in Processes, LookAgain(p)
         PROVE  CatalogTypeOK'
    <2>1. CASE UNCHANGED locks /\ Goto(p, "reading")
      BY <1>1, <1>22, <2>1 DEF LookAgain, Goto
    <2>2. CASE LeaveCatalog(p)
      BY <1>2, <1>22, <2>2 DEF LookAgain
    <2>3. CASE /\ tries[p] + 1 < MaxTries
               /\ step' = [step EXCEPT ![p] = "peek"]
               /\ tries' = [tries EXCEPT ![p] = @ + 1]
               /\ readers' = readers \ {p}
               /\ UNCHANGED <<errand, writer>>
      BY <1>22, <2>3 DEF LookAgain, CatalogTypeOK
    <2> QED
      BY <1>22, <2>1, <2>2, <2>3 DEF LookAgain
  <1>23. ASSUME NEW p \in Processes, EndLease(p)
         PROVE  CatalogTypeOK'
    BY <1>2, <1>23 DEF EndLease
  <1>24. ASSUME UNCHANGED catalogVars
         PROVE  CatalogTypeOK'
    BY <1>24 DEF CatalogTypeOK
  <1> QED
    BY <1>3, <1>4, <1>5, <1>6, <1>7, <1>8, <1>9, <1>10, <1>11, <1>12, <1>13, <1>14, <1>15,
       <1>16, <1>17, <1>18, <1>19, <1>20, <1>21, <1>22, <1>23, <1>24
       DEF CatalogNext, CatalogStep

\* Whoever goes to the directory has taken the lock, and gives it back with it.
LEMMA LocksStep == CatalogInv /\ [CatalogNext]_catalogVars => LocksAreHeld'
  <1> SUFFICES ASSUME CatalogInv, [CatalogNext]_catalogVars
               PROVE  LocksAreHeld'
    OBVIOUS
  <1> USE DEF CatalogInv, CatalogTypeOK, Goto
  <1>1. ASSUME UNCHANGED locks, NEW p \in Processes, NEW s, step' = [step EXCEPT ![p] = s],
               s \in Writing <=> step[p] \in Writing,
               s \in {"look", "reading"} <=> step[p] \in {"look", "reading"}
        PROVE  LocksAreHeld'
    BY <1>1 DEF LocksAreHeld
  <1>2. ASSUME NEW p \in Processes, LeaveCatalog(p)
        PROVE  LocksAreHeld'
    BY <1>2 DEF LeaveCatalog, LocksAreHeld, Writing
  <1>3. ASSUME NEW p \in Processes, BeginFetch(p)
        PROVE  LocksAreHeld'
    BY <1>3 DEF BeginFetch, Unlocked, LocksAreHeld, Writing
  <1>4. ASSUME NEW p \in Processes, RecoverRemove(p) \/ RecoverRename(p) \/ MoveOut(p) \/ MoveIn(p)
        PROVE  LocksAreHeld'
    BY <1>4 DEF RecoverRemove, RecoverRename, MoveOut, MoveIn, LocksAreHeld
  <1>5. ASSUME NEW p \in Processes,
               RecoverForget(p) \/ NothingToRecover(p) \/ Prepare(p) \/ WriteJournal(p)
        PROVE  LocksAreHeld'
    BY <1>1, <1>5 DEF RecoverForget, NothingToRecover, Prepare, WriteJournal, Writing
  <1>6. ASSUME NEW p \in Processes, AllOut(p) \/ CommitInstall(p) \/ BeginLease(p)
        PROVE  LocksAreHeld'
    BY <1>1, <1>6 DEF AllOut, CommitInstall, BeginLease, Writing
  <1>7. ASSUME NEW p \in Processes, CleanStages(p)
        PROVE  LocksAreHeld'
    <2>1. CASE errand[p] = "lease"
      BY <1>7, <2>1 DEF CleanStages, LocksAreHeld, Writing
    <2>2. CASE errand[p] # "lease"
      BY <1>1, <1>7, <2>2 DEF CleanStages, Writing
    <2> QED
      BY <2>1, <2>2
  <1>8. ASSUME NEW p \in Processes, Download(p)
        PROVE  LocksAreHeld'
    <2>1. step' \in {[step EXCEPT ![p] = "close"], [step EXCEPT ![p] = "publish"]}
      BY <1>8 DEF Download
    <2> QED
      BY <1>1, <1>8, <2>1 DEF Download, Writing
  <1>9. ASSUME NEW p \in Processes, InstallFails(p)
        PROVE  LocksAreHeld'
    BY <1>1, <1>9 DEF InstallFails, Writing
  <1>10. ASSUME NEW p \in Processes, ProcessCrash(p) \/ EndFetch(p) \/ EndLease(p)
         PROVE  LocksAreHeld'
    BY <1>2, <1>10 DEF ProcessCrash, EndFetch, EndLease
  <1>11. ASSUME NEW p \in Processes, Peek(p)
         PROVE  LocksAreHeld'
    <2>1. CASE UNCHANGED locks /\ Goto(p, "share")
      BY <1>1, <1>11, <2>1 DEF Peek, Writing
    <2>2. CASE Unlocked /\ writer' = p /\ Goto(p, "recover") /\ UNCHANGED readers
      BY <1>11, <2>2 DEF Peek, Unlocked, LocksAreHeld, Writing
    <2> QED
      BY <1>2, <1>11, <2>1, <2>2 DEF Peek
  <1>12. ASSUME NEW p \in Processes, Share(p)
         PROVE  LocksAreHeld'
    <2>1. CASE writer = NoProcess
      BY <1>12, <2>1 DEF Share, LocksAreHeld, Writing
    <2> QED
      BY <1>2, <1>12, <2>1 DEF Share
  <1>13. ASSUME NEW p \in Processes, LookAgain(p)
         PROVE  LocksAreHeld'
    <2>1. CASE UNCHANGED locks /\ Goto(p, "reading")
      BY <1>1, <1>13, <2>1 DEF LookAgain, Writing
    <2>2. CASE /\ step' = [step EXCEPT ![p] = "peek"]
               /\ readers' = readers \ {p}
               /\ UNCHANGED writer
      BY <1>13, <2>2 DEF LookAgain, LocksAreHeld, Writing
    <2> QED
      BY <1>2, <1>13, <2>1, <2>2 DEF LookAgain
  <1>14. ASSUME UNCHANGED catalogVars
         PROVE  LocksAreHeld'
    BY <1>14 DEF LocksAreHeld
  <1> QED
    BY <1>3, <1>4, <1>5, <1>6, <1>7, <1>8, <1>9, <1>10, <1>11, <1>12, <1>13, <1>14
       DEF CatalogNext, CatalogStep

\* The journal is written first and removed last.
LEMMA JournalStep == CatalogInv /\ [CatalogNext]_catalogVars => JournalIsWhere'
  <1> SUFFICES ASSUME CatalogInv, [CatalogNext]_catalogVars
               PROVE  JournalIsWhere'
    OBVIOUS
  <1> USE DEF CatalogInv, CatalogTypeOK, Goto, LocksAreHeld, Writing
  <1>0. ASSUME UNCHANGED <<backup, journal>>
        PROVE  ToMoveOut' = ToMoveOut /\ \A f : Backed(f)' <=> Backed(f)
    BY <1>0 DEF ToMoveOut, Backed
  <1>1. ASSUME UNCHANGED <<backup, journal>>,
               \A q \in Processes :
                  step'[q] \in {step[q], "idle", "peek", "recover", "share", "look"}
        PROVE  JournalIsWhere'
    BY <1>0, <1>1 DEF JournalIsWhere
  <1>2. ASSUME NEW p \in Processes, BeginFetch(p) \/ ProcessCrash(p) \/ BeginLease(p) \/ EndLease(p)
        PROVE  JournalIsWhere'
    BY <1>1, <1>2 DEF BeginFetch, ProcessCrash, BeginLease, EndLease, LeaveCatalog
  <1>3. ASSUME NEW p \in Processes, Peek(p) \/ Share(p)
        PROVE  JournalIsWhere'
    BY <1>1, <1>3 DEF Peek, Share, LeaveCatalog
  <1>4. ASSUME NEW p \in Processes, RecoverRemove(p)
        PROVE  JournalIsWhere'
    BY <1>1, <1>4 DEF RecoverRemove
  <1>5. ASSUME NEW p \in Processes, RecoverRename(p)
        PROVE  JournalIsWhere'
    <2>1. PICK f \in ToUndo : backup' = [backup EXCEPT ![f] = Absent]
      BY <1>5 DEF RecoverRename
    <2>2. \A q \in Processes : step[q] \notin Writing \ {"recover"} /\ step[q] # "reading"
      BY <1>5 DEF RecoverRename, JournalIsWhere
    <2>3. \A g \in DOMAIN journal : Backed(g)' => Backed(g)
      BY <1>5, <2>1, JournalIsTyped DEF RecoverRename, Backed
    <2> QED
      BY <1>5, <2>2, <2>3 DEF RecoverRename, JournalIsWhere
  <1>6. ASSUME NEW p \in Processes, RecoverForget(p)
        PROVE  JournalIsWhere'
    BY <1>6 DEF RecoverForget, JournalIsWhere
  <1>7. ASSUME NEW p \in Processes, NothingToRecover(p)
        PROVE  JournalIsWhere'
    BY <1>0, <1>7 DEF NothingToRecover, JournalIsWhere
  <1>8. ASSUME NEW p \in Processes, CleanStages(p)
        PROVE  JournalIsWhere'
    <2>1. journal = None /\ journal' = None /\ backup' = NoFiles
      BY <1>8 DEF CleanStages, JournalIsWhere
    <2>2. \A q \in Processes : q # p => step'[q] = step[q] /\ step[q] \notin Writing
      BY <1>8 DEF CleanStages
    <2>3. step'[p] \in {"share", "prepare", "close"}
      BY <1>8 DEF CleanStages
    <2> QED
      BY <2>1, <2>2, <2>3 DEF JournalIsWhere
  <1>9. ASSUME NEW p \in Processes, Prepare(p)
        PROVE  JournalIsWhere'
    BY <1>0, <1>9 DEF Prepare, JournalIsWhere
  <1>10. ASSUME NEW p \in Processes, Download(p)
         PROVE  JournalIsWhere'
    <2>1. step' \in {[step EXCEPT ![p] = "close"], [step EXCEPT ![p] = "publish"]}
      BY <1>10 DEF Download
    <2> QED
      BY <1>0, <1>10, <2>1 DEF Download, JournalIsWhere
  <1>11. ASSUME NEW p \in Processes, WriteJournal(p)
         PROVE  JournalIsWhere'
    <2>1. journal' \in [{g \in Files : staged[g] # Absent} -> BOOLEAN]
      BY <1>11 DEF WriteJournal
    <2>2. journal' # None
      BY <2>1, NewJournalIsTyped
    <2>3. backup' = NoFiles
      BY <1>11 DEF WriteJournal, JournalIsWhere
    <2>4. \A f \in DOMAIN journal' : ~Backed(f)'
      BY <2>1, <2>3 DEF Backed, NoFiles
    <2>5. \A q \in Processes : q # p =>
            step'[q] = step[q] /\ step[q] \notin Writing \cup {"look", "reading"}
      BY <1>11 DEF WriteJournal
    <2>6. step'[p] = "moveout"
      BY <1>11 DEF WriteJournal
    <2> QED
      BY <2>2, <2>4, <2>5, <2>6 DEF JournalIsWhere
  <1>12. ASSUME NEW p \in Processes, MoveOut(p)
         PROVE  JournalIsWhere'
    <2>1. PICK f \in ToMoveOut : backup' = [backup EXCEPT ![f] = disk[f]]
      BY <1>12 DEF MoveOut
    <2>2. \A q \in Processes : q # p => step[q] \notin Writing \cup {"look", "reading"}
      BY <1>12 DEF MoveOut
    <2>3. \A g \in DOMAIN journal : Backed(g)' => Backed(g) \/ journal[g]
      BY <1>12, <2>1, JournalIsTyped DEF MoveOut, JournalIsWhere, Backed, ToMoveOut
    <2> QED
      BY <1>12, <2>2, <2>3 DEF MoveOut, JournalIsWhere
  <1>13. ASSUME NEW p \in Processes, AllOut(p)
         PROVE  JournalIsWhere'
    BY <1>0, <1>13 DEF AllOut, JournalIsWhere
  <1>14. ASSUME NEW p \in Processes, MoveIn(p)
         PROVE  JournalIsWhere'
    BY <1>1, <1>14 DEF MoveIn
  <1>15. ASSUME NEW p \in Processes, CommitInstall(p)
         PROVE  JournalIsWhere'
    <2>1. \A q \in Processes : q # p => step'[q] = step[q] /\ step[q] \notin Writing
      BY <1>15 DEF CommitInstall
    <2> QED
      BY <1>15, <2>1 DEF CommitInstall, JournalIsWhere
  <1>16. ASSUME NEW p \in Processes, InstallFails(p)
         PROVE  JournalIsWhere'
    <2>1. CASE journal = None
      BY <1>0, <1>16, <2>1 DEF InstallFails, JournalIsWhere
    <2>2. CASE journal # None
      BY <1>1, <1>16, <2>2 DEF InstallFails
    <2> QED
      BY <2>1, <2>2
  <1>17. ASSUME NEW p \in Processes, EndFetch(p)
         PROVE  JournalIsWhere'
    <2>1. journal' = None
      BY <1>17 DEF EndFetch, JournalIsWhere
    <2>2. \A q \in Processes : step'[q] \notin Writing
      BY <1>17 DEF EndFetch, LeaveCatalog
    <2> QED
      BY <2>1, <2>2 DEF JournalIsWhere
  <1>18. ASSUME NEW p \in Processes, LookAgain(p)
         PROVE  JournalIsWhere'
    <2>1. CASE journal = None /\ Goto(p, "reading")
      BY <1>0, <1>18, <2>1 DEF LookAgain, JournalIsWhere
    <2>2. CASE step' \in {[step EXCEPT ![p] = "peek"], [step EXCEPT ![p] = "idle"]}
      BY <1>1, <1>18, <2>2 DEF LookAgain
    <2> QED
      BY <1>18, <2>1, <2>2 DEF LookAgain, LeaveCatalog
  <1>19. ASSUME UNCHANGED catalogVars
         PROVE  JournalIsWhere'
    BY <1>1, <1>19
  <1> QED
    BY <1>2, <1>3, <1>4, <1>5, <1>6, <1>7, <1>8, <1>9, <1>10, <1>11, <1>12, <1>13, <1>14,
       <1>15, <1>16, <1>17, <1>18, <1>19 DEF CatalogNext, CatalogStep

\* What is staged stays of one manifest, however it is moved.
LEMMA StageStep == CatalogInv /\ [CatalogNext]_catalogVars => StageIsOfOne'
  <1> SUFFICES ASSUME CatalogInv, [CatalogNext]_catalogVars
               PROVE  StageIsOfOne'
    OBVIOUS
  <1> USE DEF CatalogInv, CatalogTypeOK, Goto, LocksAreHeld, Writing
  <1>1. ASSUME UNCHANGED <<disk, staged, journal>>
        PROVE  /\ \A m : StagesOf(m)' <=> StagesOf(m)
               /\ \A m : MovesIn(m)' <=> MovesIn(m)
    BY <1>1 DEF StagesOf, MovesIn
  <1>2. ASSUME UNCHANGED <<disk, staged, journal>>,
               \A q \in Processes :
                  step'[q] = step[q] \/ step'[q] \notin {"publish", "moveout", "movein"}
        PROVE  StageIsOfOne'
    BY <1>1, <1>2 DEF StageIsOfOne
  <1>3. ASSUME \A q \in Processes : step'[q] \notin {"publish", "moveout", "movein"}
        PROVE  StageIsOfOne'
    BY <1>3 DEF StageIsOfOne
  <1>4. ASSUME NEW p \in Processes, step[p] \in Writing
        PROVE  \A q \in Processes \ {p} : step[q] \notin Writing
    BY <1>4
  <1>5. ASSUME NEW p \in Processes, BeginFetch(p) \/ ProcessCrash(p) \/ BeginLease(p) \/ EndLease(p)
        PROVE  StageIsOfOne'
    BY <1>2, <1>5 DEF BeginFetch, ProcessCrash, BeginLease, EndLease, LeaveCatalog
  <1>6. ASSUME NEW p \in Processes, Peek(p) \/ Share(p) \/ LookAgain(p)
        PROVE  StageIsOfOne'
    BY <1>2, <1>6 DEF Peek, Share, LookAgain, LeaveCatalog
  <1>7. ASSUME NEW p \in Processes, RecoverRemove(p) \/ RecoverRename(p) \/ RecoverForget(p)
        PROVE  StageIsOfOne'
    BY <1>3, <1>4, <1>7 DEF RecoverRemove, RecoverRename, RecoverForget
  <1>8. ASSUME NEW p \in Processes, NothingToRecover(p) \/ Prepare(p) \/ CommitInstall(p)
        PROVE  StageIsOfOne'
    BY <1>3, <1>4, <1>8 DEF NothingToRecover, Prepare, CommitInstall
  <1>9. ASSUME NEW p \in Processes, CleanStages(p)
        PROVE  StageIsOfOne'
    <2>1. step'[p] \in {"share", "prepare", "close"} /\ \A q \in Processes \ {p} : step'[q] = step[q]
      BY <1>9 DEF CleanStages
    <2> QED
      BY <1>3, <1>4, <1>9, <2>1 DEF CleanStages
  <1>10. ASSUME NEW p \in Processes, EndFetch(p)
         PROVE  StageIsOfOne'
    BY <1>3, <1>4, <1>10 DEF EndFetch, LeaveCatalog
  <1>11. ASSUME NEW p \in Processes, Download(p)
         PROVE  StageIsOfOne'
    <2>1. PICK m \in Manifests :
            LET changed == {f \in Files : m[f] # Absent /\ m[f] # disk[f]}
            IN /\ staged' = [f \in Files |->
                    IF changed # {} /\ f \in changed \cup {Entry} THEN m[f] ELSE Absent]
               /\ Goto(p, IF changed = {} THEN "close" ELSE "publish")
      BY <1>11 DEF Download
    <2> DEFINE changed == {f \in Files : m[f] # Absent /\ m[f] # disk[f]}
    <2>2. \A q \in Processes \ {p} : step'[q] = step[q] /\ step[q] \notin Writing
      BY <1>4, <1>11, <2>1 DEF Download
    <2>3. CASE changed = {}
      <3>1. step'[p] = "close"
        BY <2>1, <2>3
      <3> QED
        BY <1>3, <2>2, <3>1
    <2>4. CASE changed # {}
      <3>1. step'[p] = "publish"
        BY <2>1, <2>4
      <3>2. staged' = [f \in Files |-> IF f \in changed \cup {Entry} THEN m[f] ELSE Absent]
        BY <2>1, <2>4
      <3>3. staged' \in [Files -> Contents]
        BY <3>2, DirectoriesAreTyped
      <3>4. disk' = disk
        BY <1>11 DEF Download
      <3>5. StagesOf(m)'
        BY <3>2, <3>4 DEF StagesOf
      <3> QED
        BY <2>2, <3>1, <3>3, <3>5 DEF StageIsOfOne
    <2> QED
      BY <2>3, <2>4
  <1>12. ASSUME NEW p \in Processes, WriteJournal(p)
         PROVE  StageIsOfOne'
    <2>1. PICK m \in Manifests : StagesOf(m)
      BY <1>12 DEF WriteJournal, StageIsOfOne
    <2>2. /\ DOMAIN journal' = {g \in Files : staged[g] # Absent}
          /\ UNCHANGED <<disk, staged>>
      BY <1>12 DEF WriteJournal
    <2>3. MovesIn(m)'
      BY <2>1, <2>2, DirectoriesAreTyped DEF MovesIn, StagesOf
    <2>4. \A q \in Processes \ {p} : step'[q] = step[q] /\ step[q] \notin Writing
      BY <1>4, <1>12 DEF WriteJournal
    <2>5. step'[p] = "moveout" /\ staged' \in [Files -> Contents]
      BY <1>12 DEF WriteJournal, StageIsOfOne
    <2> QED
      BY <2>2, <2>3, <2>4, <2>5 DEF StageIsOfOne
  <1>13. ASSUME NEW p \in Processes, MoveOut(p)
         PROVE  StageIsOfOne'
    <2>1. PICK f \in ToMoveOut : disk' = [disk EXCEPT ![f] = Absent]
      BY <1>13 DEF MoveOut
    <2>2. PICK m \in Manifests : MovesIn(m)
      BY <1>13 DEF MoveOut, StageIsOfOne
    <2>3. f \in DOMAIN journal /\ staged[f] # Absent
      BY <1>13 DEF MoveOut, StageIsOfOne, ToMoveOut
    <2>4. f \in Files
      BY <1>13, <2>3, JournalIsTyped DEF MoveOut, JournalIsWhere
    <2>5. MovesIn(m)'
      BY <1>13, <2>1, <2>2, <2>3, <2>4 DEF MoveOut, MovesIn
    <2>6. \A q \in Processes \ {p} : step[q] \notin Writing
      BY <1>4, <1>13 DEF MoveOut
    <2> QED
      BY <1>13, <2>5, <2>6 DEF MoveOut, StageIsOfOne
  <1>14. ASSUME NEW p \in Processes, AllOut(p)
         PROVE  StageIsOfOne'
    <2>1. PICK m \in Manifests : MovesIn(m)
      BY <1>14 DEF AllOut, StageIsOfOne
    <2>2. MovesIn(m)'
      BY <1>1, <1>14, <2>1 DEF AllOut
    <2>3. \A q \in Processes \ {p} : step'[q] = step[q] /\ step[q] \notin Writing
      BY <1>4, <1>14 DEF AllOut
    <2> QED
      BY <1>14, <2>2, <2>3 DEF AllOut, StageIsOfOne
  <1>15. ASSUME NEW p \in Processes, MoveIn(p)
         PROVE  StageIsOfOne'
    <2>1. PICK f \in Files :
            /\ staged[f] # Absent
            /\ disk' = [disk EXCEPT ![f] = staged[f]]
            /\ staged' = [staged EXCEPT ![f] = Absent]
      BY <1>15 DEF MoveIn
    <2>2. PICK m \in Manifests : MovesIn(m)
      BY <1>15 DEF MoveIn, StageIsOfOne
    <2>3. staged \in [Files -> Contents]
      BY <1>15 DEF MoveIn, StageIsOfOne
    <2>4. MovesIn(m)'
      BY <1>15, <2>1, <2>2, <2>3 DEF MoveIn, MovesIn
    <2>5. \A q \in Processes \ {p} : step[q] \notin Writing
      BY <1>4, <1>15 DEF MoveIn
    <2> QED
      BY <1>15, <2>1, <2>3, <2>4, <2>5, DirectoriesAreTyped DEF MoveIn, StageIsOfOne
  <1>16. ASSUME NEW p \in Processes, InstallFails(p)
         PROVE  StageIsOfOne'
    BY <1>2, <1>16 DEF InstallFails
  <1>17. ASSUME UNCHANGED catalogVars
         PROVE  StageIsOfOne'
    BY <1>2, <1>17
  <1> QED
    BY <1>5, <1>6, <1>7, <1>8, <1>9, <1>10, <1>11, <1>12, <1>13, <1>14, <1>15, <1>16, <1>17
       DEF CatalogNext, CatalogStep

\* The invariant holds throughout.
LEMMA CatalogInvHolds == CatalogSpec => []CatalogInv
  <1>1. CatalogInv /\ [CatalogNext]_catalogVars => CatalogInv'
    BY CatalogTypesStep, LocksStep, JournalStep, StageStep DEF CatalogInv
  <1> QED
    BY CatalogInvInit, <1>1, PTL DEF CatalogSpec

\* LeaseSeesWhole: whoever reads holds the lock shared, so that no process is at
\* the directory, and looked for a journal after taking it.
THEOREM LeasesSeeWhole == CatalogSpec => []LeaseSeesWhole
  <1>1. CatalogInv => LeaseSeesWhole
    BY DEF CatalogInv, CatalogTypeOK, LocksAreHeld, JournalIsWhere, LeaseSeesWhole, Visible, Writing
  <1> QED
    BY CatalogInvHolds, <1>1, PTL

-----------------------------------------------------------------------------
(* The refinement *)

\* Recovery puts back what the directory stood for.
LEMMA RecoveryKeepsVisible ==
    ASSUME CatalogInv, NEW p \in Processes, RecoverRemove(p) \/ RecoverRename(p) \/ RecoverForget(p)
    PROVE  Visible' = Visible
  <1> USE DEF CatalogInv, CatalogTypeOK
  <1>1. journal # None /\ DOMAIN journal \subseteq Files
    BY JournalIsTyped DEF RecoverRemove, RecoverRename, RecoverForget
  <1>2. \A f \in DOMAIN journal : Backed(f) => journal[f]
    BY <1>1 DEF JournalIsWhere
  <1>3. CASE RecoverRemove(p)
    <2>1. PICK f \in ToUndo : disk' = [disk EXCEPT ![f] = Absent]
      BY <1>3 DEF RecoverRemove
    <2>2. f \in DOMAIN journal /\ (Backed(f) \/ ~journal[f])
      BY <2>1 DEF ToUndo, Intruder
    <2>3. \A g \in Files \ {f} : disk'[g] = disk[g]
      BY <2>1
    <2>4. UNCHANGED <<journal, backup>>
      BY <1>3 DEF RecoverRemove
    <2>5. \A g \in Files : Restored(g)' = Restored(g)
      BY <2>2, <2>3, <2>4 DEF Restored, Backed
    <2> QED
      BY <1>1, <2>4, <2>5 DEF Visible
  <1>4. CASE RecoverRename(p)
    <2>1. PICK f \in ToUndo :
            /\ Backed(f)
            /\ disk' = [disk EXCEPT ![f] = backup[f]]
            /\ backup' = [backup EXCEPT ![f] = Absent]
      BY <1>4 DEF RecoverRename
    <2>2. f \in DOMAIN journal /\ journal[f] /\ f \in Files
      BY <1>1, <1>2, <2>1 DEF ToUndo
    <2>3. \A g \in Files \ {f} : disk'[g] = disk[g] /\ backup'[g] = backup[g]
      BY <2>1
    <2>4. disk'[f] = backup[f] /\ backup'[f] = Absent
      BY <2>1, <2>2
    <2>5. UNCHANGED journal
      BY <1>4 DEF RecoverRename
    <2>6. \A g \in Files : Restored(g)' = Restored(g)
      BY <2>1, <2>2, <2>3, <2>4, <2>5 DEF Restored, Backed
    <2> QED
      BY <1>1, <2>5, <2>6 DEF Visible
  <1>5. CASE RecoverForget(p)
    <2>1. \A g \in Files : Restored(g) = disk[g]
      BY <1>5 DEF RecoverForget, Restored, ToUndo, Intruder
    <2>2. journal' = None /\ disk' = disk
      BY <1>5 DEF RecoverForget
    <2> QED
      BY <1>1, <2>1, <2>2 DEF Visible
  <1> QED
    BY <1>3, <1>4, <1>5

\* Moving the files of an install changes nothing before the journal is removed.
LEMMA MovingKeepsVisible ==
    ASSUME CatalogInv, NEW p \in Processes, WriteJournal(p) \/ MoveOut(p) \/ MoveIn(p)
    PROVE  Visible' = Visible
  <1> USE DEF CatalogInv, CatalogTypeOK
  <1>1. CASE WriteJournal(p)
    <2>1. journal = None /\ backup = NoFiles /\ UNCHANGED <<disk, backup>>
      BY <1>1 DEF WriteJournal, JournalIsWhere
    <2>2. journal' \in [{g \in Files : staged[g] # Absent} -> BOOLEAN]
      BY <1>1 DEF WriteJournal
    <2>3. \A f \in DOMAIN journal' : journal'[f] <=> disk[f] # Absent
      BY <1>1 DEF WriteJournal
    <2>4. journal' # None
      BY <2>2, NewJournalIsTyped
    <2>5. \A f \in Files : Restored(f)' = disk[f]
      BY <2>1, <2>2, <2>3 DEF Restored, Backed, NoFiles
    <2> QED
      BY <2>1, <2>4, <2>5 DEF Visible
  <1>2. CASE MoveOut(p)
    <2>1. journal # None /\ DOMAIN journal \subseteq Files /\ UNCHANGED journal
      BY <1>2, JournalIsTyped DEF MoveOut, JournalIsWhere
    <2>2. PICK f \in ToMoveOut :
            /\ backup' = [backup EXCEPT ![f] = disk[f]]
            /\ disk' = [disk EXCEPT ![f] = Absent]
      BY <1>2 DEF MoveOut
    <2>3. f \in DOMAIN journal /\ journal[f] /\ ~Backed(f) /\ f \in Files
      BY <2>1, <2>2 DEF ToMoveOut
    <2>4. \A g \in Files \ {f} : disk'[g] = disk[g] /\ backup'[g] = backup[g]
      BY <2>2
    <2>5. disk'[f] = Absent /\ backup'[f] = disk[f]
      BY <2>2, <2>3
    <2>6. \A g \in Files : Restored(g)' = Restored(g)
      BY <2>1, <2>3, <2>4, <2>5 DEF Restored, Backed
    <2> QED
      BY <2>1, <2>6 DEF Visible
  <1>3. CASE MoveIn(p)
    <2>1. journal # None /\ UNCHANGED <<journal, backup>> /\ ToMoveOut = {}
      BY <1>3 DEF MoveIn, JournalIsWhere
    <2>2. PICK f \in Files : staged[f] # Absent /\ disk' = [disk EXCEPT ![f] = staged[f]]
      BY <1>3 DEF MoveIn
    <2>3. f \in DOMAIN journal
      BY <1>3, <2>2 DEF MoveIn, StageIsOfOne, MovesIn
    <2>4. Backed(f) \/ ~journal[f]
      BY <2>1, <2>3 DEF ToMoveOut
    <2>5. \A g \in Files \ {f} : disk'[g] = disk[g]
      BY <2>2
    <2>6. \A g \in Files : Restored(g)' = Restored(g)
      BY <2>1, <2>3, <2>4, <2>5 DEF Restored, Backed
    <2> QED
      BY <2>1, <2>6 DEF Visible
  <1> QED
    BY <1>1, <1>2, <1>3

\* Removing the journal installs the manifest whose files were moved in.
LEMMA CommitIsInstall ==
    ASSUME CatalogInv, NEW p \in Processes, CommitInstall(p)
    PROVE  Atomic!Install
  <1> USE DEF CatalogInv, CatalogTypeOK
  <1>1. /\ journal # None /\ ToMoveOut = {} /\ staged = NoFiles
        /\ \A f \in DOMAIN journal : Backed(f) => journal[f]
    BY DEF CommitInstall, JournalIsWhere
  <1>2. PICK m \in Manifests : MovesIn(m)
    BY DEF CommitInstall, StageIsOfOne
  <1>3. Visible' = disk
    BY DEF CommitInstall, Visible
  <1>4. disk = [f \in Files |-> disk[f]]
    OBVIOUS
  <1>5. ASSUME NEW f \in Files
        PROVE  disk[f] = IF m[f] = Absent THEN Visible[f] ELSE m[f]
    <2>1. Visible[f] = Restored(f)
      BY <1>1 DEF Visible
    <2>2. CASE f \in DOMAIN journal
      BY <1>1, <1>2, <2>2 DEF MovesIn, NoFiles
    <2>3. CASE f \notin DOMAIN journal
      BY <1>2, <2>1, <2>3 DEF MovesIn, Restored
    <2> QED
      BY <2>2, <2>3
  <1> QED
    BY <1>2, <1>3, <1>4, <1>5 DEF Atomic!Install, Atomic!Over

\* Every other step leaves what the directory stands for as it is.
LEMMA OthersKeepVisible ==
    ASSUME CatalogInv, UNCHANGED <<disk, journal>>, journal # None => UNCHANGED backup
    PROVE  Visible' = Visible
  BY DEF Visible, Restored, Backed

\* InstallIsAtomic: every step is the whole of an install or none of it.
THEOREM InstallsAreAtomic == CatalogSpec => InstallIsAtomic
  <1>1. CatalogInit => Atomic!Init
    BY DEF CatalogInit, Atomic!Init, Visible
  <1>2. ASSUME CatalogInv, [CatalogNext]_catalogVars
        PROVE  Atomic!Install \/ Visible' = Visible
    <2> USE OthersKeepVisible
    <2>1. ASSUME NEW p \in Processes,
                 BeginFetch(p) \/ ProcessCrash(p) \/ NothingToRecover(p) \/ Prepare(p) \/ Download(p)
          PROVE  Visible' = Visible
      BY <1>2, <2>1 DEF BeginFetch, ProcessCrash, NothingToRecover, Prepare, Download
    <2>2. ASSUME NEW p \in Processes, AllOut(p) \/ InstallFails(p) \/ BeginLease(p)
          PROVE  Visible' = Visible
      BY <1>2, <2>2 DEF AllOut, InstallFails, BeginLease
    <2>3. ASSUME NEW p \in Processes, Peek(p) \/ Share(p) \/ LookAgain(p) \/ EndLease(p)
          PROVE  Visible' = Visible
      BY <1>2, <2>3 DEF Peek, Share, LookAgain, EndLease
    <2>4. ASSUME NEW p \in Processes, CleanStages(p) \/ EndFetch(p)
          PROVE  Visible' = Visible
      BY <1>2, <2>4 DEF CleanStages, EndFetch, CatalogInv, JournalIsWhere
    <2>5. CASE UNCHANGED catalogVars
      BY <1>2, <2>5
    <2> QED
      BY <1>2, <2>1, <2>2, <2>3, <2>4, <2>5, RecoveryKeepsVisible, MovingKeepsVisible, CommitIsInstall
         DEF CatalogNext, CatalogStep
  <1>3. CatalogInv /\ [CatalogNext]_catalogVars => [Atomic!Install]_Visible
    BY <1>2
  <1> QED
    BY CatalogInvHolds, <1>1, <1>3, PTL DEF CatalogSpec, InstallIsAtomic, Atomic!Spec

HIDE CatalogAssumption
HIDE DEF directory, locks, catalogVars

-----------------------------------------------------------------------------
(* What replacing the application guarantees, however many sessions update   *)
(* it, and however their helpers die, fail and get in each other's way.      *)

(* The inductive invariant *)

\* A helper is past waiting only for a session that approved and is over; its
\* directory holds the release it is to put in place, and then the one it moved
\* away.
Replacing == Working \ Waiting
HelpersAreSent ==
    \A s \in AppSessions :
        /\ helper[s] \in Replacing => s \in commit /\ session[s] = "closed"
        /\ previous[s] # Missing => s \in commit /\ session[s] = "closed"
        /\ helper[s] \in Waiting \cup {"check", "retain", "put"} => payload[s] # Missing
        /\ helper[s] \in {"put", "launch", "undo", "restore"} => previous[s] # Missing

\* A directory with a helper is its session's; it is swept only when the helper
\* is through and has succeeded.
HelpersAreKnown ==
    \A s \in AppSessions :
        /\ helper[s] # "none" <=> s \in installing
        /\ s \in commit => helper[s] # "none"
        /\ outcome[s] = "success" => helper[s] = "over" /\ s \in commit

\* Who has the application where it is not in its place: nobody who has told of
\* a success, and, when nothing went wrong, somebody who is about to put one there.
Keeping == {"put", "restore", "failed", "over"}
SomebodyHasIt ==
    application = Missing =>
        \E t \in AppSessions :
            previous[t] # Missing /\ outcome[t] # "success" /\ helper[t] \in Keeping
SomebodyIsAtIt ==
    application = Missing /\ misfortunes = 0 => \E t \in AppSessions : helper[t] \in {"put", "restore"}

UpdaterTypes == UpdaterTypeOK /\ misfortunes \in Nat

UpdaterInv == UpdaterTypes /\ HelpersAreSent /\ HelpersAreKnown /\ SomebodyHasIt /\ SomebodyIsAtIt

USE UpdaterAssumption
USE DEF appSessionVars, stagingVars, results, updateVars, Missing

\* The invariant holds at the start.
LEMMA UpdaterInvInit == UpdaterInit => UpdaterInv
  BY DEF UpdaterInit, UpdaterInv, UpdaterTypes, UpdaterTypeOK, HelpersAreSent, HelpersAreKnown,
         SomebodyHasIt, SomebodyIsAtIt, Replacing, Working, Waiting

\* The variables keep their types.
LEMMA UpdaterTypesStep == UpdaterInv /\ [UpdaterNext]_updateVars => UpdaterTypes'
  <1> SUFFICES ASSUME UpdaterInv, [UpdaterNext]_updateVars
               PROVE  UpdaterTypes'
    OBVIOUS
  <1> USE DEF UpdaterInv, UpdaterTypes, UpdaterTypeOK, Goes, Misfortune, Working, Waiting
  <1>1. ASSUME NEW s \in AppSessions, OpenSession(s)
        PROVE  UpdaterTypes'
    BY <1>1 DEF OpenSession, Opened
  <1>2. ASSUME NEW s \in AppSessions, CloseSession(s)
        PROVE  UpdaterTypes'
    BY <1>2 DEF CloseSession
  <1>3. ASSUME NEW S, RemoveStaging(S)
        PROVE  /\ payload' \in [AppSessions -> Releases \cup {0}]
               /\ previous' \in [AppSessions -> Releases \cup {0}]
               /\ oldHash' \in [AppSessions -> Releases \cup {0}]
               /\ readied' \subseteq AppSessions /\ commit' \subseteq AppSessions
    BY <1>3 DEF RemoveStaging
  <1>4. ASSUME NEW S, Forget(S)
        PROVE  /\ outcome' \in [AppSessions -> {"none", "success", "failure"}]
               /\ older' \subseteq AppSessions \X AppSessions
    BY <1>4 DEF Forget
  <1>5. ASSUME NEW s \in AppSessions, NEW r \in {"success", "failure"}, Record(s, r)
        PROVE  /\ outcome' \in [AppSessions -> {"none", "success", "failure"}]
               /\ older' \subseteq AppSessions \X AppSessions
    BY <1>5 DEF Record, Finished, Failures
  <1>6. ASSUME NEW s \in AppSessions, CheckForUpdate(s)
        PROVE  UpdaterTypes'
    <2>1. PICK aged \in SUBSET Finished :
            /\ RemoveStaging(aged)
            /\ Forget(aged \cup (IF Superseding THEN Failures ELSE {}))
      BY <1>6 DEF CheckForUpdate
    <2>2. /\ UNCHANGED <<application, session, version, installing, helper, misfortunes>>
          /\ checked' = checked \cup {s}
      BY <1>6 DEF CheckForUpdate
    <2>3. /\ outcome' \in [AppSessions -> {"none", "success", "failure"}]
          /\ older' \subseteq AppSessions \X AppSessions
      BY <1>4, <2>1
    <2>4. /\ payload' \in [AppSessions -> Releases \cup {0}]
          /\ previous' \in [AppSessions -> Releases \cup {0}]
          /\ oldHash' \in [AppSessions -> Releases \cup {0}]
          /\ readied' \subseteq AppSessions /\ commit' \subseteq AppSessions
      BY <1>3, <2>1
    <2>5. checked' \subseteq AppSessions
      BY <2>2
    <2> QED
      BY <2>2, <2>3, <2>4, <2>5
  <1>7. ASSUME NEW s \in AppSessions, StageUpdate(s)
        PROVE  UpdaterTypes'
    BY <1>7 DEF StageUpdate
  <1>8. ASSUME NEW s \in AppSessions, Approve(s)
        PROVE  UpdaterTypes'
    BY <1>8 DEF Approve
  <1>9. ASSUME NEW s \in AppSessions, Abandon(s)
        PROVE  UpdaterTypes'
    <2>1. RemoveStaging({s}) /\ Forget({s})
      BY <1>9 DEF Abandon
    <2>2. /\ UNCHANGED <<application, session, version, checked, misfortunes>>
          /\ installing' = installing \ {s} /\ helper' = [helper EXCEPT ![s] = "none"]
      BY <1>9 DEF Abandon
    <2>3. /\ outcome' \in [AppSessions -> {"none", "success", "failure"}]
          /\ older' \subseteq AppSessions \X AppSessions
      BY <1>4, <2>1
    <2>4. /\ payload' \in [AppSessions -> Releases \cup {0}]
          /\ previous' \in [AppSessions -> Releases \cup {0}]
          /\ oldHash' \in [AppSessions -> Releases \cup {0}]
          /\ readied' \subseteq AppSessions /\ commit' \subseteq AppSessions
      BY <1>3, <2>1
    <2>5. /\ installing' \subseteq AppSessions
          /\ helper' \in [AppSessions -> Working \cup {"none", "over"}]
      BY <2>2
    <2> QED
      BY <2>2, <2>3, <2>4, <2>5
  <1>10. ASSUME NEW s \in AppSessions, HelperReady(s) \/ SessionGone(s) \/ CheckHash(s)
         PROVE  UpdaterTypes'
    BY <1>10 DEF HelperReady, SessionGone, CheckHash
  <1>11. ASSUME NEW s \in AppSessions, ExitTooLate(s)
         PROVE  UpdaterTypes'
    BY <1>5, <1>11 DEF ExitTooLate
  <1>12. ASSUME NEW s \in AppSessions, Retain(s)
         PROVE  UpdaterTypes'
    BY <1>12 DEF Retain
  <1>13. ASSUME NEW s \in AppSessions, Put(s)
         PROVE  UpdaterTypes'
    BY <1>13 DEF Put
  <1>14. ASSUME NEW s \in AppSessions, Launched(s) \/ LaunchFailed(s)
         PROVE  UpdaterTypes'
    BY <1>14 DEF Launched, LaunchFailed, Opened
  <1>15. ASSUME NEW s \in AppSessions, UndoMove(s)
         PROVE  UpdaterTypes'
    BY <1>15 DEF UndoMove
  <1>16. ASSUME NEW s \in AppSessions, RollBack(s)
         PROVE  UpdaterTypes'
    BY <1>16 DEF RollBack
  <1>17. ASSUME NEW s \in AppSessions, RenameFailed(s) \/ HelperDies(s)
         PROVE  UpdaterTypes'
    BY <1>17 DEF RenameFailed, HelperDies
  <1>18. ASSUME NEW s \in AppSessions, RecordSuccess(s)
         PROVE  UpdaterTypes'
    BY <1>5, <1>18 DEF RecordSuccess
  <1>19. ASSUME NEW s \in AppSessions, RecordFailure(s)
         PROVE  UpdaterTypes'
    BY <1>5, <1>19 DEF RecordFailure, Opened
  <1>20. ASSUME Reinstall
         PROVE  UpdaterTypes'
    BY <1>20 DEF Reinstall
  <1>21. ASSUME UNCHANGED updateVars
         PROVE  UpdaterTypes'
    BY <1>21
  <1> QED
    BY <1>1, <1>2, <1>6, <1>7, <1>8, <1>9, <1>10, <1>11, <1>12, <1>13, <1>14, <1>15, <1>16,
       <1>17, <1>18, <1>19, <1>20, <1>21
       DEF UpdaterNext, SessionStep, HelperStep, Replace, UpdatesOver

\* A helper replaces the application only for who approved and is over.
LEMMA SentStep == UpdaterInv /\ [UpdaterNext]_updateVars => HelpersAreSent'
  <1> SUFFICES ASSUME UpdaterInv, [UpdaterNext]_updateVars
               PROVE  HelpersAreSent'
    OBVIOUS
  <1> USE DEF UpdaterInv, UpdaterTypes, UpdaterTypeOK, Goes, Working, Waiting, Replacing
  <1>1. ASSUME UNCHANGED <<payload, previous, commit, helper>>,
               \A s \in AppSessions : session[s] = "closed" => session'[s] = "closed"
        PROVE  HelpersAreSent'
    BY <1>1 DEF HelpersAreSent
  <1>2. ASSUME NEW s \in AppSessions, UNCHANGED <<payload, previous, commit>>,
               NEW h, helper' = [helper EXCEPT ![s] = h],
               h \in {"over", "undo", "restore", "succeeded", "failed"},
               \A t \in AppSessions : session[t] = "closed" => session'[t] = "closed",
               h \in Replacing => helper[s] \in Replacing,
               h \in {"undo", "restore"} => previous[s] # Missing
        PROVE  HelpersAreSent'
    BY <1>2 DEF HelpersAreSent
  <1>3. ASSUME \/ \E t \in AppSessions : Opened(t)
               \/ UNCHANGED appSessionVars
        PROVE  \A t \in AppSessions : session[t] = "closed" => session'[t] = "closed"
    BY <1>3 DEF Opened
  <1>4. ASSUME NEW s \in AppSessions, OpenSession(s) \/ CloseSession(s)
        PROVE  HelpersAreSent'
    BY <1>1, <1>3, <1>4 DEF OpenSession, CloseSession
  <1>5. ASSUME NEW s \in AppSessions, CheckForUpdate(s)
        PROVE  HelpersAreSent'
    <2>1. PICK aged \in SUBSET Finished : RemoveStaging(aged)
      BY <1>5 DEF CheckForUpdate
    <2>2. UNCHANGED <<session, helper>>
      BY <1>5 DEF CheckForUpdate
    <2>3. \A t \in aged : helper[t] = "over"
      BY DEF Finished, HelpersAreKnown
    <2>4. \A t \in AppSessions \ aged :
            payload'[t] = payload[t] /\ previous'[t] = previous[t] /\ (t \in commit => t \in commit')
      BY <2>1 DEF RemoveStaging
    <2>5. \A t \in aged : previous'[t] = Missing
      BY <2>1 DEF RemoveStaging, Finished
    <2> QED
      BY <2>2, <2>3, <2>4, <2>5 DEF HelpersAreSent
  <1>6. ASSUME NEW s \in AppSessions, StageUpdate(s)
        PROVE  HelpersAreSent'
    <2>1. PICK v \in Releases : payload' = [payload EXCEPT ![s] = v]
      BY <1>6 DEF StageUpdate
    <2> QED
      BY <1>6, <2>1 DEF StageUpdate, HelpersAreSent
  <1>7. ASSUME NEW s \in AppSessions, Approve(s)
        PROVE  HelpersAreSent'
    BY <1>7 DEF Approve, HelpersAreSent
  <1>8. ASSUME NEW s \in AppSessions, Abandon(s)
        PROVE  HelpersAreSent'
    <2>1. RemoveStaging({s})
      BY <1>8 DEF Abandon
    <2>2. \A t \in AppSessions \ {s} :
            payload'[t] = payload[t] /\ previous'[t] = previous[t] /\ (t \in commit => t \in commit')
      BY <2>1 DEF RemoveStaging
    <2>3. previous'[s] = Missing
      BY <2>1 DEF RemoveStaging
    <2>4. UNCHANGED session /\ helper' = [helper EXCEPT ![s] = "none"]
      BY <1>8 DEF Abandon
    <2> QED
      BY <2>2, <2>3, <2>4 DEF HelpersAreSent
  <1>9. ASSUME NEW s \in AppSessions, HelperReady(s)
        PROVE  HelpersAreSent'
    BY <1>9 DEF HelperReady, HelpersAreSent
  <1>10. ASSUME NEW s \in AppSessions, SessionGone(s)
         PROVE  HelpersAreSent'
    BY <1>10 DEF SessionGone, Approved, HelpersAreSent
  <1>11. ASSUME NEW s \in AppSessions, CheckHash(s)
         PROVE  HelpersAreSent'
    BY <1>11 DEF CheckHash, HelpersAreSent
  <1>12. ASSUME NEW s \in AppSessions, Retain(s)
         PROVE  HelpersAreSent'
    BY <1>12 DEF Retain, HelpersAreSent
  <1>13. ASSUME NEW s \in AppSessions, Put(s)
         PROVE  HelpersAreSent'
    BY <1>13 DEF Put, HelpersAreSent
  <1>14. ASSUME NEW s \in AppSessions, Launched(s)
         PROVE  HelpersAreSent'
    BY <1>2, <1>3, <1>14 DEF Launched
  <1>15. ASSUME NEW s \in AppSessions, LaunchFailed(s)
         PROVE  HelpersAreSent'
    BY <1>2, <1>15 DEF LaunchFailed, HelpersAreSent
  <1>16. ASSUME NEW s \in AppSessions, UndoMove(s)
         PROVE  HelpersAreSent'
    BY <1>16 DEF UndoMove, HelpersAreSent
  <1>17. ASSUME NEW s \in AppSessions, RollBack(s)
         PROVE  HelpersAreSent'
    BY <1>17 DEF RollBack, HelpersAreSent
  <1>18. ASSUME NEW s \in AppSessions, RenameFailed(s)
         PROVE  HelpersAreSent'
    BY <1>2, <1>18 DEF RenameFailed, HelpersAreSent
  <1>19. ASSUME NEW s \in AppSessions, ExitTooLate(s) \/ RecordSuccess(s) \/ HelperDies(s)
         PROVE  HelpersAreSent'
    BY <1>2, <1>19 DEF ExitTooLate, RecordSuccess, HelperDies
  <1>20. ASSUME NEW s \in AppSessions, RecordFailure(s)
         PROVE  HelpersAreSent'
    BY <1>2, <1>3, <1>20 DEF RecordFailure
  <1>21. CASE Reinstall \/ UNCHANGED updateVars
    BY <1>1, <1>21 DEF Reinstall
  <1> QED
    BY <1>4, <1>5, <1>6, <1>7, <1>8, <1>9, <1>10, <1>11, <1>12, <1>13, <1>14, <1>15, <1>16,
       <1>17, <1>18, <1>19, <1>20, <1>21
       DEF UpdaterNext, SessionStep, HelperStep, Replace, UpdatesOver

\* A helper's success is known only when the helper is through.
LEMMA KnownStep == UpdaterInv /\ [UpdaterNext]_updateVars => HelpersAreKnown'
  <1> SUFFICES ASSUME UpdaterInv, [UpdaterNext]_updateVars
               PROVE  HelpersAreKnown'
    OBVIOUS
  <1> USE DEF UpdaterInv, UpdaterTypes, UpdaterTypeOK, Goes, Working, Waiting, Replacing
  <1>1. ASSUME UNCHANGED <<installing, commit, helper, outcome>>
        PROVE  HelpersAreKnown'
    BY <1>1 DEF HelpersAreKnown
  <1>2. ASSUME NEW s \in AppSessions, UNCHANGED <<installing, commit, outcome>>,
               NEW h, h # "none", helper' = [helper EXCEPT ![s] = h], helper[s] \in Working
        PROVE  HelpersAreKnown'
    BY <1>2 DEF HelpersAreKnown
  <1>3. ASSUME NEW s \in AppSessions, NEW r \in {"success", "failure"}, Record(s, r),
               UNCHANGED <<installing, commit>>, helper' = [helper EXCEPT ![s] = "over"],
               helper[s] \in Working, r = "success" => s \in commit
        PROVE  HelpersAreKnown'
    BY <1>3 DEF HelpersAreKnown, Record
  <1>4. ASSUME NEW s \in AppSessions, OpenSession(s) \/ CloseSession(s)
        PROVE  HelpersAreKnown'
    BY <1>1, <1>4 DEF OpenSession, CloseSession, Opened
  <1>5. ASSUME NEW s \in AppSessions, CheckForUpdate(s)
        PROVE  HelpersAreKnown'
    <2>1. PICK aged \in SUBSET Finished :
            RemoveStaging(aged) /\ Forget(aged \cup (IF Superseding THEN Failures ELSE {}))
      BY <1>5 DEF CheckForUpdate
    <2>2. UNCHANGED <<installing, helper>>
      BY <1>5 DEF CheckForUpdate
    <2>3. commit' = commit \ aged
      BY <2>1 DEF RemoveStaging
    <2>4. \A t \in AppSessions : outcome'[t] = "success" => t \notin aged /\ outcome[t] = "success"
      BY <2>1 DEF Forget
    <2> QED
      BY <2>2, <2>3, <2>4 DEF HelpersAreKnown
  <1>6. ASSUME NEW s \in AppSessions, StageUpdate(s)
        PROVE  HelpersAreKnown'
    BY <1>6 DEF StageUpdate, HelpersAreKnown
  <1>7. ASSUME NEW s \in AppSessions, Approve(s)
        PROVE  HelpersAreKnown'
    <2>1. helper[s] # "none"
      BY <1>7 DEF Approve, HandingOver, HelpersAreKnown
    <2> QED
      BY <1>7, <2>1 DEF Approve, HelpersAreKnown
  <1>8. ASSUME NEW s \in AppSessions, Abandon(s)
        PROVE  HelpersAreKnown'
    <2>1. commit' = commit \ {s} /\ s \notin commit
      BY <1>8 DEF Abandon, RemoveStaging, HandingOver
    <2>2. \A t \in AppSessions : outcome'[t] = "success" => t # s /\ outcome[t] = "success"
      BY <1>8 DEF Abandon, Forget
    <2> QED
      BY <1>8, <2>1, <2>2 DEF Abandon, HelpersAreKnown
  <1>9. ASSUME NEW s \in AppSessions, HelperReady(s) \/ SessionGone(s) \/ CheckHash(s)
        PROVE  HelpersAreKnown'
    BY <1>2, <1>9 DEF HelperReady, SessionGone, CheckHash
  <1>10. ASSUME NEW s \in AppSessions, Retain(s) \/ Put(s) \/ LaunchFailed(s)
         PROVE  HelpersAreKnown'
    BY <1>2, <1>10 DEF Retain, Put, LaunchFailed
  <1>11. ASSUME NEW s \in AppSessions, UndoMove(s) \/ RollBack(s) \/ RenameFailed(s) \/ HelperDies(s)
         PROVE  HelpersAreKnown'
    BY <1>2, <1>11 DEF UndoMove, RollBack, RenameFailed, HelperDies
  <1>12. ASSUME NEW s \in AppSessions, Launched(s)
         PROVE  HelpersAreKnown'
    BY <1>2, <1>12 DEF Launched, Opened
  <1>13. ASSUME NEW s \in AppSessions, ExitTooLate(s)
         PROVE  HelpersAreKnown'
    BY <1>3, <1>13 DEF ExitTooLate
  <1>14. ASSUME NEW s \in AppSessions, RecordSuccess(s)
         PROVE  HelpersAreKnown'
    BY <1>3, <1>14 DEF RecordSuccess, HelpersAreSent
  <1>15. ASSUME NEW s \in AppSessions, RecordFailure(s)
         PROVE  HelpersAreKnown'
    BY <1>3, <1>15 DEF RecordFailure, Opened
  <1>16. CASE Reinstall \/ UNCHANGED updateVars
    BY <1>1, <1>16 DEF Reinstall
  <1> QED
    BY <1>4, <1>5, <1>6, <1>7, <1>8, <1>9, <1>10, <1>11, <1>12, <1>13, <1>14, <1>15, <1>16
       DEF UpdaterNext, SessionStep, HelperStep, Replace, UpdatesOver

\* Whoever has moved the application away keeps it until one is in its place.
LEMMA HasItStep == UpdaterInv /\ [UpdaterNext]_updateVars => SomebodyHasIt'
  <1> SUFFICES ASSUME UpdaterInv, [UpdaterNext]_updateVars
               PROVE  SomebodyHasIt'
    OBVIOUS
  <1> USE DEF UpdaterInv, UpdaterTypes, UpdaterTypeOK, Goes, Working, Waiting, Replacing, Keeping
  <1>1. ASSUME application' = application \/ application' # Missing,
               \A t \in AppSessions :
                  previous[t] # Missing /\ outcome[t] # "success" /\ helper[t] \in Keeping =>
                      previous'[t] # Missing /\ outcome'[t] # "success" /\ helper'[t] \in Keeping
        PROVE  SomebodyHasIt'
    BY <1>1 DEF SomebodyHasIt
  <1>2. ASSUME NEW s \in AppSessions, previous'[s] # Missing, UNCHANGED outcome,
               helper'[s] \in Keeping, helper[s] # "over"
        PROVE  SomebodyHasIt'
    BY <1>2 DEF SomebodyHasIt, HelpersAreKnown
  <1>3. ASSUME NEW s \in AppSessions, OpenSession(s) \/ CloseSession(s) \/ Approve(s)
        PROVE  SomebodyHasIt'
    BY <1>1, <1>3 DEF OpenSession, CloseSession, Approve
  <1>4. ASSUME NEW s \in AppSessions, CheckForUpdate(s)
        PROVE  SomebodyHasIt'
    <2>1. PICK aged \in SUBSET Finished :
            RemoveStaging(aged) /\ Forget(aged \cup (IF Superseding THEN Failures ELSE {}))
      BY <1>4 DEF CheckForUpdate
    <2>2. \A t \in AppSessions : outcome[t] # "success" =>
            outcome'[t] # "success" /\ previous'[t] = previous[t]
      BY <2>1 DEF RemoveStaging, Forget, Finished
    <2>3. UNCHANGED <<application, helper>>
      BY <1>4 DEF CheckForUpdate
    <2> QED
      BY <1>1, <2>2, <2>3
  <1>5. ASSUME NEW s \in AppSessions, StageUpdate(s)
        PROVE  SomebodyHasIt'
    BY <1>5 DEF StageUpdate, SomebodyHasIt
  <1>6. ASSUME NEW s \in AppSessions, Abandon(s)
        PROVE  SomebodyHasIt'
    <2>1. previous[s] = Missing
      BY <1>6 DEF Abandon, HandingOver, HelpersAreSent
    <2>2. \A t \in AppSessions \ {s} : previous'[t] = previous[t] /\ outcome'[t] = outcome[t]
      BY <1>6 DEF Abandon, RemoveStaging, Forget
    <2>3. UNCHANGED application /\ \A t \in AppSessions \ {s} : helper'[t] = helper[t]
      BY <1>6 DEF Abandon
    <2> QED
      BY <1>1, <2>1, <2>2, <2>3
  <1>7. ASSUME NEW s \in AppSessions, HelperReady(s) \/ SessionGone(s) \/ CheckHash(s)
        PROVE  SomebodyHasIt'
    BY <1>1, <1>7 DEF HelperReady, SessionGone, CheckHash
  <1>8. ASSUME NEW s \in AppSessions, Retain(s)
        PROVE  SomebodyHasIt'
    BY <1>2, <1>8 DEF Retain
  <1>9. ASSUME NEW s \in AppSessions, Put(s) \/ RollBack(s)
        PROVE  SomebodyHasIt'
    <2>1. application' # Missing
      BY <1>9 DEF Put, RollBack, HelpersAreSent
    <2> QED
      BY <2>1 DEF SomebodyHasIt
  <1>10. ASSUME NEW s \in AppSessions, Launched(s) \/ LaunchFailed(s)
         PROVE  SomebodyHasIt'
    BY <1>1, <1>10 DEF Launched, LaunchFailed, Opened
  <1>11. ASSUME NEW s \in AppSessions, UndoMove(s)
         PROVE  SomebodyHasIt'
    BY <1>2, <1>11 DEF UndoMove, HelpersAreSent
  <1>12. ASSUME NEW s \in AppSessions, RenameFailed(s) \/ HelperDies(s)
         PROVE  SomebodyHasIt'
    BY <1>1, <1>12 DEF RenameFailed, HelperDies
  <1>13. ASSUME NEW s \in AppSessions, ExitTooLate(s) \/ RecordFailure(s)
         PROVE  SomebodyHasIt'
    BY <1>1, <1>13 DEF ExitTooLate, RecordFailure, Record, Opened
  <1>14. ASSUME NEW s \in AppSessions, RecordSuccess(s)
         PROVE  SomebodyHasIt'
    BY <1>1, <1>14 DEF RecordSuccess, Record
  <1>15. CASE Reinstall
    BY <1>15 DEF Reinstall, SomebodyHasIt
  <1>16. CASE UNCHANGED updateVars
    BY <1>1, <1>16
  <1> QED
    BY <1>3, <1>4, <1>5, <1>6, <1>7, <1>8, <1>9, <1>10, <1>11, <1>12, <1>13, <1>14, <1>15, <1>16
       DEF UpdaterNext, SessionStep, HelperStep, Replace, UpdatesOver

\* As long as nothing goes wrong, that one is still at it.
LEMMA AtItStep == UpdaterInv /\ [UpdaterNext]_updateVars => SomebodyIsAtIt'
  <1> SUFFICES ASSUME UpdaterInv, [UpdaterNext]_updateVars
               PROVE  SomebodyIsAtIt'
    OBVIOUS
  <1> USE DEF UpdaterInv, UpdaterTypes, UpdaterTypeOK, Goes, Working, Waiting, Replacing
  <1>1. ASSUME UNCHANGED <<application, misfortunes>>,
               \A t \in AppSessions : helper[t] \in {"put", "restore"} => helper'[t] \in {"put", "restore"}
        PROVE  SomebodyIsAtIt'
    BY <1>1 DEF SomebodyIsAtIt
  <1>2. ASSUME Misfortune
        PROVE  SomebodyIsAtIt'
    BY <1>2 DEF Misfortune, SomebodyIsAtIt
  <1>3. ASSUME NEW s \in AppSessions, OpenSession(s) \/ CloseSession(s) \/ CheckForUpdate(s) \/ Approve(s)
        PROVE  SomebodyIsAtIt'
    BY <1>1, <1>3 DEF OpenSession, CloseSession, CheckForUpdate, Approve
  <1>4. ASSUME NEW s \in AppSessions, StageUpdate(s)
        PROVE  SomebodyIsAtIt'
    BY <1>1, <1>4 DEF StageUpdate, HelpersAreKnown
  <1>5. ASSUME NEW s \in AppSessions, Abandon(s)
        PROVE  SomebodyIsAtIt'
    BY <1>1, <1>5 DEF Abandon, HandingOver, HelpersAreSent
  <1>6. ASSUME NEW s \in AppSessions, HelperReady(s) \/ SessionGone(s) \/ CheckHash(s) \/ ExitTooLate(s)
        PROVE  SomebodyIsAtIt'
    BY <1>1, <1>6 DEF HelperReady, SessionGone, CheckHash, ExitTooLate
  <1>7. ASSUME NEW s \in AppSessions, Retain(s) \/ UndoMove(s)
        PROVE  SomebodyIsAtIt'
    <2>1. helper'[s] \in {"put", "restore"}
      BY <1>7 DEF Retain, UndoMove
    <2> QED
      BY <2>1 DEF SomebodyIsAtIt
  <1>8. ASSUME NEW s \in AppSessions, Put(s) \/ RollBack(s)
        PROVE  SomebodyIsAtIt'
    <2>1. application' # Missing
      BY <1>8 DEF Put, RollBack, HelpersAreSent
    <2> QED
      BY <2>1 DEF SomebodyIsAtIt
  <1>9. ASSUME NEW s \in AppSessions, Launched(s) \/ LaunchFailed(s)
        PROVE  SomebodyIsAtIt'
    BY <1>1, <1>9 DEF Launched, LaunchFailed
  <1>10. ASSUME NEW s \in AppSessions, RenameFailed(s)
         PROVE  SomebodyIsAtIt'
    BY <1>1, <1>2, <1>10 DEF RenameFailed, SomebodyIsAtIt
  <1>11. ASSUME NEW s \in AppSessions, RecordSuccess(s) \/ RecordFailure(s)
         PROVE  SomebodyIsAtIt'
    BY <1>1, <1>11 DEF RecordSuccess, RecordFailure
  <1>12. ASSUME NEW s \in AppSessions, HelperDies(s)
         PROVE  SomebodyIsAtIt'
    BY <1>2, <1>12 DEF HelperDies
  <1>13. CASE Reinstall
    BY <1>2, <1>13 DEF Reinstall
  <1>14. CASE UNCHANGED updateVars
    BY <1>1, <1>14
  <1> QED
    BY <1>3, <1>4, <1>5, <1>6, <1>7, <1>8, <1>9, <1>10, <1>11, <1>12, <1>13, <1>14
       DEF UpdaterNext, SessionStep, HelperStep, Replace, UpdatesOver

\* The invariant holds throughout.
LEMMA UpdaterInvHolds == UpdaterSpec => []UpdaterInv
  <1>1. UpdaterInv /\ [UpdaterNext]_updateVars => UpdaterInv'
    BY UpdaterTypesStep, SentStep, KnownStep, HasItStep, AtItStep DEF UpdaterInv
  <1> QED
    BY UpdaterInvInit, <1>1, PTL DEF UpdaterSpec

\* ApplicationKept: what a helper moves away it keeps until an application is in
\* its place again, and only what was approved and is over sets it to work.
THEOREM ApplicationIsKept == UpdaterSpec => []ApplicationKept
  <1>1. UpdaterInv => ApplicationKept
    BY DEF UpdaterInv, HelpersAreSent, SomebodyHasIt, SomebodyIsAtIt, ApplicationKept, Working
  <1> QED
    BY UpdaterInvHolds, <1>1, PTL

=============================================================================
