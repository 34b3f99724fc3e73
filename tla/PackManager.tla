----------------------------- MODULE PackManager -----------------------------
(***************************************************************************)
(* librarypack.Manager: one published generation of a local library, the   *)
(* leases that keep a replaced one alive, and the record on disk that the  *)
(* next start of the program opens.                                        *)
(*                                                                         *)
(* Import (Stage, then Activate or Discard) and Remove are the mutations;  *)
(* one is under way at a time.  The program may crash before any step and  *)
(* start again.  Generation directories are numbered as they are made.     *)
(* Copying and verifying an archive happens in a directory that no step    *)
(* here looks at, and is left out.                                         *)
(***************************************************************************)
EXTENDS Integers, FiniteSets

CONSTANTS
    Packs,
    MaxDirs,     \* how many generation directories are ever made
    Leases,      \* those who pin
    MaxTroubles  \* crashes and failing publications

ASSUME PacksAssumption == {MaxDirs, MaxTroubles} \subseteq Nat /\ Packs # {}

Dirs == 1..MaxDirs
NoDir == 0

VARIABLES
    record,    \* the directory active.json names; NoDir: the empty record
    dirs,      \* the generation directories on disk
    pack,      \* what each holds
    made,      \* how many have been made
    opened,    \* entries whose generation is open
    refs,      \* generationEntry.refs
    retired,   \* generationEntry.retired
    doomed,    \* generationEntry.remove
    sweeping,  \* entries that a caller is about to clean up
    active,    \* Manager.active
    closed,
    phase,     \* of the mutation: "free", "staged", "same", "swap" (published)
    target,    \* what it will make active; NoDir: it removes
    lease,     \* what each lease pins, or NoDir
    running,   \* the program runs with an open manager
    troubles,
    unsynced   \* a publication failed after its rename

onDisk == <<record, dirs, pack, made>>
entries == <<opened, refs, retired, doomed, sweeping>>
managed == <<active, closed, running>>
mutation == <<phase, target>>
packVars == <<onDisk, entries, managed, mutation, lease, troubles, unsynced>>

PackInit ==
    /\ record = NoDir /\ dirs = {} /\ pack = [d \in Dirs |-> NoDir] /\ made = 0
    /\ opened = {} /\ refs = [d \in Dirs |-> 0] /\ retired = {} /\ doomed = {} /\ sweeping = {}
    /\ active = NoDir /\ closed = FALSE /\ running = TRUE
    /\ phase = "free" /\ target = NoDir
    /\ lease = [l \in Leases |-> NoDir]
    /\ troubles = 0 /\ unsynced = FALSE

PackTypeOK ==
    /\ record \in Dirs \cup {NoDir} /\ active \in Dirs \cup {NoDir} /\ target \in Dirs \cup {NoDir}
    /\ dirs \subseteq Dirs /\ opened \subseteq Dirs /\ retired \subseteq Dirs
    /\ doomed \subseteq Dirs /\ sweeping \subseteq Dirs
    /\ refs \in [Dirs -> Nat]
    /\ phase \in {"free", "staged", "same", "swap"}
    /\ lease \in [Leases -> Dirs \cup {NoDir}]

-----------------------------------------------------------------------------
\* References and cleanup.

\* cleanup, first half: it is decided under mu, once.
Cleanable(d) == d \in retired /\ refs[d] = 0 /\ d \in opened

\* Mutant of Sweep: whoever is about to clean up does not look at the leases.
SweepPinned(d) ==
    /\ d \in sweeping
    /\ sweeping' = sweeping \ {d}
    /\ opened' = opened \ {d}
    /\ dirs' = IF d \in doomed THEN dirs \ {d} ELSE dirs
    /\ UNCHANGED <<record, pack, made, refs, retired, doomed, managed, mutation, lease,
                   troubles, unsynced>>

\* cleanup: the generation is closed, and its directory removed if it is to be.
Sweep(d) ==
    /\ d \in sweeping
    /\ sweeping' = sweeping \ {d}
    /\ IF Cleanable(d)
       THEN /\ opened' = opened \ {d}
            /\ dirs' = IF d \in doomed THEN dirs \ {d} ELSE dirs
       ELSE UNCHANGED <<opened, dirs>>
    /\ UNCHANGED <<record, pack, made, refs, retired, doomed, managed, mutation, lease,
                   troubles, unsynced>>

\* What release(entry) changes.
Unref(d) ==
    /\ refs' = [refs EXCEPT ![d] = @ - 1]
    /\ sweeping' = IF d \in retired /\ refs[d] = 1 THEN sweeping \cup {d} ELSE sweeping

Pin(l) ==
    /\ lease[l] = NoDir /\ running /\ ~closed /\ active # NoDir
    /\ refs' = [refs EXCEPT ![active] = @ + 1]
    /\ lease' = [lease EXCEPT ![l] = active]
    /\ UNCHANGED <<onDisk, opened, retired, doomed, sweeping, managed, mutation, troubles, unsynced>>

\* Lease.Release, which works once.
Release(l) ==
    /\ lease[l] # NoDir
    /\ Unref(lease[l])
    /\ lease' = [lease EXCEPT ![l] = NoDir]
    /\ UNCHANGED <<onDisk, opened, retired, doomed, managed, mutation, troubles, unsynced>>

-----------------------------------------------------------------------------
\* Stage, Activate, Discard, Remove.

\* The archive is the active generation again: it is pinned, not copied.
StageSame ==
    /\ phase = "free" /\ running /\ ~closed /\ active # NoDir
    /\ refs' = [refs EXCEPT ![active] = @ + 1]
    /\ phase' = "same" /\ target' = active
    /\ UNCHANGED <<onDisk, opened, retired, doomed, sweeping, managed, lease, troubles, unsynced>>

\* The archive is unpacked into a new directory and opened.
Stage ==
    /\ phase = "free" /\ running /\ ~closed /\ made < MaxDirs
    /\ \E p \in Packs :
        /\ active # NoDir => pack[active] # p
        /\ pack' = [pack EXCEPT ![made + 1] = p]
    /\ made' = made + 1
    /\ dirs' = dirs \cup {made + 1} /\ opened' = opened \cup {made + 1}
    /\ phase' = "staged" /\ target' = made + 1
    /\ UNCHANGED <<record, refs, retired, doomed, sweeping, managed, lease, troubles, unsynced>>

\* Activate or Discard of the active generation gives the pin back.
EndSame ==
    /\ phase = "same"
    /\ Unref(target)
    /\ phase' = "free" /\ target' = NoDir
    /\ UNCHANGED <<onDisk, opened, retired, doomed, managed, lease, troubles, unsynced>>

\* The staged generation is closed and its directory removed: Discard, or an
\* Activate that finds the manager closed or its context ended.
DropStaged ==
    /\ phase = "staged"
    /\ opened' = opened \ {target} /\ dirs' = dirs \ {target}
    /\ phase' = "free" /\ target' = NoDir
    /\ UNCHANGED <<record, pack, made, refs, retired, doomed, sweeping, managed, lease,
                   troubles, unsynced>>

\* Activate writes the record.
Publish ==
    /\ phase = "staged" /\ running /\ ~closed
    /\ record' = target
    /\ phase' = "swap"
    /\ UNCHANGED <<dirs, pack, made, entries, managed, target, lease, troubles, unsynced>>

\* publish fails: before the rename, which changes nothing, or after it, when
\* the directory could not be synced and the record already names the staged
\* directory.  Activate removes that directory either way (manager.go:269-273).
PublishFails ==
    /\ phase = "staged" /\ running /\ ~closed
    /\ troubles < MaxTroubles /\ troubles' = troubles + 1
    /\ \/ UNCHANGED <<record, unsynced>>
       \/ record' = target /\ unsynced' = TRUE
    /\ opened' = opened \ {target} /\ dirs' = dirs \ {target}
    /\ phase' = "free" /\ target' = NoDir
    /\ UNCHANGED <<pack, made, refs, retired, doomed, sweeping, managed, lease>>

\* Remove writes the empty record.
PublishEmpty ==
    /\ phase = "free" /\ running /\ ~closed
    /\ record' = NoDir
    /\ phase' = "swap" /\ target' = NoDir
    /\ UNCHANGED <<dirs, pack, made, entries, managed, lease, troubles, unsynced>>

\* publish fails there: the record may already be the empty one, while the
\* generation stays active for the rest of this run (manager.go:362-364).
PublishEmptyFails ==
    /\ phase = "free" /\ running /\ ~closed
    /\ troubles < MaxTroubles /\ troubles' = troubles + 1
    /\ record' \in {record, NoDir}
    /\ UNCHANGED <<dirs, pack, made, entries, managed, mutation, lease, unsynced>>

\* The old entry is retired; its directory goes when its last reader does.
Retire(d, remove) ==
    /\ retired' = IF d = NoDir THEN retired ELSE retired \cup {d}
    /\ doomed' = IF d = NoDir \/ ~remove THEN doomed ELSE doomed \cup {d}
    /\ sweeping' = IF d = NoDir THEN sweeping ELSE sweeping \cup {d}

\* The manager was closed between the record and the swap.  Mutant: the staged
\* directory, which the record names, is removed with the generation.
SwapClosedRemoving ==
    /\ phase = "swap" /\ running /\ closed
    /\ opened' = opened \ {target} /\ dirs' = dirs \ {target}
    /\ phase' = "free" /\ target' = NoDir
    /\ UNCHANGED <<record, pack, made, refs, retired, doomed, sweeping, managed, lease,
                   troubles, unsynced>>

SwapClosed ==
    /\ phase = "swap" /\ running /\ closed
    /\ opened' = opened \ {target}
    /\ phase' = "free" /\ target' = NoDir
    /\ UNCHANGED <<onDisk, refs, retired, doomed, sweeping, managed, lease, troubles, unsynced>>

Swap ==
    /\ phase = "swap" /\ running /\ ~closed
    /\ Retire(active, TRUE)
    /\ active' = target
    /\ phase' = "free" /\ target' = NoDir
    /\ UNCHANGED <<onDisk, opened, refs, closed, running, lease, troubles, unsynced>>

-----------------------------------------------------------------------------
\* The manager's and the program's end, and the next start.

CloseManager ==
    /\ running /\ ~closed
    /\ closed' = TRUE
    /\ Retire(active, FALSE)
    /\ active' = NoDir
    /\ UNCHANGED <<onDisk, opened, refs, running, mutation, lease, troubles, unsynced>>

\* Memory is gone; what is on disk stays.
PackProgramEnds ==
    /\ running
    /\ \/ closed /\ UNCHANGED troubles
       \/ ~closed /\ troubles < MaxTroubles /\ troubles' = troubles + 1
    /\ running' = FALSE /\ closed' = TRUE
    /\ opened' = {} /\ refs' = [d \in Dirs |-> 0] /\ retired' = {} /\ doomed' = {} /\ sweeping' = {}
    /\ active' = NoDir /\ phase' = "free" /\ target' = NoDir
    /\ lease' = [l \in Leases |-> NoDir]
    /\ UNCHANGED <<onDisk, unsynced>>

\* OpenManager opens what the record names.
OpenManager ==
    /\ ~running
    /\ record = NoDir \/ record \in dirs
    /\ running' = TRUE /\ closed' = FALSE
    /\ active' = record
    /\ opened' = IF record = NoDir THEN {} ELSE {record}
    /\ UNCHANGED <<onDisk, refs, retired, doomed, sweeping, mutation, lease, troubles, unsynced>>

\* It names a directory that is gone, and the local library stays unusable.
CannotOpen ==
    /\ ~running /\ record # NoDir /\ record \notin dirs
    /\ UNCHANGED packVars

PackNext ==
    \/ \E d \in Dirs : Sweep(d)
    \/ \E l \in Leases : Pin(l) \/ Release(l)
    \/ StageSame \/ Stage \/ EndSame \/ DropStaged
    \/ Publish \/ PublishFails \/ PublishEmpty \/ PublishEmptyFails
    \/ SwapClosed \/ Swap \/ CloseManager \/ PackProgramEnds \/ OpenManager \/ CannotOpen

PackSpec == PackInit /\ [][PackNext]_packVars

-----------------------------------------------------------------------------

\* A lease pins an open generation whose files are there, whatever is imported,
\* removed, retried or closed meanwhile (manager.go:333-426).
PinnedIsWhole == \A l \in Leases : lease[l] # NoDir => lease[l] \in opened \cap dirs

\* The next start finds what the record names, after a crash at any moment
\* (:245-288, :346-378), provided that no publication failed after its rename:
\* then Activate has removed the directory that the record names.
RecordOpens == record # NoDir /\ ~unsynced => record \in dirs
=============================================================================
