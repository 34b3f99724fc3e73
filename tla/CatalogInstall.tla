--------------------------- MODULE CatalogInstall ---------------------------
(***************************************************************************)
(* Installing and reading a catalog directory (internal/dataset): Fetch    *)
(* stages verified files and publishes them under a journal; ReadLease     *)
(* keeps installers out while the files are in use; Recover undoes what a  *)
(* crashed process left.                                                   *)
(*                                                                         *)
(* Several processes share the directory and its lock file.  Each disk     *)
(* operation is an action, and a process may crash before any of them; the *)
(* system then drops its locks.  A rename or a removal takes effect at     *)
(* once or not at all; loss of power is not modelled.  The journal names   *)
(* files in an order that no step depends on, so they move in any order.   *)
(*                                                                         *)
(* `mishaps' bounds crashes and failing operations, `fetches' the          *)
(* installs.                                                               *)
(***************************************************************************)
EXTENDS Integers, FiniteSets

CONSTANTS
    Processes, NoProcess,
    Files,       \* what a directory may hold
    Entry,       \* the one of them that holds the manifest itself
    Absent,
    Manifests,   \* what each manifest says of each file; Absent: nothing
    Before,      \* the directories the processes may find
    None,        \* no journal, no stage
    MaxMishaps, MaxFetches, MaxTries

ASSUME CatalogAssumption ==
    /\ NoProcess \notin Processes
    /\ Entry \in Files /\ \A m \in Manifests : m[Entry] # Absent
    /\ \A d \in Manifests \cup Before : d = [f \in Files |-> d[f]]
    /\ None \notin UNION {[s -> BOOLEAN] : s \in SUBSET Files}  \* it is no journal
    /\ {MaxMishaps, MaxFetches, MaxTries} \subseteq Nat

VARIABLES
    disk,     \* what is in each file of the directory
    staged,   \* None, or the stage directory's new files
    backup,   \* the stage's .previous files
    journal,  \* None, or for each file it names whether there was one before
    writer,   \* who holds the lock exclusively
    readers,  \* who holds it shared
    step,     \* where each process is
    errand,   \* what it came for: "fetch", "lease", or "undo" after an error
    tries,    \* ReadLease's loop
    mishaps, fetches

directory == <<disk, staged, backup, journal>>
locks == <<writer, readers>>
catalogVars == <<directory, locks, step, errand, tries, mishaps, fetches>>

NoFiles == [f \in Files |-> Absent]

CatalogInit ==
    /\ disk \in Before
    /\ staged = None /\ backup = NoFiles /\ journal = None
    /\ writer = NoProcess /\ readers = {}
    /\ step = [p \in Processes |-> "idle"]
    /\ errand = [p \in Processes |-> "none"]
    /\ tries = [p \in Processes |-> 0]
    /\ mishaps = 0 /\ fetches = 0

Contents == (UNION {{d[f] : f \in Files} : d \in Manifests \cup Before}) \cup {Absent}

CatalogTypeOK ==
    /\ disk \in [Files -> Contents] /\ backup \in [Files -> Contents]
    /\ staged = None \/ staged \in [Files -> Contents]
    /\ journal = None \/ journal \in UNION {[s -> BOOLEAN] : s \in SUBSET Files}
    /\ writer \in Processes \cup {NoProcess} /\ readers \subseteq Processes
    /\ step \in [Processes -> {"idle", "peek", "recover", "clean", "prepare", "fetch",
                               "publish", "moveout", "movein", "share", "look", "reading", "close"}]
    /\ errand \in [Processes -> {"none", "fetch", "lease", "undo"}]
    /\ tries \in [Processes -> 0..MaxTries]

-----------------------------------------------------------------------------

Goto(p, s) == step' = [step EXCEPT ![p] = s] /\ UNCHANGED <<errand, tries>>
Unlocked == writer = NoProcess /\ readers = {}
Steady == UNCHANGED <<mishaps, fetches>>

\* The process is back where it was before it came, without its locks.
LeaveCatalog(p) ==
    /\ step' = [step EXCEPT ![p] = "idle"]
    /\ errand' = [errand EXCEPT ![p] = "none"]
    /\ tries' = [tries EXCEPT ![p] = 0]
    /\ writer' = IF writer = p THEN NoProcess ELSE writer
    /\ readers' = readers \ {p}

\* The operating system takes the locks back; the directory stays as it is.  A
\* recovery that fails leaves the same: its stage is kept for a later one.
ProcessCrash(p) ==
    /\ step[p] # "idle"
    /\ mishaps < MaxMishaps /\ mishaps' = mishaps + 1
    /\ LeaveCatalog(p)
    /\ UNCHANGED <<directory, fetches>>

\* beginCatalogInstall takes the lock or gives up.
BeginFetch(p) ==
    /\ step[p] = "idle" /\ Unlocked
    /\ fetches < MaxFetches /\ fetches' = fetches + 1
    /\ writer' = p
    /\ step' = [step EXCEPT ![p] = "recover"]
    /\ errand' = [errand EXCEPT ![p] = "fetch"]
    /\ UNCHANGED <<directory, readers, tries, mishaps>>

-----------------------------------------------------------------------------
\* recoverCatalog, under the lock.

\* The entry was moved away, and is to be put back ...
Backed(f) == backup[f] # Absent
\* ... or is new, and is to be removed.
Intruder(f) == ~Backed(f) /\ ~journal[f] /\ disk[f] # Absent

\* Mutant of ToUndo: a file without a backup is left where it is.
ToUndoBackups == {f \in DOMAIN journal : Backed(f)}

ToUndo == {f \in DOMAIN journal : Backed(f) \/ Intruder(f)}

RecoverRemove(p) ==
    /\ step[p] = "recover" /\ journal # None
    /\ \E f \in ToUndo :
        /\ disk[f] # Absent
        /\ disk' = [disk EXCEPT ![f] = Absent]
    /\ UNCHANGED <<staged, backup, journal, locks, step, errand, tries>> /\ Steady

RecoverRename(p) ==
    /\ step[p] = "recover" /\ journal # None
    /\ \E f \in ToUndo :
        /\ Backed(f) /\ disk[f] = Absent
        /\ disk' = [disk EXCEPT ![f] = backup[f]]
        /\ backup' = [backup EXCEPT ![f] = Absent]
    /\ UNCHANGED <<staged, journal, locks, step, errand, tries>> /\ Steady

\* Every file is back: the journal goes, and then the stage.
RecoverForget(p) ==
    /\ step[p] = "recover"
    /\ journal # None /\ ToUndo = {}
    /\ journal' = None
    /\ Goto(p, "clean")
    /\ UNCHANGED <<disk, staged, backup, locks>> /\ Steady

NothingToRecover(p) ==
    /\ step[p] = "recover" /\ journal = None
    /\ Goto(p, "clean")
    /\ UNCHANGED <<directory, locks>> /\ Steady

\* cleanupCatalogStages; what comes next is up to the errand.
CleanStages(p) ==
    /\ step[p] = "clean"
    /\ staged' = None /\ backup' = NoFiles
    /\ IF errand[p] = "lease"
       THEN /\ Goto(p, "share")
            /\ writer' = NoProcess
       ELSE /\ Goto(p, IF errand[p] = "fetch" THEN "prepare" ELSE "close")
            /\ UNCHANGED writer
    /\ UNCHANGED <<disk, journal, readers>> /\ Steady

-----------------------------------------------------------------------------
\* Fetch, under the lock.

Prepare(p) ==
    /\ step[p] = "prepare"
    /\ staged' = NoFiles
    /\ Goto(p, "fetch")
    /\ UNCHANGED <<disk, backup, journal, locks>> /\ Steady

\* What differs from the manifest is downloaded and verified in the stage, and
\* with it goes the manifest.
Download(p) ==
    /\ step[p] = "fetch"
    /\ \E m \in Manifests :
        LET changed == {f \in Files : m[f] # Absent /\ m[f] # disk[f]}
        IN /\ staged' = [f \in Files |->
                IF changed # {} /\ f \in changed \cup {Entry} THEN m[f] ELSE Absent]
           /\ Goto(p, IF changed = {} THEN "close" ELSE "publish")
    /\ UNCHANGED <<disk, backup, journal, locks>> /\ Steady

\* publish: the journal precedes every rename.
WriteJournal(p) ==
    /\ step[p] = "publish"
    /\ journal' = [f \in {g \in Files : staged[g] # Absent} |-> disk[f] # Absent]
    /\ Goto(p, "moveout")
    /\ UNCHANGED <<disk, staged, backup, locks>> /\ Steady

ToMoveOut == {f \in DOMAIN journal : journal[f] /\ ~Backed(f)}

MoveOut(p) ==
    /\ step[p] = "moveout"
    /\ \E f \in ToMoveOut :
        /\ backup' = [backup EXCEPT ![f] = disk[f]]
        /\ disk' = [disk EXCEPT ![f] = Absent]
    /\ UNCHANGED <<staged, journal, locks, step, errand, tries>> /\ Steady

AllOut(p) ==
    /\ step[p] = "moveout" /\ ToMoveOut = {}
    /\ Goto(p, "movein")
    /\ UNCHANGED <<directory, locks>> /\ Steady

MoveIn(p) ==
    /\ step[p] = "movein"
    /\ \E f \in Files :
        /\ staged[f] # Absent
        /\ disk' = [disk EXCEPT ![f] = staged[f]]
        /\ staged' = [staged EXCEPT ![f] = Absent]
    /\ UNCHANGED <<backup, journal, locks, step, errand, tries>> /\ Steady

\* The journal's removal is the moment of the install.
CommitInstall(p) ==
    /\ step[p] = "movein" /\ staged = NoFiles
    /\ journal' = None
    /\ Goto(p, "close")
    /\ UNCHANGED <<disk, staged, backup, locks>> /\ Steady

\* An operation fails, or the download's context ends.  Before the journal there
\* is only the stage to remove; after it publish undoes what it did.
InstallFails(p) ==
    /\ step[p] \in {"prepare", "fetch", "publish", "moveout", "movein"}
    /\ mishaps < MaxMishaps /\ mishaps' = mishaps + 1
    /\ IF journal = None
       THEN Goto(p, "close")
       ELSE /\ step' = [step EXCEPT ![p] = "recover"]
            /\ errand' = [errand EXCEPT ![p] = "undo"]
            /\ UNCHANGED tries
    /\ UNCHANGED <<directory, locks, fetches>>

\* close, when there is no journal to keep the stage for.
EndFetch(p) ==
    /\ step[p] = "close"
    /\ staged' = None /\ backup' = NoFiles
    /\ LeaveCatalog(p)
    /\ UNCHANGED <<disk, journal>> /\ Steady

-----------------------------------------------------------------------------
\* ReadLease.

BeginLease(p) ==
    /\ step[p] = "idle"
    /\ step' = [step EXCEPT ![p] = "peek"]
    /\ errand' = [errand EXCEPT ![p] = "lease"]
    /\ UNCHANGED <<directory, locks, tries>> /\ Steady

\* Recover: a healthy directory needs no lock; any other is recovered under it.
Peek(p) ==
    /\ step[p] = "peek"
    /\ \/ journal = None /\ staged = None /\ Goto(p, "share") /\ UNCHANGED locks
       \/ /\ journal # None \/ staged # None
          /\ IF Unlocked THEN writer' = p /\ Goto(p, "recover") /\ UNCHANGED readers
                     ELSE LeaveCatalog(p)
    /\ UNCHANGED directory /\ Steady

\* The shared lock, or "catalog is being installed".
Share(p) ==
    /\ step[p] = "share"
    /\ IF writer = NoProcess
       THEN readers' = readers \cup {p} /\ Goto(p, "look") /\ UNCHANGED writer
       ELSE LeaveCatalog(p)
    /\ UNCHANGED directory /\ Steady

\* Mutant of LookAgain: what Recover found is taken to hold still.
LookAgainNever(p) ==
    /\ step[p] = "look"
    /\ Goto(p, "reading")
    /\ UNCHANGED <<directory, locks>> /\ Steady

\* A process may have crashed between recovery and the lock: the journal is
\* looked for again, and everything done again if it is there.
LookAgain(p) ==
    /\ step[p] = "look"
    /\ \/ journal = None /\ Goto(p, "reading") /\ UNCHANGED locks
       \/ /\ journal # None /\ tries[p] + 1 < MaxTries
          /\ step' = [step EXCEPT ![p] = "peek"]
          /\ tries' = [tries EXCEPT ![p] = @ + 1]
          /\ readers' = readers \ {p}
          /\ UNCHANGED <<errand, writer>>
       \/ journal # None /\ tries[p] + 1 = MaxTries /\ LeaveCatalog(p)
    /\ UNCHANGED directory /\ Steady

\* The files are closed and the lease is released.
EndLease(p) ==
    /\ step[p] = "reading"
    /\ LeaveCatalog(p)
    /\ UNCHANGED directory /\ Steady

CatalogStep(p) ==
    \/ BeginFetch(p) \/ ProcessCrash(p) \/ RecoverRemove(p) \/ RecoverRename(p) \/ RecoverForget(p)
    \/ NothingToRecover(p) \/ CleanStages(p) \/ Prepare(p) \/ Download(p) \/ WriteJournal(p)
    \/ MoveOut(p) \/ AllOut(p) \/ MoveIn(p) \/ CommitInstall(p) \/ InstallFails(p)
    \/ EndFetch(p) \/ BeginLease(p) \/ Peek(p) \/ Share(p) \/ LookAgain(p) \/ EndLease(p)

CatalogNext == \E p \in Processes : CatalogStep(p)

CatalogSpec == CatalogInit /\ [][CatalogNext]_catalogVars

-----------------------------------------------------------------------------

\* What the directory stands for: what recovery would make of it.
Restored(f) ==
    IF f \notin DOMAIN journal THEN disk[f]
    ELSE IF Backed(f) THEN backup[f]
    ELSE IF journal[f] THEN disk[f]
    ELSE Absent
Visible == IF journal = None THEN disk ELSE [f \in Files |-> Restored(f)]

Atomic == INSTANCE AtomicInstall WITH content <- Visible

\* Whatever crashes and fails, and however often recovery itself is interrupted,
\* the directory stands for what was there before or for the whole of a
\* manifest (transaction.go:272-384).
InstallIsAtomic == Atomic!Spec

\* Whoever holds a lease sees files that no installer or recovery is at, and
\* none of a half-finished install that a crash left behind (:123-170).
LeaseSeesWhole ==
    \A p \in Processes : step[p] = "reading" =>
        /\ writer = NoProcess
        /\ journal = None
        /\ disk = Visible
=============================================================================
