---------------------------- MODULE LibraryScan ----------------------------
(***************************************************************************)
(* The scan of internal/libraryindex over one root: the durable frontier   *)
(* of directories (scan_epochs, scan_scopes, directory_frontier), the      *)
(* files table it keeps, the in-memory inventory that spares unchanged     *)
(* files their transaction, and a file system that changes meanwhile.      *)
(*                                                                         *)
(* A process claims a batch of directories, walks them side by side, and   *)
(* commits what they hold.  Every directory is committed like a spilled    *)
(* one, in chunks, of one entry each; a small directory is one whose       *)
(* chunks happen to follow each other.  A process may die at any point;    *)
(* the coordinator lock allows one at a time.                              *)
(***************************************************************************)
EXTENDS Integers, FiniteSets

CONSTANTS
    Dirs, Root,  \* directories; the root is one of them
    Parent,      \* of every other directory
    Paths,       \* paths of audio files
    DirOf,       \* the directory each is in
    Batch,       \* directories claimed together
    MaxChanges,  \* bound: changes of the file system
    MaxEpochs    \* bound: scans begun

\* The directories are finitely many, and a tree: upwards, every way ends at its
\* root.
ASSUME TreeAssumption ==
    /\ IsFiniteSet(Dirs) /\ Root \in Dirs
    /\ Parent \in [Dirs \ {Root} -> Dirs]
    /\ \A S \in SUBSET Dirs :
         S # {} /\ (\A d \in S \ {Root} : Parent[d] \in S) => Root \in S
    /\ \A p \in Paths : DirOf[p] \in Dirs
ASSUME ScanAssumption ==
    /\ Batch \in Nat \ {0}
    /\ MaxChanges \in Nat /\ MaxEpochs \in Nat

NoFile == 0

\* The file with inode number i is the one the i-th change created: inodes are
\* not recycled, and there are no hard links.  The stat revision of a file is
\* its inode; a file rewritten in place is JobQueue's concern.
Inodes == 1..MaxChanges

VARIABLES
    at,           \* the file system: the inode at each path
    dirs,         \* its directories
    mtime,        \* of each directory: changes with each of its entries
    changes,      \* changes made so far
    life,         \* history: "virgin", "plain", or "moved", to or from, a path
    tidy,         \* history: no path that was moved to or from, or that had held
                  \* a file before a move, has been used again
    epoch, status,
    front,        \* directory_frontier of the epoch
    outstanding,  \* scan_scopes.outstanding_dirs
    failures,     \* scan_scopes.permission_errors
    rows,         \* the files table, by id: the path an id derives from
    phase,        \* the process: "closed", "resuming", "scanning"
    walked,       \* results of claimed directories, not yet all committed
    cache,        \* scanInventory: the rows at its load ...
    dirty,        \* ... and the ids and inodes that have changed since
    steady,       \* history: paths that have not changed during this epoch
    current       \* history: paths that have not changed since they were last
                  \* looked at: by a walk, or by a resume's check of revisions

disk == <<at, dirs, mtime, changes, life, tidy>>
frontier == <<epoch, status, front, outstanding, failures>>
process == <<phase, walked, cache, dirty>>
history == <<steady, current>>
vars == <<disk, frontier, rows, process, history>>

FrontState == {"none", "pending", "leased", "completed", "failed"}

\* attempt counts to 2: all that is asked of it is whether it exceeds 1.
NoEntry == [state |-> "none", attempt |-> 0, mtime |-> -1]
Entry == [state : FrontState, attempt : 0..2, mtime : -1..MaxChanges]

\* A row keeps its path when it is tombstoned.
NoRow == [exists |-> FALSE]
FileRow == [exists : {TRUE}, path : Paths, inode : Inodes, seen : 0..MaxEpochs, live : BOOLEAN]

NotWalked == [done |-> FALSE]
Walked == [done : {TRUE}, files : [Paths -> Inodes \cup {NoFile}], children : SUBSET Dirs,
           mtime : 0..MaxChanges, reconciled : BOOLEAN]

Init ==
    /\ at = [p \in Paths |-> NoFile]
    /\ dirs = Dirs
    /\ mtime = [d \in Dirs |-> 0]
    /\ changes = 0
    /\ life = [p \in Paths |-> "virgin"] /\ tidy = TRUE
    /\ epoch = 0 /\ status = "none"
    /\ front = [d \in Dirs |-> NoEntry]
    /\ outstanding = 0 /\ failures = 0
    /\ rows = [p \in Paths |-> NoRow]
    /\ phase = "closed"
    /\ walked = [d \in Dirs |-> NotWalked]
    /\ cache = [p \in Paths |-> NoRow]
    /\ dirty = [ids |-> {}, inodes |-> {}]
    /\ steady = {} /\ current = {}

-----------------------------------------------------------------------------
(* The file system *)

\* The next change touches these directories' entries and these paths.
Change(ds, ps) ==
    /\ changes < MaxChanges
    /\ changes' = changes + 1
    /\ mtime' = [d \in Dirs |-> IF d \in ds THEN changes + 1 ELSE mtime[d]]
    /\ steady' = steady \ ps
    /\ current' = current \ ps
    /\ UNCHANGED <<frontier, rows, process>>

Create(p) ==
    /\ DirOf[p] \in dirs
    /\ at' = [at EXCEPT ![p] = changes + 1]
    /\ life' = [life EXCEPT ![p] = IF @ = "moved" THEN "moved" ELSE "plain"]
    /\ tidy' = (tidy /\ life[p] # "moved")
    /\ Change({DirOf[p]}, {p})
    /\ UNCHANGED dirs

Delete(p) ==
    /\ at[p] # NoFile
    /\ at' = [at EXCEPT ![p] = NoFile]
    /\ Change({DirOf[p]}, {p})
    /\ UNCHANGED <<dirs, life, tidy>>

\* What is at q is replaced, as rename does.
Move(p, q) ==
    /\ at[p] # NoFile
    /\ p # q
    /\ DirOf[q] \in dirs
    /\ at' = [at EXCEPT ![p] = NoFile, ![q] = at[p]]
    /\ life' = [life EXCEPT ![p] = "moved", ![q] = "moved"]
    /\ tidy' = (tidy /\ life[p] = "plain" /\ life[q] = "virgin")
    /\ Change({DirOf[p], DirOf[q]}, {p, q})
    /\ UNCHANGED dirs

MakeDir(d) ==
    /\ d \notin dirs
    /\ Parent[d] \in dirs
    /\ dirs' = dirs \cup {d}
    /\ Change({d, Parent[d]}, {})
    /\ UNCHANGED <<at, life, tidy>>

RemoveDir(d) ==
    /\ d \in dirs \ {Root}
    /\ \A p \in Paths : DirOf[p] = d => at[p] = NoFile
    /\ \A c \in dirs \ {Root} : Parent[c] # d
    /\ dirs' = dirs \ {d}
    /\ Change({Parent[d]}, {})
    /\ UNCHANGED <<at, life, tidy>>

-----------------------------------------------------------------------------
(* BeginOrResumeEpoch, loadScanInventory *)

Open(d) == front[d].state \in {"pending", "leased"}

LoadInventory(rs) ==
    /\ cache' = rs
    /\ dirty' = [ids |-> {}, inodes |-> {}]
    /\ walked' = [d \in Dirs |-> NotWalked]
    /\ phase' = "scanning"

\* No epoch is being enumerated, or one with other roots or another symlink
\* policy is: it is interrupted, and its tasks abandoned.
BeginEpoch ==
    /\ phase = "closed"
    /\ epoch < MaxEpochs
    /\ epoch' = epoch + 1
    /\ status' = "enumerating"
    /\ front' = [d \in Dirs |-> IF d = Root THEN [NoEntry EXCEPT !.state = "pending"]
                                            ELSE NoEntry]
    /\ outstanding' = 1
    /\ failures' = 0
    /\ LoadInventory(rows)
    /\ steady' = Paths
    /\ current' = {}
    /\ UNCHANGED <<disk, rows>>

\* Leases of the process that died go back to pending ...
ResumeEpoch ==
    /\ phase = "closed"
    /\ status = "enumerating"
    /\ front' = [d \in Dirs |-> IF front[d].state = "leased"
                                  THEN [front[d] EXCEPT !.state = "pending"] ELSE front[d]]
    /\ phase' = "resuming"
    /\ UNCHANGED <<disk, epoch, status, outstanding, failures, rows, walked, cache, dirty, history>>

Outdated(d) == d \notin dirs \/ mtime[d] # front[d].mtime

\* Mutant of Requeue: the scope's barrier is not moved.
RequeueUncounted(ds) ==
    /\ front' = [d \in Dirs |-> IF d \in ds THEN [front[d] EXCEPT !.state = "pending"]
                                            ELSE front[d]]
    /\ UNCHANGED outstanding

Requeue(ds) ==
    /\ front' = [d \in Dirs |-> IF d \in ds THEN [front[d] EXCEPT !.state = "pending"]
                                            ELSE front[d]]
    /\ outstanding' = outstanding + Cardinality(ds)

\* ... and completed directories whose revision has changed are walked again.
RequeueChangedDirectories ==
    /\ phase = "resuming"
    /\ Requeue({d \in Dirs : front[d].state = "completed" /\ Outdated(d)})
    /\ LoadInventory(rows)
    /\ current' = current \cup {p \in Paths : front[DirOf[p]].state = "completed"}
    /\ UNCHANGED <<disk, epoch, status, failures, rows, steady>>

-----------------------------------------------------------------------------
(* ClaimDirectories, walkScanDirectory *)

Leased == {d \in Dirs : front[d].state = "leased"}
Pending == {d \in Dirs : front[d].state = "pending"}

Lease(e) ==
    [state |-> "leased", attempt |-> IF e.attempt = 0 THEN 1 ELSE 2, mtime |-> e.mtime]

\* The next batch is claimed when the last one is committed.
ClaimDirectories(ds) ==
    /\ phase = "scanning"
    /\ Leased = {}
    /\ ds # {} /\ ds \subseteq Pending
    /\ Cardinality(ds) = Batch \/ (ds = Pending /\ Cardinality(ds) < Batch)
    /\ front' = [d \in Dirs |-> IF d \in ds THEN Lease(front[d]) ELSE front[d]]
    /\ UNCHANGED <<disk, epoch, status, outstanding, failures, rows, process, history>>

\* A walk during which the directory's revision changed reports nothing: what a
\* walk that succeeds has seen was all there at once.
Walk(d) ==
    /\ phase = "scanning"
    /\ d \in Leased \cap dirs
    /\ ~walked[d].done
    /\ walked' = [walked EXCEPT ![d] =
                    [done |-> TRUE, mtime |-> mtime[d], reconciled |-> FALSE,
                     files |-> [p \in Paths |-> IF DirOf[p] = d THEN at[p] ELSE NoFile],
                     children |-> {c \in dirs \ {Root} : Parent[c] = d}]]
    /\ current' = current \cup {p \in Paths : DirOf[p] = d}
    /\ UNCHANGED <<disk, frontier, rows, phase, cache, dirty, steady>>

\* It has gone, cannot be read, or changed eight times while it was read.
FailDirectory(d) ==
    /\ phase = "scanning"
    /\ d \in Leased
    /\ ~walked[d].done
    /\ front' = [front EXCEPT ![d].state = "failed"]
    /\ outstanding' = outstanding - 1
    /\ failures' = failures + 1
    /\ UNCHANGED <<disk, epoch, status, rows, process, history>>

-----------------------------------------------------------------------------
(* unchanged, unseen, touched: the inventory in memory *)

\* Observing p would leave its row as it is, but for the epoch that saw it.
\* (Its jobs may need observing all the same, and an inventory too large to
\* keep is not kept: CacheSound says that this makes no difference here.)
Unchanged(p, i, x) ==
    /\ cache[x].exists /\ cache[x].live
    /\ cache[x].path = p /\ cache[x].inode = i
    /\ x \notin dirty.ids /\ i \notin dirty.inodes
    /\ \A y \in Paths : cache[y].exists => (cache[y].live /\ cache[y].inode = i => y = x)

\* No row can match p.
Unseen(p, i) ==
    /\ ~cache[p].exists
    /\ \A x \in Paths : cache[x].exists =>
         cache[x].path # p /\ ~(cache[x].live /\ cache[x].inode = i)
    /\ p \notin dirty.ids /\ i \notin dirty.inodes

\* Mutant of Touched: the inventory is trusted to the end of the scan.
TouchedNothing(x, i) == dirty

Touched(x, i) == [ids |-> dirty.ids \cup {x}, inodes |-> dirty.inodes \cup {i}]

-----------------------------------------------------------------------------
(* observeKnown *)

LiveWith(rs, i) == {x \in Paths : rs[x].exists /\ (rs[x].live /\ rs[x].inode = i)}

\* The durable identity of a file: a live row with its inode, or else its path.
Identities(rs, p, i) == IF Unseen(p, i) \/ LiveWith(rs, i) = {} THEN {p} ELSE LiveWith(rs, i)

Observed(rs, x, p, i) ==
    [rs EXCEPT ![x] = [exists |-> TRUE, path |-> p, inode |-> i, seen |-> epoch, live |-> TRUE]]

\* UNIQUE(root_id, relative_path); the upsert resolves a conflict of ids only.
Unique(rs) ==
    \A x, y \in Paths : rs[x].exists /\ rs[y].exists => (rs[x].path = rs[y].path => x = y)

-----------------------------------------------------------------------------
(* commitScanBatch *)

\* Mutant of Marks: what an earlier attempt has published keeps its marks.
MarksKept(d) == rows

\* The first chunk of a directory that has been claimed before takes back the
\* marks of the files that are directly in it.  (A walk that was repeated at
\* once does the same, and finds none.)
Marks(d) ==
    [x \in Paths |->
       IF /\ front[d].attempt > 1 /\ ~walked[d].reconciled
          /\ rows[x].exists /\ DirOf[rows[x].path] = d /\ rows[x].seen = epoch
         THEN [rows[x] EXCEPT !.seen = epoch - 1]
         ELSE rows[x]]

Publishing(d) == phase = "scanning" /\ walked[d].done

\* What is left of a report after a chunk of it.
Left(report, files, children) ==
    [done |-> TRUE, files |-> files, children |-> children, mtime |-> report.mtime,
     reconciled |-> TRUE]

Published(d, p) ==
    walked' = [walked EXCEPT ![d] = Left(@, [@.files EXCEPT ![p] = NoFile], @.children)]

\* A file that is unchanged is only touched ...
TouchFile(d, p) ==
    /\ Publishing(d)
    /\ walked[d].files[p] # NoFile
    /\ \E x \in Paths :
         /\ Unchanged(p, walked[d].files[p], x)
         /\ rows' = [Marks(d) EXCEPT ![x].seen = epoch]
    /\ Published(d, p)
    /\ UNCHANGED <<disk, frontier, phase, cache, dirty, history>>

\* ... any other is observed, ...
ObserveFile(d, p) ==
    LET i == walked[d].files[p] IN
    /\ Publishing(d)
    /\ i # NoFile
    /\ ~\E x \in Paths : Unchanged(p, i, x)
    /\ \E x \in Identities(Marks(d), p, i) :
         /\ Unique(Observed(Marks(d), x, p, i))
         /\ rows' = Observed(Marks(d), x, p, i)
         /\ dirty' = Touched(x, i)
    /\ Published(d, p)
    /\ UNCHANGED <<disk, frontier, phase, cache, history>>

\* Every identity the lookup may return is refused.
Refused(d, p) ==
    LET i == walked[d].files[p] IN
    /\ i # NoFile
    /\ ~\E x \in Paths : Unchanged(p, i, x)
    /\ \A x \in Identities(Marks(d), p, i) : ~Unique(Observed(Marks(d), x, p, i))

Closed ==
    /\ phase' = "closed"
    /\ walked' = [d \in Dirs |-> NotWalked]
    /\ cache' = [p \in Paths |-> NoRow]
    /\ dirty' = [ids |-> {}, inodes |-> {}]

\* ... and a constraint that fails ends the scan.
RefuseFile(d, p) ==
    /\ Publishing(d)
    /\ Refused(d, p)
    /\ Closed
    /\ UNCHANGED <<disk, frontier, rows, history>>

\* Mutant of PublishChild: a child that is known already is counted again.
PublishChildAgain(d, c) ==
    /\ Publishing(d)
    /\ c \in walked[d].children
    /\ front' = [front EXCEPT ![c].state = IF @ = "none" THEN "pending" ELSE @]
    /\ outstanding' = outstanding + 1
    /\ rows' = Marks(d)
    /\ walked' = [walked EXCEPT ![d] = Left(@, @.files, @.children \ {c})]
    /\ UNCHANGED <<disk, epoch, status, failures, phase, cache, dirty, history>>

PublishChild(d, c) ==
    /\ Publishing(d)
    /\ c \in walked[d].children
    /\ IF front[c].state = "none"
         THEN /\ front' = [front EXCEPT ![c].state = "pending"]
              /\ outstanding' = outstanding + 1
         ELSE UNCHANGED <<front, outstanding>>
    /\ rows' = Marks(d)
    /\ walked' = [walked EXCEPT ![d] = Left(@, @.files, @.children \ {c})]
    /\ UNCHANGED <<disk, epoch, status, failures, phase, cache, dirty, history>>

CompleteDirectory(d) ==
    /\ Publishing(d)
    /\ walked[d].children = {}
    /\ \A p \in Paths : walked[d].files[p] = NoFile
    /\ front' = [front EXCEPT ![d] = [state |-> "completed", attempt |-> @.attempt,
                                      mtime |-> walked[d].mtime]]
    /\ outstanding' = outstanding - 1
    /\ rows' = Marks(d)
    /\ walked' = [walked EXCEPT ![d] = NotWalked]
    /\ UNCHANGED <<disk, epoch, status, failures, phase, cache, dirty, history>>

-----------------------------------------------------------------------------
(* FinishEpoch, and the end of the process *)

\* Mutant of Reconciled: a scope that could not be read is reconciled too.
ReconciledAnyway ==
    [x \in Paths |-> IF rows[x].exists /\ rows[x].seen < epoch
                       THEN [rows[x] EXCEPT !.live = FALSE] ELSE rows[x]]

\* What was not seen is missing, if everything could be read.
Reconciled ==
    [x \in Paths |-> IF failures = 0 /\ rows[x].exists /\ rows[x].seen < epoch
                       THEN [rows[x] EXCEPT !.live = FALSE] ELSE rows[x]]

\* With directories outstanding it is an error, and the epoch stays open.
FinishEpoch ==
    /\ phase = "scanning"
    /\ Leased = {} /\ Pending = {}
    /\ IF outstanding = 0
         THEN /\ status' = IF failures = 0 THEN "completed" ELSE "partial"
              /\ rows' = Reconciled
         ELSE UNCHANGED <<status, rows>>
    /\ Closed
    /\ UNCHANGED <<disk, epoch, front, outstanding, failures, history>>

\* A crash, a cancellation or a requested stop.
Interrupt ==
    /\ phase # "closed"
    /\ Closed
    /\ UNCHANGED <<disk, frontier, rows, history>>

\* Nobody need scan.
Rest == phase = "closed" /\ UNCHANGED vars

Next ==
    \/ \E p \in Paths : Create(p) \/ Delete(p) \/ \E q \in Paths : Move(p, q)
    \/ \E d \in Dirs \ {Root} : MakeDir(d) \/ RemoveDir(d)
    \/ BeginEpoch \/ ResumeEpoch \/ RequeueChangedDirectories
    \/ \E ds \in SUBSET Dirs : ClaimDirectories(ds)
    \/ \E d \in Dirs :
         \/ Walk(d) \/ FailDirectory(d) \/ CompleteDirectory(d)
         \/ \E p \in Paths : TouchFile(d, p) \/ ObserveFile(d, p) \/ RefuseFile(d, p)
         \/ \E c \in Dirs : PublishChild(d, c)
    \/ FinishEpoch \/ Interrupt \/ Rest

Spec == Init /\ [][Next]_vars

-----------------------------------------------------------------------------
(* Properties *)

\* The types; and rows never share a path.
TypeOK ==
    /\ at \in [Paths -> Inodes \cup {NoFile}]
    /\ dirs \subseteq Dirs
    /\ mtime \in [Dirs -> 0..MaxChanges]
    /\ changes \in 0..MaxChanges
    /\ life \in [Paths -> {"virgin", "plain", "moved"}]
    /\ tidy \in BOOLEAN
    /\ epoch \in 0..MaxEpochs
    /\ status \in {"none", "enumerating", "completed", "partial"}
    /\ front \in [Dirs -> Entry]
    /\ outstanding \in 0..Cardinality(Dirs)
    /\ failures \in 0..Cardinality(Dirs)
    /\ \A p \in Paths : rows[p] = NoRow \/ rows[p] \in FileRow
    /\ Unique(rows)
    /\ phase \in {"closed", "resuming", "scanning"}
    /\ \A d \in Dirs : walked[d] = NotWalked \/ walked[d] \in Walked
    /\ \A p \in Paths : cache[p] = NoRow \/ cache[p] \in FileRow
    /\ dirty \in [ids : SUBSET Paths, inodes : SUBSET Inodes]
    /\ steady \subseteq Paths /\ current \subseteq Paths

\* The barrier of a scope counts its open directories, and its errors those
\* that failed, whatever was published in part, lost, resumed or walked again:
\* a scan that claims nothing more can be finished.
OutstandingExact ==
    /\ outstanding = Cardinality({d \in Dirs : Open(d)})
    /\ failures = Cardinality({d \in Dirs : front[d].state = "failed"})

\* The inventory in memory answers as the database would, to the last chunk.
CacheSound ==
    \A d \in {e \in Dirs : Publishing(e)} : \A p \in Paths :
        LET i == walked[d].files[p] IN
        i # NoFile =>
          /\ \A x \in Paths : Unchanged(p, i, x) =>
               /\ LiveWith(rows, i) = {x}
               /\ Observed(rows, x, p, i) = [rows EXCEPT ![x].seen = epoch]
          /\ Unseen(p, i) => /\ LiveWith(rows, i) = {}
                             /\ \A x \in Paths : rows[x].exists => x # p /\ rows[x].path # p

\* A file that was there, unchanged, from the beginning of a scan to its end is
\* not declared missing by it, whatever else failed or was interrupted.
NoFalseTombstone ==
    [][\A x \in Paths :
         rows[x].exists /\ rows[x].live /\ rows[x].path \in steady
           /\ at[rows[x].path] = rows[x].inode
           => rows'[x].live]_vars

\* The files table is true of a path.
Recorded(p) ==
    LET here == {x \in Paths : rows[x].exists /\ (rows[x].live /\ rows[x].path = p)} IN
    IF at[p] = NoFile THEN here = {} ELSE \E x \in here : rows[x].inode = at[p]

Completes == status # "completed" /\ status' = "completed"

\* A scan that completes, however often it was interrupted and resumed, leaves
\* the files table true of every path that has not changed since the scan began
\* or, if no move has touched it, since the scan last looked there; while no
\* path is used again after a move.  (A file that is moved during the scan may
\* be missed: of two directories the one walked first may be committed last.)
CompleteInventory ==
    [][Completes =>
         \A p \in (IF tidy THEN steady ELSE {})
                    \cup {q \in steady \cup current : life[q] # "moved"} : Recorded(p)']_vars

\* A normal scan validates each source file, whatever has been moved before it.
ValidatesEachFile == [][Completes => \A p \in steady : Recorded(p)']_vars

\* What a directory was found to hold can be recorded: identity is resolved by
\* inode, so that a file that was moved keeps its row.
ObservationsApply ==
    \A d \in {e \in Dirs : Publishing(e)} : \A p \in Paths : ~Refused(d, p)

=============================================================================
