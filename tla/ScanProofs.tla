----------------------------- MODULE ScanProofs -----------------------------
(* What a scan of the library keeps, over any tree, whatever changes in it    *)
(* meanwhile and wherever the process ends.                                  *)
EXTENDS LibraryScan, FiniteSetTheorems, TLAPS

-----------------------------------------------------------------------------
(* The inductive invariant *)

Rows == FileRow \cup {NoRow}

\* The types: of the file system,
DiskTypes ==
    /\ at \in [Paths -> Inodes \cup {NoFile}]
    /\ dirs \subseteq Dirs
    /\ mtime \in [Dirs -> 0..MaxChanges]
    /\ changes \in 0..MaxChanges
    /\ life \in [Paths -> {"virgin", "plain", "moved"}]
    /\ tidy \in BOOLEAN
    /\ steady \subseteq Paths /\ current \subseteq Paths

\* of the frontier,
FrontTypes ==
    /\ epoch \in 0..MaxEpochs
    /\ status \in {"none", "enumerating", "completed", "partial"}
    /\ front \in [Dirs -> Entry]
    /\ phase \in {"closed", "resuming", "scanning"}

\* of the files table and its inventory,
RowTypes ==
    /\ rows \in [Paths -> Rows] /\ Unique(rows)
    /\ cache \in [Paths -> Rows]
    /\ dirty \in [ids : SUBSET Paths, inodes : SUBSET Inodes]

\* and of what has been walked: leased directories, and the files in them.
WalkTypes ==
    /\ walked \in [Dirs -> Walked \cup {NotWalked}]
    /\ \A d \in Dirs : walked[d].done =>
         /\ phase = "scanning" /\ front[d].state = "leased"
         /\ \A p \in Paths : walked[d].files[p] # NoFile => DirOf[p] = d

\* What is there is in a directory that is there.
DiskIsATree ==
    /\ Root \in dirs
    /\ \A d \in dirs \ {Root} : Parent[d] \in dirs
    /\ \A p \in Paths : at[p] # NoFile => DirOf[p] \in dirs

\* A scan that has begun has its root.
Begun ==
    /\ status # "none" => epoch >= 1 /\ front[Root].state # "none"
    /\ phase # "closed" => status # "none"

\* Outside the ids and the inodes that have changed since, the inventory is the
\* files table; a changed row is that of a path that will not be published again.
Agrees(r, s) ==
    /\ r.exists = s.exists
    /\ r.exists => r.path = s.path /\ r.inode = s.inode /\ r.live = s.live
Over(p) ==
    \/ front[DirOf[p]].state = "completed"
    \/ walked[DirOf[p]].done /\ walked[DirOf[p]].files[p] = NoFile
Inventory ==
    phase = "scanning" =>
      /\ \A x \in Paths \ dirty.ids : Agrees(cache[x], rows[x])
      /\ \A x \in dirty.ids :
           /\ rows[x].exists /\ rows[x].live
           /\ rows[x].inode \in dirty.inodes /\ Over(rows[x].path)

ScanTypes ==
    /\ DiskTypes /\ FrontTypes /\ RowTypes /\ WalkTypes
    /\ DiskIsATree /\ Begun /\ Inventory /\ OutstandingExact

USE TreeAssumption, ScanAssumption

-----------------------------------------------------------------------------
(* Records *)

\* A row of the table is one thing or the other.
LEMMA RowFacts ==
    ASSUME NEW r \in Rows
    PROVE  \/ r = NoRow /\ ~r.exists
           \/ /\ r \in FileRow /\ r.exists /\ r.path \in Paths /\ r.inode \in Inodes
              /\ r.seen \in 0..MaxEpochs /\ r.live \in BOOLEAN
  <1>1. CASE r = NoRow
    BY <1>1 DEF NoRow
  <1>2. CASE r \in FileRow
    BY <1>2 DEF FileRow
  <1> QED
    BY <1>1, <1>2 DEF Rows

\* Another scan has seen it.
LEMMA SeenAgain ==
    ASSUME NEW r \in FileRow, NEW s \in 0..MaxEpochs
    PROVE  /\ [r EXCEPT !.seen = s] \in FileRow
           /\ Agrees(r, [r EXCEPT !.seen = s]) /\ [r EXCEPT !.seen = s].seen = s
           /\ [r EXCEPT !.seen = s].exists
           /\ [r EXCEPT !.seen = s].path = r.path /\ [r EXCEPT !.seen = s].inode = r.inode
           /\ [r EXCEPT !.seen = s].live = r.live
  BY DEF FileRow, Agrees

\* Observed as it was, it has only been seen.
LEMMA SeenAnew ==
    ASSUME NEW r \in FileRow, r.live, NEW s
    PROVE  [exists |-> TRUE, path |-> r.path, inode |-> r.inode, seen |-> s, live |-> TRUE]
             = [r EXCEPT !.seen = s]
  <1>1. r.exists = TRUE /\ r.live = TRUE
    BY DEF FileRow
  <1> DEFINE e == [r EXCEPT !.seen = s]
  <1>2. /\ e \in [exists : {TRUE}, path : Paths, inode : Inodes, seen : {s}, live : BOOLEAN]
        /\ e.path = r.path /\ e.inode = r.inode /\ e.live = r.live
    BY DEF FileRow
  <1> HIDE DEF e
  <1>3. e = [exists |-> TRUE, path |-> r.path, inode |-> r.inode, seen |-> s, live |-> TRUE]
    BY <1>1, <1>2
  <1> QED
    BY <1>3 DEF e

\* It is missing.
LEMMA DeadNow ==
    ASSUME NEW r \in FileRow
    PROVE  /\ [r EXCEPT !.live = FALSE] \in FileRow
           /\ [r EXCEPT !.live = FALSE].exists
           /\ [r EXCEPT !.live = FALSE].path = r.path
           /\ [r EXCEPT !.live = FALSE].inode = r.inode
           /\ [r EXCEPT !.live = FALSE].seen = r.seen /\ ~[r EXCEPT !.live = FALSE].live
  BY DEF FileRow

\* What was walked is there, or not.
LEMMA WalkFacts ==
    ASSUME NEW w \in Walked \cup {NotWalked}
    PROVE  \/ w = NotWalked /\ ~w.done
           \/ /\ w \in Walked /\ w.done /\ w.files \in [Paths -> Inodes \cup {NoFile}]
              /\ w.children \subseteq Dirs /\ w.mtime \in 0..MaxChanges
              /\ w.reconciled \in BOOLEAN
  <1>1. CASE w = NotWalked
    BY <1>1 DEF NotWalked
  <1>2. CASE w \in Walked
    <2>1. w.done \in {TRUE}
      BY <1>2 DEF Walked
    <2>2. /\ w.files \in [Paths -> Inodes \cup {NoFile}] /\ w.children \in SUBSET Dirs
          /\ w.mtime \in 0..MaxChanges /\ w.reconciled \in BOOLEAN
      BY <1>2 DEF Walked
    <2> QED
      BY <1>2, <2>1, <2>2
  <1> QED
    BY <1>1, <1>2

\* A place in the frontier changes its state.
LEMMA EntryFacts ==
    ASSUME NEW e \in Entry, NEW s \in FrontState
    PROVE  /\ [e EXCEPT !.state = s] \in Entry /\ [e EXCEPT !.state = s].state = s
           /\ [e EXCEPT !.state = s].attempt = e.attempt /\ [e EXCEPT !.state = s].mtime = e.mtime
           /\ e.state \in FrontState /\ e.attempt \in 0..2 /\ e.mtime \in -1..MaxChanges
  BY DEF Entry, FrontState

\* The marks of a directory that is published again.
LEMMA MarksFacts ==
    ASSUME RowTypes, FrontTypes, WalkTypes, epoch >= 1, NEW d \in Dirs
    PROVE  /\ Marks(d) \in [Paths -> Rows]
           /\ \A x \in Paths : Agrees(rows[x], Marks(d)[x])
           /\ \A x \in Paths : rows[x] = NoRow => Marks(d)[x] = NoRow
           /\ \A x \in Paths :
                rows[x].exists /\ (DirOf[rows[x].path] # d \/ walked[d].reconciled)
                  => Marks(d)[x] = rows[x]
  <1>1. \A x \in Paths : rows[x] \in Rows
    BY DEF RowTypes
  <1>2. epoch - 1 \in 0..MaxEpochs
    BY DEF FrontTypes
  <1> DEFINE Back(x) == /\ front[d].attempt > 1 /\ ~walked[d].reconciled
                        /\ rows[x].exists /\ DirOf[rows[x].path] = d /\ rows[x].seen = epoch
  <1>3. \A x \in Paths : Marks(d)[x] = IF Back(x) THEN [rows[x] EXCEPT !.seen = epoch - 1] ELSE rows[x]
    BY DEF Marks
  <1>4. ASSUME NEW x \in Paths
        PROVE  /\ Marks(d)[x] \in Rows /\ Agrees(rows[x], Marks(d)[x])
               /\ rows[x] = NoRow => Marks(d)[x] = NoRow
    <2>1. CASE Back(x)
      <3>1. rows[x] \in FileRow /\ Marks(d)[x] = [rows[x] EXCEPT !.seen = epoch - 1]
        BY <1>1, <1>3, <2>1, RowFacts
      <3> QED
        BY <1>2, <2>1, <3>1, SeenAgain DEF Rows, NoRow
    <2>2. CASE ~Back(x)
      BY <1>1, <1>3, <2>2 DEF Agrees
    <2> QED
      BY <2>1, <2>2
  <1>5. Marks(d) \in [Paths -> Rows]
    <2>1. \A x \in Paths : Marks(d)[x] \in Rows
      BY <1>4
    <2>2. Marks(d) = [x \in Paths |-> Marks(d)[x]]
      BY DEF Marks
    <2> HIDE DEF Marks
    <2> QED
      BY <2>1, <2>2
  <1> QED
    BY <1>3, <1>4, <1>5

-----------------------------------------------------------------------------
(* Frames *)

\* What the file system does is no business of the scan's tables ...
LEMMA TablesFrame ==
    ASSUME ScanTypes, UNCHANGED <<frontier, rows, process>>
    PROVE  FrontTypes' /\ RowTypes' /\ WalkTypes' /\ Begun' /\ Inventory' /\ OutstandingExact'
  <1>1. /\ epoch' = epoch /\ status' = status /\ front' = front
        /\ outstanding' = outstanding /\ failures' = failures /\ rows' = rows
        /\ phase' = phase /\ walked' = walked /\ cache' = cache /\ dirty' = dirty
    BY DEF frontier, process
  <1>2. FrontTypes /\ RowTypes /\ WalkTypes /\ Begun /\ Inventory /\ OutstandingExact
    BY DEF ScanTypes
  <1>3. FrontTypes'
    BY <1>1, <1>2 DEF FrontTypes
  <1>4. RowTypes'
    BY <1>1, <1>2 DEF RowTypes, Unique
  <1>5. WalkTypes'
    BY <1>1, <1>2 DEF WalkTypes
  <1>6. Begun'
    BY <1>1, <1>2 DEF Begun
  <1>7. Inventory'
    BY <1>1, <1>2 DEF Inventory, Over
  <1>8. OutstandingExact'
    BY <1>1, <1>2 DEF OutstandingExact, Open
  <1> QED
    BY <1>3, <1>4, <1>5, <1>6, <1>7, <1>8

\* ... nor does a scan change the file system.
LEMMA DiskFrame ==
    ASSUME ScanTypes, UNCHANGED disk, steady' \subseteq Paths, current' \subseteq Paths
    PROVE  DiskTypes' /\ DiskIsATree'
  <1>1. /\ at' = at /\ dirs' = dirs /\ mtime' = mtime /\ changes' = changes
        /\ life' = life /\ tidy' = tidy
    BY DEF disk
  <1>2. DiskTypes /\ DiskIsATree
    BY DEF ScanTypes
  <1>3. DiskTypes'
    BY <1>1, <1>2 DEF DiskTypes
  <1>4. DiskIsATree'
    BY <1>1, <1>2 DEF DiskIsATree
  <1> QED
    BY <1>3, <1>4

-----------------------------------------------------------------------------
(* The steps *)

DiskStep ==
    \/ \E p \in Paths : Create(p) \/ Delete(p) \/ \E q \in Paths : Move(p, q)
    \/ \E d \in Dirs \ {Root} : MakeDir(d) \/ RemoveDir(d)

\* A change of the file system leaves a tree.
LEMMA DiskStepTypes ==
    ASSUME ScanTypes, DiskStep
    PROVE  ScanTypes'
  <1>0. /\ at \in [Paths -> Inodes \cup {NoFile}]
        /\ dirs \subseteq Dirs
        /\ mtime \in [Dirs -> 0..MaxChanges]
        /\ changes \in 0..MaxChanges
        /\ life \in [Paths -> {"virgin", "plain", "moved"}]
        /\ tidy \in BOOLEAN
        /\ steady \subseteq Paths /\ current \subseteq Paths
        /\ DiskIsATree
    BY DEF ScanTypes, DiskTypes
  <1>1. ASSUME NEW ds, NEW ps, Change(ds, ps)
        PROVE  /\ changes' \in 0..MaxChanges /\ mtime' \in [Dirs -> 0..MaxChanges]
               /\ steady' \subseteq Paths /\ current' \subseteq Paths
               /\ UNCHANGED <<frontier, rows, process>>
               /\ changes + 1 \in Inodes
    <2>1. /\ changes < MaxChanges /\ changes' = changes + 1
          /\ mtime' = [d \in Dirs |-> IF d \in ds THEN changes + 1 ELSE mtime[d]]
          /\ steady' = steady \ ps /\ current' = current \ ps
          /\ UNCHANGED <<frontier, rows, process>>
      BY <1>1 DEF Change
    <2>2. changes + 1 \in 1..MaxChanges /\ changes + 1 \in 0..MaxChanges
      BY <1>0, <2>1
    <2>3. mtime' \in [Dirs -> 0..MaxChanges]
      BY <1>0, <2>1, <2>2
    <2> QED
      BY <1>0, <2>1, <2>2, <2>3 DEF Inodes
  <1>2. ASSUME NEW p \in Paths, Create(p)
        PROVE  DiskTypes' /\ DiskIsATree' /\ UNCHANGED <<frontier, rows, process>>
    <2>1. /\ Change({DirOf[p]}, {p}) /\ dirs' = dirs /\ DirOf[p] \in dirs
          /\ at' = [at EXCEPT ![p] = changes + 1] /\ tidy' \in BOOLEAN
          /\ life' = [life EXCEPT ![p] = IF @ = "moved" THEN "moved" ELSE "plain"]
      BY <1>0, <1>2 DEF Create
    <2>2. life' \in [Paths -> {"virgin", "plain", "moved"}]
      BY <1>0, <2>1
    <2>3. /\ changes' \in 0..MaxChanges /\ mtime' \in [Dirs -> 0..MaxChanges]
          /\ steady' \subseteq Paths /\ current' \subseteq Paths
          /\ UNCHANGED <<frontier, rows, process>> /\ changes + 1 \in Inodes
      BY <1>1, <2>1
    <2>4. at' \in [Paths -> Inodes \cup {NoFile}]
      BY <1>0, <2>1, <2>3
    <2>5. DiskTypes'
      BY <1>0, <2>1, <2>2, <2>3, <2>4 DEF DiskTypes
    <2>6. DiskIsATree'
      BY <1>0, <2>1 DEF DiskIsATree
    <2> QED
      BY <2>3, <2>5, <2>6
  <1>3. ASSUME NEW p \in Paths, Delete(p)
        PROVE  DiskTypes' /\ DiskIsATree' /\ UNCHANGED <<frontier, rows, process>>
    <2>1. /\ Change({DirOf[p]}, {p}) /\ UNCHANGED <<dirs, life, tidy>>
          /\ at' = [at EXCEPT ![p] = NoFile]
      BY <1>3 DEF Delete
    <2>2. /\ changes' \in 0..MaxChanges /\ mtime' \in [Dirs -> 0..MaxChanges]
          /\ steady' \subseteq Paths /\ current' \subseteq Paths
          /\ UNCHANGED <<frontier, rows, process>>
      BY <1>1, <2>1
    <2>3. DiskTypes'
      BY <1>0, <2>1, <2>2 DEF DiskTypes
    <2>4. DiskIsATree'
      BY <1>0, <2>1 DEF DiskIsATree
    <2> QED
      BY <2>2, <2>3, <2>4
  <1>4. ASSUME NEW p \in Paths, NEW q \in Paths, Move(p, q)
        PROVE  DiskTypes' /\ DiskIsATree' /\ UNCHANGED <<frontier, rows, process>>
    <2>1. /\ Change({DirOf[p], DirOf[q]}, {p, q}) /\ dirs' = dirs /\ DirOf[q] \in dirs /\ p # q
          /\ at' = [at EXCEPT ![p] = NoFile, ![q] = at[p]] /\ tidy' \in BOOLEAN
          /\ life' = [life EXCEPT ![p] = "moved", ![q] = "moved"]
      BY <1>0, <1>4 DEF Move
    <2>2. /\ changes' \in 0..MaxChanges /\ mtime' \in [Dirs -> 0..MaxChanges]
          /\ steady' \subseteq Paths /\ current' \subseteq Paths
          /\ UNCHANGED <<frontier, rows, process>>
      BY <1>1, <2>1
    <2>3. /\ at' \in [Paths -> Inodes \cup {NoFile}]
          /\ life' \in [Paths -> {"virgin", "plain", "moved"}]
      BY <1>0, <2>1
    <2>4. DiskTypes'
      BY <1>0, <2>1, <2>2, <2>3 DEF DiskTypes
    <2>5. DiskIsATree'
      BY <1>0, <2>1 DEF DiskIsATree
    <2> QED
      BY <2>2, <2>4, <2>5
  <1>5. ASSUME NEW d \in Dirs \ {Root}, MakeDir(d) \/ RemoveDir(d)
        PROVE  DiskTypes' /\ DiskIsATree' /\ UNCHANGED <<frontier, rows, process>>
    <2>1. /\ Change({d, Parent[d]}, {}) \/ Change({Parent[d]}, {})
          /\ UNCHANGED <<at, life, tidy>>
          /\ \/ dirs' = dirs \cup {d} /\ Parent[d] \in dirs
             \/ /\ dirs' = dirs \ {d} /\ \A p \in Paths : DirOf[p] = d => at[p] = NoFile
                /\ \A c \in dirs \ {Root} : Parent[c] # d
      BY <1>5 DEF MakeDir, RemoveDir
    <2>2. /\ changes' \in 0..MaxChanges /\ mtime' \in [Dirs -> 0..MaxChanges]
          /\ steady' \subseteq Paths /\ current' \subseteq Paths
          /\ UNCHANGED <<frontier, rows, process>>
      BY <1>1, <2>1
    <2>3. DiskTypes'
      BY <1>0, <2>1, <2>2 DEF DiskTypes
    <2>4. DiskIsATree'
      BY <1>0, <2>1 DEF DiskIsATree
    <2> QED
      BY <2>2, <2>3, <2>4
  <1>6. DiskTypes' /\ DiskIsATree' /\ UNCHANGED <<frontier, rows, process>>
    BY <1>2, <1>3, <1>4, <1>5 DEF DiskStep
  <1> QED
    BY <1>6, TablesFrame DEF ScanTypes

\* The directories the barrier counts, and those that failed.
OpenDirs == {d \in Dirs : Open(d)}
FailedDirs == {d \in Dirs : front[d].state = "failed"}

\* They are finitely many.
LEMMA CountFacts ==
    /\ IsFiniteSet(OpenDirs) /\ Cardinality(OpenDirs) \in Nat
    /\ IsFiniteSet(FailedDirs) /\ Cardinality(FailedDirs) \in Nat
    /\ Cardinality(OpenDirs) <= Cardinality(Dirs) /\ Cardinality(FailedDirs) <= Cardinality(Dirs)
  <1>1. OpenDirs \in SUBSET Dirs /\ FailedDirs \in SUBSET Dirs
    BY DEF OpenDirs, FailedDirs
  <1> QED
    BY <1>1, FS_Subset, FS_CardinalityType

\* Nothing has been walked in a process that starts or ends; its inventory is
\* the files table itself, or is not asked.
LEMMA ProcessStep ==
    ASSUME ScanTypes, FrontTypes', rows' \in [Paths -> Rows], Unique(rows)',
           walked' = [d \in Dirs |-> NotWalked],
           cache' = rows' \/ (cache' = [p \in Paths |-> NoRow] /\ phase' # "scanning"),
           dirty' = [ids |-> {}, inodes |-> {}]
    PROVE  RowTypes' /\ WalkTypes' /\ Inventory'
  <1>1. cache' \in [Paths -> Rows]
    BY DEF Rows
  <1>2. dirty' \in [ids : SUBSET Paths, inodes : SUBSET Inodes]
    OBVIOUS
  <1>3. RowTypes'
    BY <1>1, <1>2 DEF RowTypes
  <1>4. \A d \in Dirs : walked'[d] = NotWalked /\ ~walked'[d].done
    BY DEF NotWalked
  <1>5. WalkTypes'
    BY <1>4 DEF WalkTypes
  <1>6. dirty'.ids = {}
    OBVIOUS
  <1>7. Inventory'
    BY <1>6 DEF Inventory, Agrees
  <1> QED
    BY <1>3, <1>5, <1>7

\* A scan begins with its root alone.
LEMMA BeginTypes ==
    ASSUME ScanTypes, BeginEpoch
    PROVE  ScanTypes'
  <1>0. /\ epoch \in 0..MaxEpochs /\ rows \in [Paths -> Rows] /\ Unique(rows)
        /\ current \subseteq Paths
    BY DEF ScanTypes, FrontTypes, RowTypes, DiskTypes
  <1>1. /\ epoch < MaxEpochs /\ epoch' = epoch + 1 /\ status' = "enumerating"
        /\ front' = [d \in Dirs |-> IF d = Root THEN [NoEntry EXCEPT !.state = "pending"]
                                                ELSE NoEntry]
        /\ outstanding' = 1 /\ failures' = 0 /\ phase' = "scanning"
        /\ walked' = [d \in Dirs |-> NotWalked] /\ cache' = rows
        /\ dirty' = [ids |-> {}, inodes |-> {}]
        /\ steady' = Paths /\ current' = {} /\ rows' = rows /\ UNCHANGED disk
    BY DEF BeginEpoch, LoadInventory
  <1>2. /\ NoEntry \in Entry /\ NoEntry.state = "none"
        /\ [NoEntry EXCEPT !.state = "pending"] \in Entry
        /\ [NoEntry EXCEPT !.state = "pending"].state = "pending"
    BY DEF NoEntry, Entry, FrontState
  <1>3. /\ front' \in [Dirs -> Entry] /\ front'[Root].state = "pending"
        /\ \A d \in Dirs \ {Root} : front'[d].state = "none"
    BY <1>1, <1>2
  <1>4. FrontTypes' /\ Begun'
    BY <1>0, <1>1, <1>3 DEF FrontTypes, Begun
  <1>5. RowTypes' /\ WalkTypes' /\ Inventory'
    <2>1. Unique(rows)'
      BY <1>0, <1>1 DEF Unique
    <2> QED
      BY <1>0, <1>1, <1>4, <2>1, ProcessStep
  <1>6. OutstandingExact'
    <2>1. {d \in Dirs : Open(d)}' = {Root} /\ {d \in Dirs : front[d].state = "failed"}' = {}
      BY <1>3 DEF Open
    <2> QED
      BY <1>1, <2>1, FS_Singleton, FS_EmptySet DEF OutstandingExact
  <1>7. DiskTypes' /\ DiskIsATree'
    BY <1>1, DiskFrame
  <1> QED
    BY <1>4, <1>5, <1>6, <1>7 DEF ScanTypes

\* Leases go back.
LEMMA ResumeTypes ==
    ASSUME ScanTypes, ResumeEpoch
    PROVE  ScanTypes'
  <1>0. FrontTypes /\ RowTypes /\ WalkTypes /\ Begun /\ Inventory /\ OutstandingExact
        /\ steady \subseteq Paths /\ current \subseteq Paths
    BY DEF ScanTypes, DiskTypes
  <1>1. /\ phase = "closed" /\ status = "enumerating" /\ phase' = "resuming"
        /\ front' = [d \in Dirs |-> IF front[d].state = "leased"
                                      THEN [front[d] EXCEPT !.state = "pending"] ELSE front[d]]
        /\ epoch' = epoch /\ status' = status /\ outstanding' = outstanding /\ failures' = failures
        /\ rows' = rows /\ walked' = walked /\ cache' = cache /\ dirty' = dirty
        /\ UNCHANGED disk /\ steady' = steady /\ current' = current
    BY DEF ResumeEpoch, history
  <1>2. \A d \in Dirs :
          /\ front[d] \in Entry /\ front'[d] \in Entry
          /\ front'[d].state = IF front[d].state = "leased" THEN "pending" ELSE front[d].state
    <2>1. \A d \in Dirs : front[d] \in Entry
      BY <1>0 DEF FrontTypes
    <2>2. "pending" \in FrontState
      BY DEF FrontState
    <2> QED
      BY <1>1, <2>1, <2>2, EntryFacts
  <1>3. FrontTypes' /\ Begun'
    BY <1>0, <1>1, <1>2 DEF FrontTypes, Begun
  <1>4. RowTypes'
    BY <1>0, <1>1 DEF RowTypes, Unique
  <1>5. WalkTypes'
    BY <1>0, <1>1 DEF WalkTypes
  <1>6. Inventory'
    BY <1>1 DEF Inventory
  <1>7. OutstandingExact'
    <2>1. /\ {d \in Dirs : Open(d)}' = {d \in Dirs : Open(d)}
          /\ {d \in Dirs : front[d].state = "failed"}' = {d \in Dirs : front[d].state = "failed"}
      BY <1>2 DEF Open
    <2> QED
      BY <1>0, <1>1, <2>1 DEF OutstandingExact
  <1>8. DiskTypes' /\ DiskIsATree'
    BY <1>0, <1>1, DiskFrame
  <1> QED
    BY <1>3, <1>4, <1>5, <1>6, <1>7, <1>8 DEF ScanTypes

\* What is requeued is counted.
LEMMA RequeueTypes ==
    ASSUME ScanTypes, RequeueChangedDirectories
    PROVE  ScanTypes'
  <1>0. FrontTypes /\ RowTypes /\ Begun /\ OutstandingExact
        /\ steady \subseteq Paths /\ current \subseteq Paths
    BY DEF ScanTypes, DiskTypes
  <1> DEFINE ds == {d \in Dirs : front[d].state = "completed" /\ Outdated(d)}
  <1>1. /\ phase = "resuming" /\ phase' = "scanning"
        /\ front' = [d \in Dirs |-> IF d \in ds THEN [front[d] EXCEPT !.state = "pending"]
                                                ELSE front[d]]
        /\ outstanding' = outstanding + Cardinality(ds)
        /\ epoch' = epoch /\ status' = status /\ failures' = failures /\ rows' = rows
        /\ walked' = [d \in Dirs |-> NotWalked] /\ cache' = rows
        /\ dirty' = [ids |-> {}, inodes |-> {}]
        /\ UNCHANGED disk /\ steady' = steady /\ current' \subseteq Paths
    BY <1>0 DEF RequeueChangedDirectories, LoadInventory, Requeue
  <1>2. ds \in SUBSET Dirs /\ \A d \in ds : front[d].state = "completed"
    OBVIOUS
  <1> HIDE DEF ds
  <1>3. \A d \in Dirs :
          /\ front[d] \in Entry /\ front'[d] \in Entry
          /\ front'[d].state = IF d \in ds THEN "pending" ELSE front[d].state
    <2>1. \A d \in Dirs : front[d] \in Entry
      BY <1>0 DEF FrontTypes
    <2>2. "pending" \in FrontState
      BY DEF FrontState
    <2> QED
      BY <1>1, <2>1, <2>2, EntryFacts
  <1>4. FrontTypes' /\ Begun'
    BY <1>0, <1>1, <1>3 DEF FrontTypes, Begun
  <1>5. RowTypes' /\ WalkTypes' /\ Inventory'
    <2>1. Unique(rows)' /\ rows' \in [Paths -> Rows]
      BY <1>0, <1>1 DEF RowTypes, Unique
    <2> QED
      BY <1>1, <1>4, <2>1, ProcessStep
  <1>6. OutstandingExact'
    <2>1. /\ {d \in Dirs : Open(d)}' = OpenDirs \cup ds
          /\ {d \in Dirs : front[d].state = "failed"}' = FailedDirs
      BY <1>2, <1>3 DEF Open, OpenDirs, FailedDirs
    <2>2. OpenDirs \cap ds = {}
      BY <1>2 DEF Open, OpenDirs
    <2>3. IsFiniteSet(ds)
      BY <1>2, FS_Subset
    <2>4. Cardinality(OpenDirs \cup ds) = Cardinality(OpenDirs) + Cardinality(ds)
      <3>1. Cardinality(OpenDirs \cap ds) = 0
        BY <2>2, FS_EmptySet
      <3>2. Cardinality(OpenDirs) \in Nat /\ Cardinality(ds) \in Nat
        BY <2>3, CountFacts, FS_CardinalityType
      <3>3. Cardinality(OpenDirs \cup ds)
              = Cardinality(OpenDirs) + Cardinality(ds) - Cardinality(OpenDirs \cap ds)
        BY <2>3, CountFacts, FS_Union
      <3> QED
        BY <3>1, <3>2, <3>3
    <2>5. outstanding = Cardinality(OpenDirs) /\ failures = Cardinality(FailedDirs)
      BY <1>0 DEF OutstandingExact, OpenDirs, FailedDirs
    <2> QED
      BY <1>1, <2>1, <2>4, <2>5 DEF OutstandingExact
  <1>7. DiskTypes' /\ DiskIsATree'
    BY <1>0, <1>1, DiskFrame
  <1> QED
    BY <1>4, <1>5, <1>6, <1>7 DEF ScanTypes

\* A place in the frontier is leased.
LEMMA LeaseFacts ==
    ASSUME NEW e \in Entry
    PROVE  Lease(e) \in Entry /\ Lease(e).state = "leased"
  <1>1. e.mtime \in -1..MaxChanges
    BY DEF Entry
  <1> QED
    BY <1>1 DEF Lease, Entry, FrontState

\* A batch is leased.
LEMMA ClaimTypes ==
    ASSUME ScanTypes, NEW ds \in SUBSET Dirs, ClaimDirectories(ds)
    PROVE  ScanTypes'
  <1>0. FrontTypes /\ RowTypes /\ WalkTypes /\ Begun /\ Inventory /\ OutstandingExact
        /\ steady \subseteq Paths /\ current \subseteq Paths
    BY DEF ScanTypes, DiskTypes
  <1>1. /\ phase = "scanning" /\ Leased = {} /\ ds \subseteq Pending
        /\ front' = [d \in Dirs |-> IF d \in ds
                                      THEN Lease(front[d]) ELSE front[d]]
        /\ phase' = phase /\ epoch' = epoch /\ status' = status
        /\ outstanding' = outstanding /\ failures' = failures
        /\ rows' = rows /\ walked' = walked /\ cache' = cache /\ dirty' = dirty
        /\ UNCHANGED disk /\ steady' = steady /\ current' = current
    BY DEF ClaimDirectories, history, process
  <1>2. \A d \in Dirs :
          /\ front[d] \in Entry /\ front'[d] \in Entry
          /\ front'[d].state = IF d \in ds THEN "leased" ELSE front[d].state
          /\ d \in ds => front[d].state = "pending"
    <2>1. \A d \in Dirs : front[d] \in Entry
      BY <1>0 DEF FrontTypes
    <2>4. \A d \in ds : front[d].state = "pending"
      BY <1>1 DEF Pending
    <2>5. ASSUME NEW d \in Dirs
          PROVE  /\ front'[d] \in Entry
                 /\ front'[d].state = IF d \in ds THEN "leased" ELSE front[d].state
      <3>1. CASE d \in ds
        <4>1. front'[d] = Lease(front[d]) /\ front[d] \in Entry
          BY <1>1, <2>1, <3>1
        <4> QED
          BY <3>1, <4>1, LeaseFacts
      <3>2. CASE d \notin ds
        BY <1>1, <2>1, <3>2
      <3> QED
        BY <3>1, <3>2
    <2> QED
      BY <2>1, <2>4, <2>5, Zenon
  <1>3. FrontTypes' /\ Begun'
    BY <1>0, <1>1, <1>2 DEF FrontTypes, Begun
  <1>4. RowTypes'
    BY <1>0, <1>1 DEF RowTypes, Unique
  <1>5. \A d \in Dirs : ~walked[d].done
    BY <1>0, <1>1 DEF WalkTypes, Leased
  <1>6. WalkTypes'
    BY <1>0, <1>1, <1>5 DEF WalkTypes
  <1>7. Inventory'
    <2>1. \A x \in Paths : rows[x].exists => rows[x].path \in Paths /\ DirOf[rows[x].path] \in Dirs
      BY <1>0, RowFacts DEF RowTypes
    <2>2. dirty.ids \subseteq Paths
      BY <1>0 DEF RowTypes
    <2>3. \A x \in dirty.ids : Over(rows[x].path)'
      <3>1. \A x \in dirty.ids : front[DirOf[rows[x].path]].state = "completed"
        BY <1>0, <1>1, <1>5, <2>1, <2>2 DEF Inventory, Over
      <3> QED
        BY <1>0, <1>1, <1>2, <2>1, <2>2, <3>1 DEF Over, Inventory
    <2> QED
      BY <1>0, <1>1, <2>3 DEF Inventory
  <1>8. OutstandingExact'
    <2>1. /\ {d \in Dirs : Open(d)}' = {d \in Dirs : Open(d)}
          /\ {d \in Dirs : front[d].state = "failed"}' = {d \in Dirs : front[d].state = "failed"}
      BY <1>2 DEF Open
    <2> QED
      BY <1>0, <1>1, <2>1 DEF OutstandingExact
  <1>9. DiskTypes' /\ DiskIsATree'
    BY <1>0, <1>1, DiskFrame
  <1> QED
    BY <1>3, <1>4, <1>6, <1>7, <1>8, <1>9 DEF ScanTypes

\* What a walk reports.
Report(d) ==
    [done |-> TRUE, mtime |-> mtime[d], reconciled |-> FALSE,
     files |-> [p \in Paths |-> IF DirOf[p] = d THEN at[p] ELSE NoFile],
     children |-> {c \in dirs \ {Root} : Parent[c] = d}]

\* It is of that directory.
LEMMA ReportFacts ==
    ASSUME ScanTypes, NEW d \in Dirs
    PROVE  /\ Report(d) \in Walked /\ Report(d).done /\ ~Report(d).reconciled
           /\ Report(d).children = {c \in dirs \ {Root} : Parent[c] = d}
           /\ \A p \in Paths : Report(d).files[p] = IF DirOf[p] = d THEN at[p] ELSE NoFile
  <1>1. /\ mtime[d] \in 0..MaxChanges /\ dirs \subseteq Dirs
        /\ \A p \in Paths : at[p] \in Inodes \cup {NoFile}
    BY DEF ScanTypes, DiskTypes
  <1> QED
    BY <1>1 DEF Report, Walked

\* A directory is walked.
LEMMA WalkKeepsTypes ==
    ASSUME ScanTypes, NEW d \in Dirs, Walk(d)
    PROVE  ScanTypes'
  <1>0. FrontTypes /\ RowTypes /\ WalkTypes /\ Begun /\ Inventory /\ OutstandingExact
        /\ steady \subseteq Paths /\ current \subseteq Paths
    BY DEF ScanTypes, DiskTypes
  <1>1. /\ phase = "scanning" /\ front[d].state = "leased" /\ ~walked[d].done
        /\ walked' = [walked EXCEPT ![d] = Report(d)]
        /\ phase' = phase /\ epoch' = epoch /\ status' = status /\ front' = front
        /\ outstanding' = outstanding /\ failures' = failures
        /\ rows' = rows /\ cache' = cache /\ dirty' = dirty
        /\ UNCHANGED disk /\ steady' = steady /\ current' \subseteq Paths
    BY <1>0 DEF Walk, Leased, frontier, Report
  <1>2. walked \in [Dirs -> Walked \cup {NotWalked}]
    BY <1>0 DEF WalkTypes
  <1>3. /\ walked' \in [Dirs -> Walked \cup {NotWalked}] /\ walked'[d] = Report(d)
        /\ \A e \in Dirs : e # d => walked'[e] = walked[e]
    BY <1>1, <1>2, ReportFacts
  <1>4. FrontTypes' /\ Begun'
    BY <1>0, <1>1 DEF FrontTypes, Begun
  <1>5. RowTypes'
    BY <1>0, <1>1 DEF RowTypes, Unique
  <1>6. WalkTypes'
    BY <1>0, <1>1, <1>3, ReportFacts DEF WalkTypes
  <1>7. Inventory'
    <2>1. \A x \in dirty.ids : /\ rows[x].exists => DirOf[rows[x].path] \in Dirs
                               /\ Over(rows[x].path) /\ rows[x].exists
      BY <1>0, <1>1, RowFacts DEF RowTypes, Inventory
    <2>2. \A x \in dirty.ids : Over(rows[x].path)'
      BY <1>1, <1>3, <2>1 DEF Over
    <2> QED
      BY <1>0, <1>1, <2>2 DEF Inventory
  <1>8. OutstandingExact'
    BY <1>0, <1>1 DEF OutstandingExact, Open
  <1>9. DiskTypes' /\ DiskIsATree'
    BY <1>0, <1>1, DiskFrame
  <1> QED
    BY <1>4, <1>5, <1>6, <1>7, <1>8, <1>9 DEF ScanTypes

\* A directory fails, and is counted with those that failed.
LEMMA FailTypes ==
    ASSUME ScanTypes, NEW d \in Dirs, FailDirectory(d)
    PROVE  ScanTypes'
  <1>0. FrontTypes /\ RowTypes /\ WalkTypes /\ Begun /\ Inventory /\ OutstandingExact
        /\ steady \subseteq Paths /\ current \subseteq Paths
    BY DEF ScanTypes, DiskTypes
  <1>1. /\ phase = "scanning" /\ front[d].state = "leased" /\ ~walked[d].done
        /\ front' = [front EXCEPT ![d].state = "failed"]
        /\ outstanding' = outstanding - 1 /\ failures' = failures + 1
        /\ phase' = phase /\ epoch' = epoch /\ status' = status
        /\ rows' = rows /\ walked' = walked /\ cache' = cache /\ dirty' = dirty
        /\ UNCHANGED disk /\ steady' = steady /\ current' = current
    BY DEF FailDirectory, Leased, history, process
  <1>2. /\ front' \in [Dirs -> Entry] /\ front'[d].state = "failed"
        /\ \A e \in Dirs : e # d => front'[e] = front[e]
    <2>1. front \in [Dirs -> Entry] /\ front[d] \in Entry /\ "failed" \in FrontState
      BY <1>0 DEF FrontTypes, FrontState
    <2>2. [front[d] EXCEPT !.state = "failed"] \in Entry
          /\ [front[d] EXCEPT !.state = "failed"].state = "failed"
      BY <2>1, EntryFacts
    <2>3. front' = [front EXCEPT ![d] = [front[d] EXCEPT !.state = "failed"]]
      BY <1>1
    <2> QED
      BY <2>1, <2>2, <2>3
  <1>3. FrontTypes' /\ Begun'
    BY <1>0, <1>1, <1>2 DEF FrontTypes, Begun
  <1>4. RowTypes'
    BY <1>0, <1>1 DEF RowTypes, Unique
  <1>5. WalkTypes'
    BY <1>0, <1>1, <1>2 DEF WalkTypes
  <1>6. Inventory'
    <2>1. \A x \in dirty.ids : /\ rows[x].exists => DirOf[rows[x].path] \in Dirs
                               /\ Over(rows[x].path) /\ rows[x].exists
      BY <1>0, <1>1, RowFacts DEF RowTypes, Inventory
    <2>2. \A x \in dirty.ids : Over(rows[x].path)'
      BY <1>1, <1>2, <2>1 DEF Over
    <2> QED
      BY <1>0, <1>1, <2>2 DEF Inventory
  <1>7. OutstandingExact'
    <2>1. {e \in Dirs : Open(e)}' = OpenDirs \ {d} /\ d \in OpenDirs
      BY <1>1, <1>2 DEF Open, OpenDirs
    <2>2. {e \in Dirs : front[e].state = "failed"}' = FailedDirs \cup {d} /\ d \notin FailedDirs
      BY <1>1, <1>2 DEF FailedDirs
    <2>3. Cardinality(OpenDirs \ {d}) = Cardinality(OpenDirs) - 1
      BY <2>1, CountFacts, FS_RemoveElement
    <2>4. Cardinality(FailedDirs \cup {d}) = Cardinality(FailedDirs) + 1
      BY <2>2, CountFacts, FS_AddElement
    <2>5. outstanding = Cardinality(OpenDirs) /\ failures = Cardinality(FailedDirs)
      BY <1>0 DEF OutstandingExact, OpenDirs, FailedDirs
    <2> QED
      BY <1>1, <2>1, <2>2, <2>3, <2>4, <2>5 DEF OutstandingExact
  <1>8. DiskTypes' /\ DiskIsATree'
    BY <1>0, <1>1, DiskFrame
  <1> QED
    BY <1>3, <1>4, <1>5, <1>6, <1>7, <1>8 DEF ScanTypes

-----------------------------------------------------------------------------
(* Publication *)

\* Rows that keep their paths keep them apart.
LEMMA UniqueKept ==
    ASSUME NEW rs, NEW rt, Unique(rs),
           \A x \in Paths : rt[x].exists => rs[x].exists /\ rt[x].path = rs[x].path
    PROVE  Unique(rt)
  BY DEF Unique

\* A report that is being published.
LEMMA PublishFacts ==
    ASSUME ScanTypes, NEW d \in Dirs, Publishing(d)
    PROVE  /\ phase = "scanning" /\ front[d].state = "leased" /\ front[d] \in Entry
           /\ walked[d] \in Walked /\ walked[d].done
           /\ walked[d].files \in [Paths -> Inodes \cup {NoFile}]
           /\ walked[d].children \subseteq Dirs /\ walked[d].mtime \in 0..MaxChanges
           /\ walked[d].reconciled \in BOOLEAN
           /\ \A p \in Paths : walked[d].files[p] # NoFile => DirOf[p] = d
           /\ epoch \in 0..MaxEpochs /\ epoch >= 1
           /\ walked \in [Dirs -> Walked \cup {NotWalked}]
           /\ Marks(d) \in [Paths -> Rows]
           /\ \A x \in Paths : Agrees(rows[x], Marks(d)[x])
           /\ \A x \in Paths : rows[x] \in Rows /\ Marks(d)[x] \in Rows /\ cache[x] \in Rows
           /\ Unique(rows)
  <1>1. FrontTypes /\ RowTypes /\ WalkTypes /\ Begun
    BY DEF ScanTypes
  <1>2. phase = "scanning" /\ walked[d].done /\ front[d].state = "leased" /\ front[d] \in Entry
        /\ \A p \in Paths : walked[d].files[p] # NoFile => DirOf[p] = d
    BY <1>1 DEF Publishing, WalkTypes, FrontTypes
  <1>3. epoch \in 0..MaxEpochs /\ epoch >= 1
    BY <1>1, <1>2 DEF Begun, FrontTypes
  <1>4. walked \in [Dirs -> Walked \cup {NotWalked}] /\ walked[d] \in Walked \cup {NotWalked}
    BY <1>1 DEF WalkTypes
  <1>5. /\ walked[d] \in Walked /\ walked[d].files \in [Paths -> Inodes \cup {NoFile}]
        /\ walked[d].children \subseteq Dirs /\ walked[d].mtime \in 0..MaxChanges
        /\ walked[d].reconciled \in BOOLEAN
    BY <1>2, <1>4, WalkFacts
  <1>6. Marks(d) \in [Paths -> Rows] /\ \A x \in Paths : Agrees(rows[x], Marks(d)[x])
    BY <1>1, <1>3, MarksFacts
  <1>7. /\ Unique(rows)
        /\ \A x \in Paths : rows[x] \in Rows /\ Marks(d)[x] \in Rows /\ cache[x] \in Rows
    BY <1>1, <1>6 DEF RowTypes
  <1> QED
    BY <1>2, <1>3, <1>4, <1>5, <1>6, <1>7

\* What is left of a report.
LEMMA LeftFacts ==
    ASSUME NEW w \in Walked, NEW files \in [Paths -> Inodes \cup {NoFile}],
           NEW children \in SUBSET Dirs
    PROVE  /\ Left(w, files, children) \in Walked /\ Left(w, files, children).done
           /\ Left(w, files, children).files = files
           /\ Left(w, files, children).children = children
           /\ Left(w, files, children).mtime = w.mtime /\ Left(w, files, children).reconciled
  <1>1. w.mtime \in 0..MaxChanges
    BY DEF Walked
  <1> QED
    BY <1>1 DEF Left, Walked

\* A file has been published.
LEMMA PublishedFacts ==
    ASSUME ScanTypes, NEW d \in Dirs, Publishing(d), NEW p \in Paths, Published(d, p)
    PROVE  /\ walked' \in [Dirs -> Walked \cup {NotWalked}]
           /\ walked'[d].done /\ walked'[d].reconciled
           /\ walked'[d].files[p] = NoFile
           /\ \A q \in Paths \ {p} : walked'[d].files[q] = walked[d].files[q]
           /\ walked'[d].children = walked[d].children /\ walked'[d].mtime = walked[d].mtime
           /\ \A e \in Dirs \ {d} : walked'[e] = walked[e]
  <1> DEFINE files == [walked[d].files EXCEPT ![p] = NoFile]
  <1>1. /\ walked \in [Dirs -> Walked \cup {NotWalked}] /\ walked[d] \in Walked
        /\ walked[d].files \in [Paths -> Inodes \cup {NoFile}]
        /\ walked[d].children \in SUBSET Dirs
    BY PublishFacts
  <1>2. walked' = [walked EXCEPT ![d] = Left(walked[d], files, walked[d].children)]
    BY DEF Published
  <1>3. /\ files \in [Paths -> Inodes \cup {NoFile}] /\ files[p] = NoFile
        /\ \A q \in Paths \ {p} : files[q] = walked[d].files[q]
    BY <1>1
  <1> HIDE DEF files
  <1>4. /\ Left(walked[d], files, walked[d].children) \in Walked
        /\ Left(walked[d], files, walked[d].children).done
        /\ Left(walked[d], files, walked[d].children).files = files
        /\ Left(walked[d], files, walked[d].children).children = walked[d].children
        /\ Left(walked[d], files, walked[d].children).mtime = walked[d].mtime
        /\ Left(walked[d], files, walked[d].children).reconciled
    BY <1>1, <1>3, LeftFacts
  <1>5. /\ walked' \in [Dirs -> Walked \cup {NotWalked}]
        /\ walked'[d] = Left(walked[d], files, walked[d].children)
        /\ \A e \in Dirs \ {d} : walked'[e] = walked[e]
    BY <1>1, <1>2, <1>4
  <1> QED
    BY <1>3, <1>4, <1>5

\* A file's row is marked, or written: the rest of the publication.
LEMMA FileTypes ==
    ASSUME ScanTypes, NEW d \in Dirs, Publishing(d), NEW p \in Paths, Published(d, p),
           walked[d].files[p] # NoFile, UNCHANGED <<disk, frontier, phase, cache, history>>,
           RowTypes',
           \A x \in Paths \ dirty'.ids : x \notin dirty.ids /\ Agrees(rows[x], rows'[x]),
           \A x \in dirty'.ids :
             /\ rows'[x].exists /\ rows'[x].live /\ rows'[x].inode \in dirty'.inodes
             /\ rows'[x].path = p \/ (x \in dirty.ids /\ rows'[x].path = rows[x].path)
    PROVE  ScanTypes'
  <1>0. FrontTypes /\ WalkTypes /\ Begun /\ Inventory /\ OutstandingExact /\ RowTypes
        /\ steady \subseteq Paths /\ current \subseteq Paths
    BY DEF ScanTypes, DiskTypes
  <1>1. /\ phase' = phase /\ epoch' = epoch /\ status' = status /\ front' = front
        /\ outstanding' = outstanding /\ failures' = failures /\ cache' = cache
        /\ UNCHANGED disk /\ steady' = steady /\ current' = current
    BY DEF frontier, history
  <1>2. FrontTypes' /\ Begun' /\ OutstandingExact'
    BY <1>0, <1>1 DEF FrontTypes, Begun, OutstandingExact, Open
  <1>3. /\ phase = "scanning" /\ front[d].state = "leased" /\ DirOf[p] = d
        /\ walked[d].done
    BY PublishFacts
  <1>4. WalkTypes'
    BY <1>0, <1>1, <1>3, PublishedFacts DEF WalkTypes
  <1>5. Inventory'
    <2>1. \A x \in Paths \ dirty.ids : Agrees(cache[x], rows[x])
      BY <1>0, <1>3 DEF Inventory
    <2>2. \A x \in Paths \ dirty'.ids : Agrees(cache[x], rows'[x])
      BY <2>1 DEF Agrees
    <2>3. \A q \in Paths : (q = p \/ Over(q)) =>
            \/ front'[DirOf[q]].state = "completed"
            \/ (walked'[DirOf[q]].done /\ walked'[DirOf[q]].files[q] = NoFile)
      BY <1>1, <1>3, PublishedFacts DEF Over
    <2>4. \A x \in dirty.ids : x \in Paths /\ rows[x].path \in Paths /\ Over(rows[x].path)
      BY <1>0, <1>3, RowFacts DEF Inventory, RowTypes
    <2>5. \A x \in dirty'.ids : /\ rows'[x].path \in Paths
                                /\ rows'[x].path = p \/ Over(rows'[x].path)
      BY <2>4
    <2>6. \A x \in dirty'.ids : Over(rows[x].path)'
      BY <2>3, <2>5 DEF Over
    <2> QED
      BY <1>1, <2>2, <2>6 DEF Inventory
  <1>6. DiskTypes' /\ DiskIsATree'
    BY <1>0, <1>1, DiskFrame
  <1> QED
    BY <1>2, <1>4, <1>5, <1>6 DEF ScanTypes

\* A file that is unchanged is touched.
LEMMA TouchTypes ==
    ASSUME ScanTypes, NEW d \in Dirs, NEW p \in Paths, TouchFile(d, p)
    PROVE  ScanTypes'
  <1>1. PICK x \in Paths : /\ Unchanged(p, walked[d].files[p], x)
                           /\ rows' = [Marks(d) EXCEPT ![x].seen = epoch]
    BY DEF TouchFile
  <1>2. /\ Publishing(d) /\ Published(d, p) /\ walked[d].files[p] # NoFile
        /\ UNCHANGED <<disk, frontier, phase, cache, history>> /\ dirty' = dirty
        /\ cache' = cache
    BY DEF TouchFile
  <1>3. Inventory /\ RowTypes
    BY DEF ScanTypes
  <1>4. x \notin dirty.ids /\ rows[x].exists
    <2>1. x \notin dirty.ids /\ cache[x].exists
      BY <1>1 DEF Unchanged
    <2>2. Agrees(cache[x], rows[x])
      BY <1>2, <1>3, <2>1, PublishFacts DEF Inventory
    <2> QED
      BY <2>1, <2>2 DEF Agrees
  <1>5. Marks(d)[x] \in FileRow /\ epoch \in 0..MaxEpochs
    BY <1>2, <1>4, PublishFacts, RowFacts DEF Agrees
  <1>6. /\ [Marks(d)[x] EXCEPT !.seen = epoch] \in FileRow
        /\ Agrees(Marks(d)[x], [Marks(d)[x] EXCEPT !.seen = epoch])
    BY <1>5, SeenAgain
  <1>7. /\ rows' \in [Paths -> Rows] /\ rows'[x] = [Marks(d)[x] EXCEPT !.seen = epoch]
        /\ \A y \in Paths \ {x} : rows'[y] = Marks(d)[y]
    BY <1>1, <1>2, <1>6, PublishFacts DEF Rows
  <1>8. \A y \in Paths : Agrees(rows[y], rows'[y])
    <2>1. \A y \in Paths : Agrees(rows[y], Marks(d)[y])
      BY <1>2, PublishFacts
    <2> QED
      BY <1>6, <1>7, <2>1 DEF Agrees
  <1>9. RowTypes'
    <2>1. Unique(rows)
      BY <1>3 DEF RowTypes
    <2>2. \A y \in Paths : rows'[y].exists => rows[y].exists /\ rows'[y].path = rows[y].path
      BY <1>8 DEF Agrees
    <2>3. Unique(rows')
      BY <2>1, <2>2, UniqueKept
    <2> QED
      BY <1>2, <1>3, <1>7, <2>3 DEF RowTypes, Unique
  <1>10. \A y \in dirty.ids :
           /\ rows[y].exists /\ rows[y].live /\ rows[y].inode \in dirty.inodes /\ y \in Paths
    BY <1>2, <1>3, PublishFacts DEF Inventory, RowTypes
  <1>11. \A y \in dirty'.ids :
           /\ rows'[y].exists /\ rows'[y].live /\ rows'[y].inode \in dirty'.inodes
           /\ y \in dirty.ids /\ rows'[y].path = rows[y].path
    BY <1>2, <1>8, <1>10 DEF Agrees
  <1> QED
    BY <1>2, <1>8, <1>9, <1>11, FileTypes

\* A file is observed, whichever row it is found to have.
LEMMA ObserveTypes ==
    ASSUME ScanTypes, NEW d \in Dirs, NEW p \in Paths, ObserveFile(d, p)
    PROVE  ScanTypes'
  <1> DEFINE i == walked[d].files[p]
  <1>1. PICK x \in Identities(Marks(d), p, i) :
               /\ Unique(Observed(Marks(d), x, p, i))
               /\ rows' = Observed(Marks(d), x, p, i)
               /\ dirty' = Touched(x, i)
    BY DEF ObserveFile
  <1>2. /\ Publishing(d) /\ Published(d, p) /\ i # NoFile
        /\ UNCHANGED <<disk, frontier, phase, cache, history>> /\ cache' = cache
    BY DEF ObserveFile
  <1>3. Inventory /\ RowTypes
    BY DEF ScanTypes
  <1>4. x \in Paths /\ i \in Inodes
    <2>1. walked[d].files[p] \in Inodes \cup {NoFile}
      BY <1>2, PublishFacts
    <2> QED
      BY <1>2, <2>1 DEF Identities, LiveWith
  <1> HIDE DEF i
  <1> DEFINE new == [exists |-> TRUE, path |-> p, inode |-> i, seen |-> epoch, live |-> TRUE]
  <1>5. /\ new \in FileRow /\ new.exists /\ new.path = p /\ new.inode = i /\ new.live
        /\ new.seen = epoch
    BY <1>2, <1>4, PublishFacts DEF FileRow
  <1>6. rows' = [Marks(d) EXCEPT ![x] = new]
    BY <1>1 DEF Observed
  <1> HIDE DEF new
  <1>7. /\ rows' \in [Paths -> Rows] /\ rows'[x] = new
        /\ \A y \in Paths \ {x} : rows'[y] = Marks(d)[y]
    BY <1>2, <1>4, <1>5, <1>6, PublishFacts DEF Rows
  <1>8. \A y \in Paths \ {x} : Agrees(rows[y], rows'[y])
    BY <1>2, <1>7, PublishFacts
  <1>9. dirty'.ids = dirty.ids \cup {x} /\ dirty'.inodes = dirty.inodes \cup {i}
        /\ dirty' \in [ids : SUBSET Paths, inodes : SUBSET Inodes]
    BY <1>1, <1>3, <1>4 DEF Touched, RowTypes
  <1>10. RowTypes'
    BY <1>1, <1>2, <1>3, <1>7, <1>9 DEF RowTypes, Unique
  <1>11. \A y \in dirty.ids :
           /\ rows[y].exists /\ rows[y].live /\ rows[y].inode \in dirty.inodes /\ y \in Paths
    BY <1>2, <1>3, PublishFacts DEF Inventory, RowTypes
  <1>12. \A y \in dirty'.ids :
           /\ rows'[y].exists /\ rows'[y].live /\ rows'[y].inode \in dirty'.inodes
           /\ rows'[y].path = p \/ (y \in dirty.ids /\ rows'[y].path = rows[y].path)
    <2>1. TAKE y \in dirty'.ids
    <2>2. CASE y = x
      BY <1>5, <1>7, <1>9, <2>2
    <2>3. CASE y # x
      BY <1>8, <1>9, <1>11, <2>3 DEF Agrees
    <2> QED
      BY <2>2, <2>3
  <1>13. \A y \in Paths \ dirty'.ids : y \notin dirty.ids /\ Agrees(rows[y], rows'[y])
    BY <1>8, <1>9
  <1> QED
    BY <1>2, <1>10, <1>12, <1>13, FileTypes DEF i

\* Marks alone change nothing but who has seen the rows.
LEMMA MarkedTypes ==
    ASSUME ScanTypes, NEW d \in Dirs, Publishing(d), rows' = Marks(d),
           cache' = cache, dirty' = dirty, phase' = phase,
           \A q \in Paths : Over(q) => Over(q)'
    PROVE  RowTypes' /\ Inventory'
  <1>1. RowTypes /\ Inventory /\ phase = "scanning"
    BY PublishFacts DEF ScanTypes
  <1>2. /\ \A x \in Paths : Agrees(rows[x], rows'[x])
        /\ rows' \in [Paths -> Rows]
    BY PublishFacts
  <1>3. RowTypes'
    <2>1. \A y \in Paths : rows'[y].exists => rows[y].exists /\ rows'[y].path = rows[y].path
      BY <1>2 DEF Agrees
    <2>2. Unique(rows)
      BY <1>1 DEF RowTypes
    <2>3. Unique(rows')
      BY <2>1, <2>2, UniqueKept
    <2> QED
      BY <1>1, <1>2, <2>3 DEF RowTypes, Unique
  <1>4. \A x \in Paths \ dirty'.ids : Agrees(cache'[x], rows'[x])
    BY <1>1, <1>2 DEF Inventory, Agrees
  <1>5. \A x \in dirty.ids :
          /\ rows[x].exists /\ rows[x].live /\ rows[x].inode \in dirty.inodes /\ x \in Paths
          /\ rows[x].path \in Paths /\ Over(rows[x].path)
    <2>1. \A x \in dirty.ids : x \in Paths /\ rows[x] \in Rows
      BY <1>1 DEF RowTypes
    <2> QED
      BY <1>1, <2>1, RowFacts DEF Inventory
  <1>6. \A x \in dirty.ids :
          /\ rows'[x].exists /\ rows'[x].live /\ rows'[x].inode \in dirty.inodes
          /\ rows'[x].path = rows[x].path
    BY <1>2, <1>5 DEF Agrees
  <1>7. \A x \in dirty.ids : Over(rows[x].path)'
    <2>1. \A q \in Paths : Over(q) =>
            \/ front'[DirOf[q]].state = "completed"
            \/ (walked'[DirOf[q]].done /\ walked'[DirOf[q]].files[q] = NoFile)
      BY DEF Over
    <2> QED
      BY <1>5, <1>6, <2>1 DEF Over
  <1>8. Inventory'
    BY <1>4, <1>6, <1>7 DEF Inventory
  <1> QED
    BY <1>3, <1>8

\* A child is counted when it is new.
LEMMA ChildTypes ==
    ASSUME ScanTypes, NEW d \in Dirs, NEW c \in Dirs, PublishChild(d, c)
    PROVE  ScanTypes'
  <1>0. FrontTypes /\ WalkTypes /\ Begun /\ OutstandingExact
        /\ steady \subseteq Paths /\ current \subseteq Paths
    BY DEF ScanTypes, DiskTypes
  <1>1. /\ Publishing(d) /\ rows' = Marks(d)
        /\ walked' = [walked EXCEPT ![d] = Left(walked[d], walked[d].files, walked[d].children \ {c})]
        /\ epoch' = epoch /\ status' = status /\ failures' = failures
        /\ phase' = phase /\ cache' = cache /\ dirty' = dirty
        /\ UNCHANGED disk /\ steady' = steady /\ current' = current
        /\ \/ /\ front[c].state = "none" /\ front' = [front EXCEPT ![c].state = "pending"]
              /\ outstanding' = outstanding + 1
           \/ front' = front /\ outstanding' = outstanding
    BY DEF PublishChild, history
  <1>2. /\ walked' \in [Dirs -> Walked \cup {NotWalked}]
        /\ walked'[d].done /\ walked'[d].files = walked[d].files
        /\ \A e \in Dirs \ {d} : walked'[e] = walked[e]
    <2>1. walked[d].children \ {c} \in SUBSET Dirs
      BY <1>1, PublishFacts
    <2> DEFINE left == Left(walked[d], walked[d].files, walked[d].children \ {c})
    <2>2. left \in Walked /\ left.done /\ left.files = walked[d].files
      BY <1>1, <2>1, PublishFacts, LeftFacts
    <2>3. walked' = [walked EXCEPT ![d] = left]
      BY <1>1
    <2> HIDE DEF left
    <2>4. walked \in [Dirs -> Walked \cup {NotWalked}]
      BY <1>1, PublishFacts
    <2> QED
      BY <2>2, <2>3, <2>4
  <1>3. front \in [Dirs -> Entry]
    BY <1>0 DEF FrontTypes
  <1>6. /\ OutstandingExact' /\ front' \in [Dirs -> Entry]
        /\ \A e \in Dirs : front'[e] = front[e] \/ (front[e].state = "none" /\ front'[e].state = "pending")
    <2>1. CASE front[c].state = "none" /\ front' = [front EXCEPT ![c].state = "pending"]
               /\ outstanding' = outstanding + 1
      <3>1. /\ [front[c] EXCEPT !.state = "pending"] \in Entry
            /\ [front[c] EXCEPT !.state = "pending"].state = "pending"
        <4>1. "pending" \in FrontState /\ front[c] \in Entry
          BY <1>3 DEF FrontState
        <4> QED
          BY <4>1, EntryFacts
      <3>2. front' = [front EXCEPT ![c] = [front[c] EXCEPT !.state = "pending"]]
        BY <2>1
      <3>3. /\ front' \in [Dirs -> Entry] /\ front'[c].state = "pending"
            /\ \A e \in Dirs \ {c} : front'[e] = front[e]
        BY <1>3, <3>1, <3>2
      <3>4. /\ {e \in Dirs : Open(e)}' = OpenDirs \cup {c} /\ c \notin OpenDirs
            /\ {e \in Dirs : front[e].state = "failed"}' = FailedDirs
        BY <2>1, <3>3 DEF Open, OpenDirs, FailedDirs
      <3>5. Cardinality(OpenDirs \cup {c}) = Cardinality(OpenDirs) + 1
        BY <3>4, CountFacts, FS_AddElement
      <3>6. OutstandingExact'
        BY <1>0, <1>1, <2>1, <3>4, <3>5 DEF OutstandingExact, OpenDirs, FailedDirs
      <3> QED
        BY <2>1, <3>3, <3>6
    <2>2. CASE front' = front /\ outstanding' = outstanding
      BY <1>0, <1>1, <1>3, <2>2 DEF OutstandingExact, Open
    <2> QED
      BY <1>1, <2>1, <2>2
  <1>7. FrontTypes' /\ Begun'
    BY <1>0, <1>1, <1>6 DEF FrontTypes, Begun
  <1>8. WalkTypes'
    <2>1. walked[d].done /\ phase = "scanning"
      BY <1>1, PublishFacts
    <2>2. \A e \in Dirs : walked'[e].done =>
            /\ walked[e].done /\ walked'[e].files = walked[e].files
            /\ front[e].state = "leased" /\ front'[e].state = "leased"
      BY <1>0, <1>2, <1>6, <2>1 DEF WalkTypes
    <2>3. \A e \in Dirs : walked[e].done =>
            \A p \in Paths : walked[e].files[p] # NoFile => DirOf[p] = e
      BY <1>0 DEF WalkTypes
    <2>4. \A e \in Dirs : walked'[e].done =>
            \A p \in Paths : walked'[e].files[p] # NoFile => DirOf[p] = e
      BY <2>2, <2>3
    <2>5. phase' = "scanning" /\ walked' \in [Dirs -> Walked \cup {NotWalked}]
      BY <1>1, <1>2, <2>1
    <2> QED
      BY <2>2, <2>4, <2>5 DEF WalkTypes
  <1>9. RowTypes' /\ Inventory'
    <2>1. \A q \in Paths : Over(q) => Over(q)'
      BY <1>2, <1>6, PublishFacts DEF Over
    <2> QED
      BY <1>1, <2>1, MarkedTypes
  <1>10. DiskTypes' /\ DiskIsATree'
    BY <1>0, <1>1, DiskFrame
  <1> QED
    BY <1>6, <1>7, <1>8, <1>9, <1>10 DEF ScanTypes

\* A directory is completed.
LEMMA CompleteTypes ==
    ASSUME ScanTypes, NEW d \in Dirs, CompleteDirectory(d)
    PROVE  ScanTypes'
  <1>0. FrontTypes /\ WalkTypes /\ Begun /\ OutstandingExact
        /\ steady \subseteq Paths /\ current \subseteq Paths
    BY DEF ScanTypes, DiskTypes
  <1>1. /\ Publishing(d) /\ rows' = Marks(d)
        /\ walked' = [walked EXCEPT ![d] = NotWalked]
        /\ front' = [front EXCEPT ![d] = [state |-> "completed", attempt |-> front[d].attempt,
                                          mtime |-> walked[d].mtime]]
        /\ outstanding' = outstanding - 1
        /\ epoch' = epoch /\ status' = status /\ failures' = failures
        /\ phase' = phase /\ cache' = cache /\ dirty' = dirty
        /\ UNCHANGED disk /\ steady' = steady /\ current' = current
    BY DEF CompleteDirectory, history
  <1>2. /\ walked' \in [Dirs -> Walked \cup {NotWalked}] /\ ~walked'[d].done
        /\ \A e \in Dirs \ {d} : walked'[e] = walked[e]
    BY <1>1, PublishFacts DEF NotWalked
  <1>3. /\ front' \in [Dirs -> Entry] /\ front'[d].state = "completed"
        /\ \A e \in Dirs \ {d} : front'[e] = front[e]
    <2>1. front \in [Dirs -> Entry] /\ front[d].attempt \in 0..2 /\ walked[d].mtime \in -1..MaxChanges
      BY <1>0, <1>1, PublishFacts DEF FrontTypes, Entry
    <2>2. [state |-> "completed", attempt |-> front[d].attempt, mtime |-> walked[d].mtime] \in Entry
      BY <2>1 DEF Entry, FrontState
    <2> QED
      BY <1>1, <2>1, <2>2
  <1>4. FrontTypes' /\ Begun'
    BY <1>0, <1>1, <1>3 DEF FrontTypes, Begun
  <1>5. WalkTypes'
    BY <1>0, <1>1, <1>2, <1>3 DEF WalkTypes
  <1>6. RowTypes' /\ Inventory'
    <2>1. \A q \in Paths : Over(q) => Over(q)'
      BY <1>2, <1>3 DEF Over
    <2> QED
      BY <1>1, <2>1, MarkedTypes
  <1>7. OutstandingExact'
    <2>1. front[d].state = "leased"
      BY <1>1, PublishFacts
    <2>2. /\ {e \in Dirs : Open(e)}' = OpenDirs \ {d} /\ d \in OpenDirs
          /\ {e \in Dirs : front[e].state = "failed"}' = FailedDirs
      BY <1>3, <2>1 DEF Open, OpenDirs, FailedDirs
    <2>3. Cardinality(OpenDirs \ {d}) = Cardinality(OpenDirs) - 1
      BY <2>2, CountFacts, FS_RemoveElement
    <2> QED
      BY <1>0, <1>1, <2>2, <2>3 DEF OutstandingExact, OpenDirs, FailedDirs
  <1>8. DiskTypes' /\ DiskIsATree'
    BY <1>0, <1>1, DiskFrame
  <1> QED
    BY <1>4, <1>5, <1>6, <1>7, <1>8 DEF ScanTypes

-----------------------------------------------------------------------------
(* The end of a process *)

\* What is missing is still the same file.
LEMMA ReconciledFacts ==
    ASSUME RowTypes
    PROVE  /\ Reconciled \in [Paths -> Rows]
           /\ \A x \in Paths : Reconciled[x].exists =>
                rows[x].exists /\ Reconciled[x].path = rows[x].path
  <1> DEFINE Missing(x) == failures = 0 /\ rows[x].exists /\ rows[x].seen < epoch
  <1>1. \A x \in Paths : rows[x] \in Rows
    BY DEF RowTypes
  <1>2. \A x \in Paths :
          Reconciled[x] = IF Missing(x) THEN [rows[x] EXCEPT !.live = FALSE] ELSE rows[x]
    BY DEF Reconciled
  <1>3. ASSUME NEW x \in Paths
        PROVE  /\ Reconciled[x] \in Rows
               /\ Reconciled[x].exists => rows[x].exists /\ Reconciled[x].path = rows[x].path
    <2>1. CASE Missing(x)
      <3>1. rows[x] \in FileRow /\ Reconciled[x] = [rows[x] EXCEPT !.live = FALSE]
        BY <1>1, <1>2, <2>1, RowFacts
      <3> QED
        BY <2>1, <3>1, DeadNow DEF Rows
    <2>2. CASE ~Missing(x)
      BY <1>1, <1>2, <2>2
    <2> QED
      BY <2>1, <2>2
  <1>4. Reconciled = [x \in Paths |-> Reconciled[x]]
    BY DEF Reconciled
  <1> HIDE DEF Reconciled
  <1> QED
    BY <1>3, <1>4

\* A process that ends leaves the tables, reconciled or as they are.
LEMMA CloseTypes ==
    ASSUME ScanTypes, Closed, UNCHANGED <<disk, epoch, front, outstanding, failures, history>>,
           phase # "closed",
           status' \in {status, "completed", "partial"}, rows' \in {rows, Reconciled}
    PROVE  ScanTypes'
  <1>0. FrontTypes /\ RowTypes /\ Begun /\ OutstandingExact
        /\ steady \subseteq Paths /\ current \subseteq Paths
    BY DEF ScanTypes, DiskTypes
  <1>1. /\ phase' = "closed" /\ walked' = [d \in Dirs |-> NotWalked]
        /\ cache' = [p \in Paths |-> NoRow] /\ dirty' = [ids |-> {}, inodes |-> {}]
        /\ epoch' = epoch /\ front' = front /\ outstanding' = outstanding /\ failures' = failures
        /\ UNCHANGED disk /\ steady' = steady /\ current' = current
    BY DEF Closed, history
  <1>2. FrontTypes' /\ Begun'
    BY <1>0, <1>1 DEF FrontTypes, Begun
  <1>3. rows' \in [Paths -> Rows] /\ Unique(rows)'
    <2>1. /\ rows' \in [Paths -> Rows]
          /\ \A x \in Paths : rows'[x].exists => rows[x].exists /\ rows'[x].path = rows[x].path
      BY <1>0, ReconciledFacts DEF RowTypes
    <2>2. Unique(rows)
      BY <1>0 DEF RowTypes
    <2>3. Unique(rows')
      BY <2>1, <2>2, UniqueKept
    <2> QED
      BY <2>1, <2>3 DEF Unique
  <1>4. RowTypes' /\ WalkTypes' /\ Inventory'
    BY <1>1, <1>2, <1>3, ProcessStep
  <1>5. OutstandingExact'
    BY <1>0, <1>1 DEF OutstandingExact, Open
  <1>6. DiskTypes' /\ DiskIsATree'
    BY <1>0, <1>1, DiskFrame
  <1> QED
    BY <1>2, <1>4, <1>5, <1>6 DEF ScanTypes

\* Nothing has been scanned at first.
LEMMA ScanTypesInit == Init => ScanTypes
  <1> SUFFICES ASSUME Init PROVE ScanTypes
    OBVIOUS
  <1>1. /\ at = [p \in Paths |-> NoFile] /\ dirs = Dirs /\ mtime = [d \in Dirs |-> 0]
        /\ changes = 0 /\ life = [p \in Paths |-> "virgin"] /\ tidy = TRUE
        /\ steady = {} /\ current = {}
    BY DEF Init
  <1>2. /\ epoch = 0 /\ status = "none" /\ front = [d \in Dirs |-> NoEntry]
        /\ outstanding = 0 /\ failures = 0 /\ phase = "closed"
        /\ rows = [p \in Paths |-> NoRow] /\ cache = [p \in Paths |-> NoRow]
        /\ walked = [d \in Dirs |-> NotWalked] /\ dirty = [ids |-> {}, inodes |-> {}]
    BY DEF Init
  <1>3. DiskTypes
    BY <1>1 DEF DiskTypes, Inodes
  <1>4. DiskIsATree
    BY <1>1 DEF DiskIsATree
  <1>5. NoEntry \in Entry /\ NoEntry.state = "none"
    BY DEF NoEntry, Entry, FrontState
  <1>6. FrontTypes /\ Begun
    BY <1>2, <1>5 DEF FrontTypes, Begun
  <1>7. RowTypes
    <2>1. \A p \in Paths : ~rows[p].exists
      BY <1>2 DEF NoRow
    <2>2. Unique(rows)
      BY <2>1 DEF Unique
    <2> QED
      BY <1>2, <2>2 DEF RowTypes, Rows
  <1>8. WalkTypes
    <2>1. \A d \in Dirs : ~walked[d].done
      BY <1>2 DEF NotWalked
    <2> QED
      BY <1>2, <2>1 DEF WalkTypes
  <1>9. Inventory
    BY <1>2 DEF Inventory
  <1>10. OutstandingExact
    <2>1. {d \in Dirs : Open(d)} = {} /\ {d \in Dirs : front[d].state = "failed"} = {}
      BY <1>2, <1>5 DEF Open
    <2> QED
      BY <1>2, <2>1, FS_EmptySet DEF OutstandingExact
  <1> QED
    BY <1>3, <1>4, <1>6, <1>7, <1>8, <1>9, <1>10 DEF ScanTypes

\* Nothing changes.
LEMMA StutterTypes ==
    ASSUME ScanTypes, UNCHANGED vars
    PROVE  ScanTypes'
  <1>1. steady \subseteq Paths /\ current \subseteq Paths
    BY DEF ScanTypes, DiskTypes
  <1>2. UNCHANGED <<frontier, rows, process>> /\ UNCHANGED disk
        /\ steady' = steady /\ current' = current
    BY DEF vars, history
  <1> QED
    BY <1>1, <1>2, TablesFrame, DiskFrame DEF ScanTypes

\* Every step keeps the types and what they rest on.
LEMMA ScanTypesStep == ScanTypes /\ [Next]_vars => ScanTypes'
  <1> SUFFICES ASSUME ScanTypes, [Next]_vars PROVE ScanTypes'
    OBVIOUS
  <1>1. CASE DiskStep
    BY <1>1, DiskStepTypes
  <1>2. CASE BeginEpoch \/ ResumeEpoch \/ RequeueChangedDirectories
    BY <1>2, BeginTypes, ResumeTypes, RequeueTypes
  <1>3. CASE \E ds \in SUBSET Dirs : ClaimDirectories(ds)
    BY <1>3, ClaimTypes
  <1>4. CASE \E d \in Dirs : Walk(d) \/ FailDirectory(d) \/ CompleteDirectory(d)
    BY <1>4, WalkKeepsTypes, FailTypes, CompleteTypes
  <1>5. CASE \E d \in Dirs, p \in Paths : TouchFile(d, p) \/ ObserveFile(d, p)
    BY <1>5, TouchTypes, ObserveTypes
  <1>6. CASE \E d \in Dirs, p \in Paths : RefuseFile(d, p)
    <2>1. PICK d \in Dirs, p \in Paths : RefuseFile(d, p)
      BY <1>6
    <2>2. /\ Closed /\ UNCHANGED <<disk, epoch, front, outstanding, failures, history>>
          /\ phase # "closed" /\ status' = status /\ rows' = rows
      BY <2>1 DEF RefuseFile, Publishing, frontier
    <2> QED
      BY <2>2, CloseTypes
  <1>7. CASE \E d \in Dirs, c \in Dirs : PublishChild(d, c)
    BY <1>7, ChildTypes
  <1>8. CASE FinishEpoch \/ Interrupt
    <2>1. /\ Closed /\ UNCHANGED <<disk, epoch, front, outstanding, failures, history>>
          /\ phase # "closed"
          /\ status' \in {status, "completed", "partial"} /\ rows' \in {rows, Reconciled}
      BY <1>8 DEF FinishEpoch, Interrupt, frontier
    <2> QED
      BY <2>1, CloseTypes
  <1>9. CASE Rest \/ UNCHANGED vars
    BY <1>9, StutterTypes DEF Rest
  <1> QED
    BY <1>1, <1>2, <1>3, <1>4, <1>5, <1>6, <1>7, <1>8, <1>9 DEF Next, DiskStep

\* The types hold throughout.
LEMMA ScanTypesHold == Spec => []ScanTypes
  BY ScanTypesInit, ScanTypesStep, PTL DEF Spec

-----------------------------------------------------------------------------
(* The barrier and the inventory *)

\* The types, the bounds of the counters, and rows that never share a path.
THEOREM ScanTyped == Spec => []TypeOK
  <1>1. ScanTypes => TypeOK
    <2> SUFFICES ASSUME ScanTypes PROVE TypeOK
      OBVIOUS
    <2>1. DiskTypes /\ FrontTypes /\ RowTypes /\ WalkTypes /\ OutstandingExact
      BY DEF ScanTypes
    <2>2. outstanding \in 0..Cardinality(Dirs) /\ failures \in 0..Cardinality(Dirs)
      <3>1. outstanding = Cardinality(OpenDirs) /\ failures = Cardinality(FailedDirs)
        BY <2>1 DEF OutstandingExact, OpenDirs, FailedDirs
      <3>2. Cardinality(Dirs) \in Nat
        BY FS_CardinalityType
      <3> QED
        BY <3>1, <3>2, CountFacts
    <2>3. /\ \A p \in Paths : rows[p] = NoRow \/ rows[p] \in FileRow
          /\ \A p \in Paths : cache[p] = NoRow \/ cache[p] \in FileRow
          /\ Unique(rows) /\ dirty \in [ids : SUBSET Paths, inodes : SUBSET Inodes]
      BY <2>1 DEF RowTypes, Rows
    <2>4. \A d \in Dirs : walked[d] = NotWalked \/ walked[d] \in Walked
      BY <2>1 DEF WalkTypes
    <2> QED
      BY <2>1, <2>2, <2>3, <2>4 DEF TypeOK, DiskTypes, FrontTypes
  <1> QED
    BY <1>1, ScanTypesHold, PTL

\* The barrier of a scope counts its open directories and its failures, however
\* often a directory is claimed, published in part, lost, resumed or requeued.
THEOREM BarrierIsExact == Spec => []OutstandingExact
  <1>1. ScanTypes => OutstandingExact
    BY DEF ScanTypes
  <1> QED
    BY <1>1, ScanTypesHold, PTL

\* The inventory in memory answers as the database would, to the last chunk of
\* a scan.
THEOREM InventoryIsSound == Spec => []CacheSound
  <1> DEFINE AnswersOf(p, i) ==
               /\ \A x \in Paths : Unchanged(p, i, x) =>
                    /\ LiveWith(rows, i) = {x}
                    /\ Observed(rows, x, p, i) = [rows EXCEPT ![x].seen = epoch]
               /\ Unseen(p, i) => /\ LiveWith(rows, i) = {}
                                  /\ \A x \in Paths : rows[x].exists => x # p /\ rows[x].path # p
  <1>1. ASSUME ScanTypes, NEW d \in Dirs, Publishing(d), NEW p \in Paths,
               NEW i, i = walked[d].files[p], i # NoFile
        PROVE  AnswersOf(p, i)
    <2> USE <1>1
    <2>1. /\ \A x \in Paths \ dirty.ids : Agrees(cache[x], rows[x])
          /\ \A x \in dirty.ids :
               /\ x \in Paths /\ rows[x].exists /\ rows[x].live
               /\ rows[x].inode \in dirty.inodes /\ Over(rows[x].path)
      BY PublishFacts DEF ScanTypes, Inventory, RowTypes
    <2>2. DirOf[p] = d /\ walked[d].done /\ front[d].state = "leased"
      BY PublishFacts
    <2>3. ~Over(p)
      BY <2>2 DEF Over
    <2>4. ASSUME NEW x \in Paths, Unchanged(p, i, x)
          PROVE  /\ LiveWith(rows, i) = {x}
                 /\ Observed(rows, x, p, i) = [rows EXCEPT ![x].seen = epoch]
      <3>1. /\ cache[x].exists /\ cache[x].live /\ cache[x].path = p /\ cache[x].inode = i
            /\ x \notin dirty.ids /\ i \notin dirty.inodes
            /\ \A y \in Paths : cache[y].exists => (cache[y].live /\ cache[y].inode = i => y = x)
        BY <2>4 DEF Unchanged
      <3>2. rows[x].exists /\ rows[x].live /\ rows[x].path = p /\ rows[x].inode = i
        BY <2>1, <3>1 DEF Agrees
      <3>3. LiveWith(rows, i) = {x}
        BY <2>1, <3>1, <3>2 DEF Agrees, LiveWith
      <3>4. rows[x] \in FileRow
        BY <3>2, PublishFacts, RowFacts
      <3>5. [exists |-> TRUE, path |-> p, inode |-> i, seen |-> epoch, live |-> TRUE]
              = [rows[x] EXCEPT !.seen = epoch]
        BY <3>2, <3>4, SeenAnew
      <3>6. Observed(rows, x, p, i) = [rows EXCEPT ![x] = [rows[x] EXCEPT !.seen = epoch]]
        BY <3>5 DEF Observed
      <3>7. [rows EXCEPT ![x].seen = epoch] = [rows EXCEPT ![x] = [rows[x] EXCEPT !.seen = epoch]]
        OBVIOUS
      <3> QED
        BY <3>3, <3>6, <3>7
    <2>5. ASSUME Unseen(p, i)
          PROVE  /\ LiveWith(rows, i) = {}
                 /\ \A x \in Paths : rows[x].exists => x # p /\ rows[x].path # p
      <3>1. /\ ~cache[p].exists /\ p \notin dirty.ids /\ i \notin dirty.inodes
            /\ \A x \in Paths : cache[x].exists =>
                 cache[x].path # p /\ ~(cache[x].live /\ cache[x].inode = i)
        BY <2>5 DEF Unseen
      <3>2. LiveWith(rows, i) = {}
        BY <2>1, <3>1 DEF Agrees, LiveWith
      <3>3. \A x \in Paths : rows[x].exists => x # p /\ rows[x].path # p
        BY <2>1, <2>3, <3>1 DEF Agrees
      <3> QED
        BY <3>2, <3>3
    <2> QED
      BY <2>4, <2>5
  <1> HIDE DEF AnswersOf
  <1>2. ASSUME ScanTypes, NEW d \in Dirs, Publishing(d), NEW p \in Paths,
               walked[d].files[p] # NoFile
        PROVE  AnswersOf(p, walked[d].files[p])
    BY <1>1, <1>2
  <1>3. ScanTypes => CacheSound
    BY <1>2, Zenon DEF CacheSound, AnswersOf
  <1> QED
    BY <1>3, ScanTypesHold, PTL

-----------------------------------------------------------------------------
(* What was there throughout is seen *)

\* The directories above d, and d: what every set that holds d, and of each
\* directory its parent, has.
Above(d) ==
    {e \in Dirs : \A S \in SUBSET Dirs :
                    d \in S /\ (\A s \in S \ {Root} : Parent[s] \in S) => e \in S}

\* Files that have been where they are from the beginning of the scan.
Kept == {p \in steady : at[p] # NoFile}

\* Live rows of a path, and their being seen.
RowOf(x, p) == rows[x].exists /\ rows[x].live /\ rows[x].path = p
Seen(p) == \A x \in Paths : RowOf(x, p) /\ rows[x].inode = at[p] => rows[x].seen = epoch

\* The way down to what was kept is found: a directory above it is in the
\* frontier once its parent is completed, and until then once its parent has been
\* walked, unless the report still holds it.
WayIsFound ==
    \A p \in Kept : \A c \in Above(DirOf[p]) \ {Root} :
      /\ front[Parent[c]].state = "completed" => front[c].state # "none"
      /\ walked[Parent[c]].done =>
           c \in walked[Parent[c]].children \/ front[c].state # "none"

\* What was kept has been seen once its directory is completed, and until then
\* once it has been published, unless the report still holds it.
KeptIsSeen ==
    \A p \in Kept :
      /\ front[DirOf[p]].state = "completed" => Seen(p)
      /\ walked[DirOf[p]].done =>
           \/ walked[DirOf[p]].files[p] = at[p]
           \/ /\ walked[DirOf[p]].files[p] = NoFile /\ walked[DirOf[p]].reconciled
              /\ Seen(p)

KeptInv == ScanTypes /\ WayIsFound /\ KeptIsSeen

\* A directory is above itself, and its parents are; all of them are there with it.
LEMMA AboveFacts ==
    ASSUME NEW d \in Dirs
    PROVE  /\ d \in Above(d)
           /\ \A c \in Above(d) \ {Root} : Parent[c] \in Above(d)
           /\ \A S \in SUBSET Dirs :
                d \in S /\ (\A s \in S \ {Root} : Parent[s] \in S) => Above(d) \subseteq S
  BY DEF Above

\* What a step of a scan may do with a directory.
Advances(e) ==
    /\ front'[e].state = "none" => front[e].state = "none"
    /\ front'[e].state = "completed" =>
         \/ front[e].state = "completed"
         \/ /\ walked[e].done /\ walked[e].children = {}
            /\ \A p \in Paths : walked[e].files[p] = NoFile
    /\ walked'[e].done =>
         \/ ~walked[e].done /\ walked'[e] = Report(e)
         \/ /\ walked[e].done
            /\ \A c \in walked[e].children :
                 c \in walked'[e].children \/ front'[c].state # "none"

\* What it may do with a path's rows and reports.
Records(p) ==
    /\ \A x \in Paths : RowOf(x, p)' =>
         \/ rows'[x].seen = epoch'
         \/ walked[DirOf[p]].done /\ ~walked[DirOf[p]].reconciled
         \/ /\ RowOf(x, p)
            /\ rows'[x].inode = rows[x].inode /\ rows'[x].seen = rows[x].seen
    /\ walked[DirOf[p]].done /\ walked'[DirOf[p]].done =>
         \/ /\ walked'[DirOf[p]].files[p] = walked[DirOf[p]].files[p]
            /\ walked[DirOf[p]].reconciled => walked'[DirOf[p]].reconciled
         \/ /\ walked[DirOf[p]].files[p] # NoFile
            /\ walked'[DirOf[p]].files[p] = NoFile /\ walked'[DirOf[p]].reconciled
            /\ \A x \in Paths : RowOf(x, p)' => rows'[x].seen = epoch'

Steady == UNCHANGED <<at, dirs, steady, epoch>>

\* Steps of these kinds keep what is found and seen.
LEMMA KeptKept ==
    ASSUME KeptInv, Steady, \A e \in Dirs : Advances(e), \A p \in Paths : Records(p)
    PROVE  WayIsFound' /\ KeptIsSeen'
  <1>1. /\ at' = at /\ dirs' = dirs /\ steady' = steady /\ epoch' = epoch
        /\ Kept' = Kept /\ Kept \subseteq Paths
        /\ \A p \in Kept : at[p] # NoFile /\ DirOf[p] \in Dirs
    BY DEF Kept, Steady, KeptInv, ScanTypes, DiskTypes
  <1>2. WalkTypes /\ DiskIsATree /\ WayIsFound /\ KeptIsSeen /\ dirs \subseteq Dirs
    BY DEF KeptInv, ScanTypes, DiskTypes
  <1>3. ASSUME NEW p \in Kept, NEW c \in Above(DirOf[p]) \ {Root}
        PROVE  /\ front'[Parent[c]].state = "completed" => front'[c].state # "none"
               /\ walked'[Parent[c]].done =>
                    c \in walked'[Parent[c]].children \/ front'[c].state # "none"
    <2>1. c \in Dirs /\ Parent[c] \in Dirs /\ c \in dirs
      <3>1. Above(DirOf[p]) \subseteq dirs
        BY <1>1, <1>2, AboveFacts DEF DiskIsATree
      <3> QED
        BY <1>2, <3>1
    <2>2. /\ front[Parent[c]].state = "completed" => front[c].state # "none"
          /\ walked[Parent[c]].done =>
               c \in walked[Parent[c]].children \/ front[c].state # "none"
      BY <1>2 DEF WayIsFound
    <2>3. Advances(c) /\ Advances(Parent[c])
      BY <2>1
    <2>4. walked'[Parent[c]] = Report(Parent[c]) => c \in walked'[Parent[c]].children
      BY <2>1, <1>2, ReportFacts DEF KeptInv
    <2> QED
      BY <2>2, <2>3, <2>4 DEF Advances
  <1>4. ASSUME NEW p \in Kept
        PROVE  /\ front'[DirOf[p]].state = "completed" => Seen(p)'
               /\ walked'[DirOf[p]].done =>
                    \/ walked'[DirOf[p]].files[p] = at[p]
                    \/ /\ walked'[DirOf[p]].files[p] = NoFile /\ walked'[DirOf[p]].reconciled
                       /\ Seen(p)'
    <2>1. /\ p \in Paths /\ DirOf[p] \in Dirs /\ at[p] # NoFile
          /\ Advances(DirOf[p]) /\ Records(p)
      BY <1>1
    <2>2. /\ front[DirOf[p]].state = "completed" => Seen(p)
          /\ walked[DirOf[p]].done =>
               \/ walked[DirOf[p]].files[p] = at[p]
               \/ /\ walked[DirOf[p]].files[p] = NoFile /\ walked[DirOf[p]].reconciled
                  /\ Seen(p)
          /\ walked[DirOf[p]].done => front[DirOf[p]].state = "leased"
      BY <1>2, <2>1 DEF KeptIsSeen, WalkTypes
    <2>3. Seen(p) /\ (walked[DirOf[p]].done => walked[DirOf[p]].reconciled) => Seen(p)'
      BY <1>1, <2>1 DEF Seen, Records
    <2>4. walked'[DirOf[p]] = Report(DirOf[p]) => walked'[DirOf[p]].files[p] = at[p]
      BY <2>1, ReportFacts DEF KeptInv
    <2>5. front'[DirOf[p]].state = "completed" => Seen(p)'
      BY <2>1, <2>2, <2>3 DEF Advances
    <2>6. ASSUME walked'[DirOf[p]].done, walked[DirOf[p]].done
          PROVE  \/ walked'[DirOf[p]].files[p] = at[p]
                 \/ /\ walked'[DirOf[p]].files[p] = NoFile /\ walked'[DirOf[p]].reconciled
                    /\ Seen(p)'
      <3>1. CASE /\ walked'[DirOf[p]].files[p] = walked[DirOf[p]].files[p]
                 /\ walked[DirOf[p]].reconciled => walked'[DirOf[p]].reconciled
        BY <2>2, <2>3, <2>6, <3>1
      <3>2. CASE /\ walked'[DirOf[p]].files[p] = NoFile /\ walked'[DirOf[p]].reconciled
                 /\ \A x \in Paths : RowOf(x, p)' => rows'[x].seen = epoch'
        BY <3>2 DEF Seen
      <3> QED
        BY <2>1, <2>6, <3>1, <3>2 DEF Records
    <2> QED
      BY <2>1, <2>4, <2>5, <2>6 DEF Advances
  <1>5. WayIsFound'
    BY <1>1, <1>3 DEF WayIsFound
  <1>6. KeptIsSeen'
    BY <1>1, <1>4 DEF KeptIsSeen
  <1> QED
    BY <1>5, <1>6

\* What the file system changes is not kept; the rest is as it was.
LEMMA KeptFrame ==
    ASSUME KeptInv, DiskStep \/ UNCHANGED vars
    PROVE  WayIsFound' /\ KeptIsSeen'
  <1>1. at \in [Paths -> Inodes \cup {NoFile}] /\ steady \subseteq Paths
    BY DEF KeptInv, ScanTypes, DiskTypes
  <1>2. /\ front' = front /\ walked' = walked /\ rows' = rows /\ epoch' = epoch
        /\ steady' \subseteq steady /\ \A p \in steady' : at'[p] = at[p]
    <2>1. CASE UNCHANGED vars
      BY <2>1 DEF vars, disk, frontier, process, history
    <2>2. ASSUME NEW p \in Paths, Create(p) \/ Delete(p)
          PROVE  /\ UNCHANGED <<frontier, rows, process>> /\ steady' = steady \ {p}
                 /\ \A q \in Paths \ {p} : at'[q] = at[q]
      BY <1>1, <2>2 DEF Create, Delete, Change
    <2>3. ASSUME NEW p \in Paths, NEW q \in Paths, Move(p, q)
          PROVE  /\ UNCHANGED <<frontier, rows, process>> /\ steady' = steady \ {p, q}
                 /\ \A r \in Paths \ {p, q} : at'[r] = at[r]
      BY <1>1, <2>3 DEF Move, Change
    <2>4. ASSUME NEW d \in Dirs \ {Root}, MakeDir(d) \/ RemoveDir(d)
          PROVE  /\ UNCHANGED <<frontier, rows, process>> /\ steady' = steady
                 /\ at' = at
      BY <2>4 DEF MakeDir, RemoveDir, Change
    <2> QED
      BY <1>1, <2>1, <2>2, <2>3, <2>4 DEF DiskStep, frontier, process
  <1>3. Kept' \subseteq Kept /\ \A p \in Kept' : at'[p] = at[p]
    BY <1>2 DEF Kept
  <1>4. WayIsFound'
    BY <1>2, <1>3 DEF WayIsFound, KeptInv
  <1>5. KeptIsSeen'
    BY <1>2, <1>3 DEF KeptIsSeen, KeptInv, Seen, RowOf
  <1> QED
    BY <1>4, <1>5

\* Nothing that lives dies.
Alive == \A x \in Paths : rows[x].exists /\ rows[x].live => rows'[x].live

Keeps == Steady /\ (\A e \in Dirs : Advances(e)) /\ (\A p \in Paths : Records(p))

\* Steps that complete and publish nothing.
LEMMA PlainStep ==
    ASSUME Steady,
           \A x \in Paths : rows'[x].exists =>
             /\ rows[x].exists /\ (rows'[x].live => rows[x].live)
             /\ rows'[x].path = rows[x].path /\ rows'[x].inode = rows[x].inode
             /\ rows'[x].seen = rows[x].seen,
           \A e \in Dirs :
             /\ walked'[e] = walked[e] \/ ~walked'[e].done
             /\ front'[e].state = "none" => front[e].state = "none"
             /\ front'[e].state = "completed" => front[e].state = "completed"
    PROVE  Keeps
  <1>1. \A e \in Dirs : Advances(e)
    BY DEF Advances
  <1>2. \A p \in Paths : Records(p)
    BY DEF Records, RowOf
  <1> QED
    BY <1>1, <1>2 DEF Keeps

\* Resuming, requeueing, leasing and failing.
LEMMA FrontierKeeps ==
    ASSUME ScanTypes,
           \/ ResumeEpoch \/ RequeueChangedDirectories
           \/ \E ds \in SUBSET Dirs : ClaimDirectories(ds)
           \/ \E d \in Dirs : FailDirectory(d)
    PROVE  Keeps /\ Alive
  <1>0. front \in [Dirs -> Entry]
    BY DEF ScanTypes, FrontTypes
  <1>1. Steady /\ rows' = rows /\ (walked' = walked \/ walked' = [d \in Dirs |-> NotWalked])
    BY DEF ResumeEpoch, RequeueChangedDirectories, ClaimDirectories, FailDirectory, Steady,
           LoadInventory, history, process, frontier, disk
  <1>2. \A e \in Dirs : walked'[e] = walked[e] \/ ~walked'[e].done
    BY <1>1 DEF NotWalked
  <1>3. ASSUME NEW e \in Dirs
        PROVE  front'[e] = front[e] \/ front'[e].state \in {"pending", "leased", "failed"}
    <2>0. front[e] \in Entry /\ \A s \in FrontState : [front[e] EXCEPT !.state = s].state = s
      BY <1>0, EntryFacts
    <2>1. CASE ResumeEpoch
      BY <2>0, <2>1 DEF ResumeEpoch, FrontState
    <2>2. CASE RequeueChangedDirectories
      BY <2>0, <2>2 DEF RequeueChangedDirectories, Requeue, FrontState
    <2>3. CASE \E ds \in SUBSET Dirs : ClaimDirectories(ds)
      BY <2>0, <2>3, LeaseFacts DEF ClaimDirectories
    <2>4. CASE \E d \in Dirs : FailDirectory(d)
      <3>1. PICK d \in Dirs : FailDirectory(d)
        BY <2>4
      <3>2. front' = [front EXCEPT ![d] = [front[d] EXCEPT !.state = "failed"]]
        BY <3>1 DEF FailDirectory
      <3> QED
        BY <1>0, <2>0, <3>2 DEF FrontState
    <2> QED
      BY <2>1, <2>2, <2>3, <2>4
  <1>4. Keeps
    BY <1>1, <1>2, <1>3, PlainStep
  <1> QED
    BY <1>1, <1>4 DEF Alive

\* The end of a process.
LEMMA CloseKeeps ==
    ASSUME ScanTypes, FinishEpoch \/ Interrupt \/ \E d \in Dirs, p \in Paths : RefuseFile(d, p)
    PROVE  Keeps /\ (~FinishEpoch => Alive)
  <1>0. RowTypes
    BY DEF ScanTypes
  <1>1. /\ Steady /\ rows' \in {rows, Reconciled} /\ front' = front
        /\ walked' = [d \in Dirs |-> NotWalked] /\ (~FinishEpoch => rows' = rows)
    BY DEF FinishEpoch, Interrupt, RefuseFile, Closed, Steady, history, frontier, disk
  <1>2. \A e \in Dirs : ~walked'[e].done
    BY <1>1 DEF NotWalked
  <1>3. ASSUME NEW x \in Paths
        PROVE  Reconciled[x].exists =>
                 /\ rows[x].exists /\ (Reconciled[x].live => rows[x].live)
                 /\ Reconciled[x].path = rows[x].path /\ Reconciled[x].inode = rows[x].inode
                 /\ Reconciled[x].seen = rows[x].seen
    <2>1. \/ Reconciled[x] = rows[x]
          \/ rows[x].exists /\ Reconciled[x] = [rows[x] EXCEPT !.live = FALSE]
      BY DEF Reconciled
    <2>2. rows[x] \in Rows
      BY <1>0 DEF RowTypes
    <2>3. rows[x].exists => rows[x] \in FileRow
      BY <2>2, RowFacts
    <2> QED
      BY <2>1, <2>3, DeadNow
  <1> QED
    BY <1>1, <1>2, <1>3, PlainStep DEF Alive

\* A walk reports.
LEMMA WalkKeeps ==
    ASSUME ScanTypes, NEW d \in Dirs, Walk(d)
    PROVE  Keeps /\ Alive
  <1>1. /\ Steady /\ rows' = rows /\ front' = front /\ ~walked[d].done
        /\ walked' = [walked EXCEPT ![d] = Report(d)]
    BY DEF Walk, Steady, frontier, disk, Report
  <1>2. walked \in [Dirs -> Walked \cup {NotWalked}]
    BY DEF ScanTypes, WalkTypes
  <1>3. walked'[d] = Report(d) /\ \A e \in Dirs \ {d} : walked'[e] = walked[e]
    BY <1>1, <1>2
  <1>4. \A e \in Dirs : Advances(e)
    BY <1>1, <1>3 DEF Advances
  <1>5. ASSUME NEW p \in Paths
        PROVE  Records(p)
    <2>1. walked[DirOf[p]].done => walked'[DirOf[p]] = walked[DirOf[p]]
      BY <1>1, <1>3
    <2> QED
      BY <1>1, <2>1 DEF Records, RowOf
  <1> QED
    BY <1>1, <1>4, <1>5 DEF Keeps, Alive

\* The marks of a directory's rows are taken back before anything else of it is
\* published.
LEMMA MarksKeep ==
    ASSUME ScanTypes, NEW d \in Dirs, Publishing(d), NEW p \in Paths, NEW x \in Paths,
           Marks(d)[x].exists, Marks(d)[x].path = p
    PROVE  /\ rows[x].exists /\ rows[x].path = p /\ rows[x].live = Marks(d)[x].live
           /\ rows[x].inode = Marks(d)[x].inode
           /\ Marks(d)[x].seen = rows[x].seen
                \/ (walked[DirOf[p]].done /\ ~walked[DirOf[p]].reconciled)
  <1>1. /\ rows[x].exists /\ rows[x].path = p /\ rows[x].live = Marks(d)[x].live
        /\ rows[x].inode = Marks(d)[x].inode
    BY PublishFacts DEF Agrees
  <1>2. RowTypes /\ FrontTypes /\ WalkTypes /\ epoch >= 1
    BY PublishFacts DEF ScanTypes
  <1>3. DirOf[p] # d \/ walked[d].reconciled => Marks(d)[x] = rows[x]
    BY <1>1, <1>2, MarksFacts
  <1>4. walked[d].done
    BY DEF Publishing
  <1> QED
    BY <1>1, <1>3, <1>4

\* The row of a file is written.
LEMMA FileKeeps ==
    ASSUME ScanTypes, NEW d \in Dirs, Publishing(d), NEW p \in Paths, Published(d, p),
           walked[d].files[p] # NoFile, Steady, front' = front, Unique(rows)',
           NEW x \in Paths, rows'[x].exists, rows'[x].live, rows'[x].path = p,
           rows'[x].seen = epoch, \A y \in Paths \ {x} : rows'[y] = Marks(d)[y]
    PROVE  Keeps /\ Alive
  <1>1. epoch' = epoch /\ DirOf[p] = d /\ walked[d].done
    BY PublishFacts DEF Steady
  <1>2. \A e \in Dirs : Advances(e)
    BY <1>1, PublishedFacts DEF Advances
  <1>3. \A y \in Paths : RowOf(y, p)' => rows'[y].seen = epoch'
    <2>1. \A y \in Paths : rows'[y].exists /\ rows'[y].path = p => y = x
      BY DEF Unique
    <2> QED
      BY <1>1, <2>1 DEF RowOf
  <1>4. Records(p)
    BY <1>1, <1>3, PublishedFacts DEF Records
  <1>5. ASSUME NEW q \in Paths \ {p}
        PROVE  Records(q)
    <2>1. /\ DirOf[q] \in Dirs
          /\ \/ walked'[DirOf[q]] = walked[DirOf[q]]
             \/ /\ walked'[DirOf[q]].files[q] = walked[DirOf[q]].files[q]
                /\ walked'[DirOf[q]].reconciled
      BY PublishedFacts
    <2>2. \A y \in Paths : RowOf(y, q)' =>
            \/ walked[DirOf[q]].done /\ ~walked[DirOf[q]].reconciled
            \/ /\ RowOf(y, q)
               /\ rows'[y].inode = rows[y].inode /\ rows'[y].seen = rows[y].seen
      <3>1. \A y \in Paths : RowOf(y, q)' =>
              /\ rows'[y] = Marks(d)[y]
              /\ rows'[y].exists /\ rows'[y].live /\ rows'[y].path = q
        BY DEF RowOf
      <3> QED
        BY <3>1, MarksKeep DEF RowOf
    <2> QED
      BY <2>1, <2>2 DEF Records
  <1>6. Alive
    <2>1. \A y \in Paths : Agrees(rows[y], Marks(d)[y])
      BY PublishFacts
    <2> QED
      BY <2>1 DEF Alive, Agrees
  <1> QED
    BY <1>2, <1>4, <1>5, <1>6 DEF Keeps

\* A file is touched.
LEMMA TouchKeeps ==
    ASSUME ScanTypes, NEW d \in Dirs, NEW p \in Paths, TouchFile(d, p)
    PROVE  Keeps /\ Alive
  <1>1. PICK x \in Paths : /\ Unchanged(p, walked[d].files[p], x)
                           /\ rows' = [Marks(d) EXCEPT ![x].seen = epoch]
    BY DEF TouchFile
  <1>2. /\ Publishing(d) /\ Published(d, p) /\ walked[d].files[p] # NoFile
        /\ Steady /\ front' = front
    BY DEF TouchFile, Steady, disk, frontier, history
  <1>3. Inventory /\ RowTypes'
    BY TouchTypes DEF ScanTypes
  <1>4. rows[x].exists /\ rows[x].live /\ rows[x].path = p
    <2>1. x \notin dirty.ids /\ cache[x].exists /\ cache[x].live /\ cache[x].path = p
      BY <1>1 DEF Unchanged
    <2>2. Agrees(cache[x], rows[x])
      BY <1>2, <2>1, <1>3, PublishFacts DEF Inventory
    <2> QED
      BY <2>1, <2>2 DEF Agrees
  <1>5. /\ Marks(d)[x] \in FileRow /\ epoch \in 0..MaxEpochs
        /\ Marks(d)[x].live /\ Marks(d)[x].path = p
    <2>1. Marks(d)[x] \in Rows /\ Agrees(rows[x], Marks(d)[x])
      BY <1>2, PublishFacts
    <2> QED
      BY <1>2, <1>4, <2>1, PublishFacts, RowFacts DEF Agrees
  <1>6. /\ [Marks(d)[x] EXCEPT !.seen = epoch].exists
        /\ [Marks(d)[x] EXCEPT !.seen = epoch].live
        /\ [Marks(d)[x] EXCEPT !.seen = epoch].path = p
        /\ [Marks(d)[x] EXCEPT !.seen = epoch].seen = epoch
    <2>1. \A r \in FileRow : r.live => \A s \in 0..MaxEpochs :
            /\ [r EXCEPT !.seen = s].exists /\ [r EXCEPT !.seen = s].live
            /\ [r EXCEPT !.seen = s].path = r.path /\ [r EXCEPT !.seen = s].seen = s
      BY SeenAgain
    <2> QED
      BY <1>5, <2>1, Zenon
  <1>7. /\ rows'[x] = [Marks(d)[x] EXCEPT !.seen = epoch]
        /\ \A y \in Paths \ {x} : rows'[y] = Marks(d)[y]
    <2>1. rows' = [Marks(d) EXCEPT ![x] = [Marks(d)[x] EXCEPT !.seen = epoch]]
      BY <1>1
    <2>2. Marks(d) \in [Paths -> Rows]
      BY <1>2, PublishFacts
    <2> QED
      BY <2>1, <2>2
  <1>8. Unique(rows)'
    BY <1>3 DEF RowTypes
  <1>9. rows'[x].exists /\ rows'[x].live /\ rows'[x].path = p /\ rows'[x].seen = epoch
    BY <1>6, <1>7
  <1>10. \A y \in Paths \ {x} : rows'[y] = Marks(d)[y]
    BY <1>7
  <1> QED
    BY <1>2, <1>8, <1>9, <1>10, FileKeeps

\* A file is observed.
LEMMA ObserveKeeps ==
    ASSUME ScanTypes, NEW d \in Dirs, NEW p \in Paths, ObserveFile(d, p)
    PROVE  Keeps /\ Alive
  <1>1. PICK x \in Identities(Marks(d), p, walked[d].files[p]) :
               rows' = Observed(Marks(d), x, p, walked[d].files[p])
    BY DEF ObserveFile
  <1>2. /\ Publishing(d) /\ Published(d, p) /\ walked[d].files[p] # NoFile
        /\ Steady /\ front' = front
    BY DEF ObserveFile, Steady, disk, frontier, history
  <1>3. x \in Paths
    BY DEF Identities, LiveWith
  <1>4. Marks(d) \in [Paths -> Rows]
    BY <1>2, PublishFacts
  <1>5. /\ rows'[x] = [exists |-> TRUE, path |-> p, inode |-> walked[d].files[p],
                       seen |-> epoch, live |-> TRUE]
        /\ \A y \in Paths \ {x} : rows'[y] = Marks(d)[y]
    BY <1>1, <1>3, <1>4 DEF Observed
  <1>6. rows'[x].exists /\ rows'[x].live /\ rows'[x].path = p /\ rows'[x].seen = epoch
    BY <1>5
  <1>7. Unique(rows)'
    BY ObserveTypes DEF ScanTypes, RowTypes
  <1> QED
    BY <1>2, <1>3, <1>5, <1>6, <1>7, FileKeeps

\* Marks alone take back what will be published again.
LEMMA MarkedKeeps ==
    ASSUME ScanTypes, NEW d \in Dirs, Publishing(d), rows' = Marks(d), Steady,
           \A e \in Dirs : Advances(e),
           \A e \in Dirs \ {d} : walked'[e] = walked[e],
           walked'[d].done => walked'[d].files = walked[d].files /\ walked'[d].reconciled
    PROVE  Keeps /\ Alive
  <1>1. ASSUME NEW p \in Paths
        PROVE  Records(p)
    <2>1. /\ DirOf[p] \in Dirs
          /\ \/ walked'[DirOf[p]] = walked[DirOf[p]]
             \/ ~walked'[DirOf[p]].done
             \/ /\ walked'[DirOf[p]].files[p] = walked[DirOf[p]].files[p]
                /\ walked'[DirOf[p]].reconciled
      OBVIOUS
    <2>2. \A y \in Paths : RowOf(y, p)' =>
            \/ walked[DirOf[p]].done /\ ~walked[DirOf[p]].reconciled
            \/ /\ RowOf(y, p)
               /\ rows'[y].inode = rows[y].inode /\ rows'[y].seen = rows[y].seen
      BY MarksKeep DEF RowOf
    <2> QED
      BY <2>1, <2>2 DEF Records
  <1>2. Alive
    <2>1. \A y \in Paths : Agrees(rows[y], Marks(d)[y])
      BY PublishFacts
    <2> QED
      BY <2>1 DEF Alive, Agrees
  <1> QED
    BY <1>1, <1>2 DEF Keeps

\* A child, or the end of a directory, is published.
LEMMA DirectoryKeeps ==
    ASSUME ScanTypes, NEW d \in Dirs, CompleteDirectory(d) \/ \E c \in Dirs : PublishChild(d, c)
    PROVE  Keeps /\ Alive
  <1>1. Publishing(d) /\ rows' = Marks(d) /\ Steady
    BY DEF CompleteDirectory, PublishChild, Steady, disk, history
  <1>2. /\ walked[d].done /\ walked \in [Dirs -> Walked \cup {NotWalked}]
        /\ walked[d] \in Walked /\ walked[d].files \in [Paths -> Inodes \cup {NoFile}]
        /\ walked[d].children \subseteq Dirs
        /\ front \in [Dirs -> Entry]
    BY <1>1, PublishFacts DEF ScanTypes, FrontTypes
  <1>3. CASE CompleteDirectory(d)
    <2>1. /\ walked' = [walked EXCEPT ![d] = NotWalked]
          /\ \A e \in Dirs \ {d} : front'[e] = front[e]
          /\ front'[d].state = "completed" /\ walked[d].children = {}
          /\ \A p \in Paths : walked[d].files[p] = NoFile
      BY <1>2, <1>3 DEF CompleteDirectory
    <2>2. ~walked'[d].done /\ \A e \in Dirs \ {d} : walked'[e] = walked[e]
      BY <1>2, <2>1 DEF NotWalked
    <2>3. \A e \in Dirs : Advances(e)
      BY <1>2, <2>1, <2>2 DEF Advances
    <2> QED
      BY <1>1, <2>2, <2>3, MarkedKeeps
  <1>4. ASSUME NEW c \in Dirs, PublishChild(d, c)
        PROVE  Keeps /\ Alive
    <2> DEFINE left == Left(walked[d], walked[d].files, walked[d].children \ {c})
    <2>1. /\ walked' = [walked EXCEPT ![d] = left]
          /\ \/ front[c].state = "none" /\ front' = [front EXCEPT ![c].state = "pending"]
             \/ front[c].state # "none" /\ front' = front
      BY <1>4 DEF PublishChild
    <2>2. /\ left.done /\ left.files = walked[d].files /\ left.reconciled
          /\ left.children = walked[d].children \ {c}
      BY <1>2, LeftFacts
    <2> HIDE DEF left
    <2>3. walked'[d] = left /\ \A e \in Dirs \ {d} : walked'[e] = walked[e]
      BY <1>2, <2>1
    <2>4. /\ front'[c].state # "none"
          /\ \A e \in Dirs : front'[e] = front[e] \/ front'[e].state = "pending"
      <3>1. CASE front[c].state = "none" /\ front' = [front EXCEPT ![c].state = "pending"]
        <4>1. /\ front' = [front EXCEPT ![c] = [front[c] EXCEPT !.state = "pending"]]
              /\ "pending" \in FrontState /\ front[c] \in Entry
          BY <1>2, <3>1 DEF FrontState
        <4> QED
          BY <1>2, <4>1, EntryFacts
      <3>2. CASE front[c].state # "none" /\ front' = front
        BY <3>2
      <3> QED
        BY <2>1, <3>1, <3>2
    <2>5. \A e \in Dirs : Advances(e)
      <3>1. Advances(d)
        BY <1>2, <2>2, <2>3, <2>4 DEF Advances
      <3>2. \A e \in Dirs \ {d} : Advances(e)
        BY <2>3, <2>4 DEF Advances
      <3> QED
        BY <3>1, <3>2
    <2> QED
      BY <1>1, <2>2, <2>3, <2>5, MarkedKeeps
  <1> QED
    BY <1>3, <1>4

-----------------------------------------------------------------------------
(* Nothing that was there throughout is declared missing *)

\* The steps of a scan, once it has begun.
ScanStep ==
    \/ ResumeEpoch \/ RequeueChangedDirectories
    \/ \E ds \in SUBSET Dirs : ClaimDirectories(ds)
    \/ \E d \in Dirs :
         \/ Walk(d) \/ FailDirectory(d) \/ CompleteDirectory(d)
         \/ \E p \in Paths : TouchFile(d, p) \/ ObserveFile(d, p) \/ RefuseFile(d, p)
         \/ \E c \in Dirs : PublishChild(d, c)
    \/ FinishEpoch \/ Interrupt

\* All of them keep what is found and seen, and all but the last kill nothing.
LEMMA ScanStepKeeps ==
    ASSUME ScanTypes, ScanStep
    PROVE  Keeps /\ (~FinishEpoch => Alive)
  <1>1. CASE \/ ResumeEpoch \/ RequeueChangedDirectories
             \/ \E ds \in SUBSET Dirs : ClaimDirectories(ds)
             \/ \E d \in Dirs : FailDirectory(d)
    BY <1>1, FrontierKeeps
  <1>2. CASE FinishEpoch \/ Interrupt \/ \E d \in Dirs, p \in Paths : RefuseFile(d, p)
    BY <1>2, CloseKeeps
  <1>3. CASE \E d \in Dirs : Walk(d)
    BY <1>3, WalkKeeps
  <1>4. CASE \E d \in Dirs : CompleteDirectory(d) \/ \E c \in Dirs : PublishChild(d, c)
    BY <1>4, DirectoryKeeps
  <1>5. CASE \E d \in Dirs, p \in Paths : TouchFile(d, p) \/ ObserveFile(d, p)
    BY <1>5, TouchKeeps, ObserveKeeps
  <1> QED
    BY <1>1, <1>2, <1>3, <1>4, <1>5 DEF ScanStep

\* The invariant holds at first and after every step ...
LEMMA KeptInvInit == Init => KeptInv
  <1> SUFFICES ASSUME Init PROVE KeptInv
    OBVIOUS
  <1>1. Kept = {}
    BY DEF Init, Kept
  <1> QED
    BY <1>1, ScanTypesInit DEF KeptInv, WayIsFound, KeptIsSeen

LEMMA KeptInvStep == KeptInv /\ [Next]_vars => KeptInv'
  <1> SUFFICES ASSUME KeptInv, [Next]_vars PROVE KeptInv'
    OBVIOUS
  <1>1. ScanTypes /\ ScanTypes'
    BY ScanTypesStep DEF KeptInv
  <1>2. CASE DiskStep \/ UNCHANGED vars
    BY <1>1, <1>2, KeptFrame DEF KeptInv
  <1>3. CASE BeginEpoch
    <2>1. /\ front' = [d \in Dirs |-> IF d = Root THEN [NoEntry EXCEPT !.state = "pending"]
                                                ELSE NoEntry]
          /\ walked' = [d \in Dirs |-> NotWalked] /\ at' = at /\ steady' = Paths
      BY <1>3 DEF BeginEpoch, LoadInventory, disk
    <2>2. \A d \in Dirs : front'[d].state # "completed" /\ ~walked'[d].done
      BY <2>1 DEF NoEntry, NotWalked
    <2>3. \A p \in Kept' : DirOf[p] \in Dirs /\ \A c \in Above(DirOf[p]) \ {Root} : Parent[c] \in Dirs
      BY <2>1 DEF Kept, Above
    <2>4. WayIsFound' /\ KeptIsSeen'
      BY <2>2, <2>3 DEF WayIsFound, KeptIsSeen
    <2> QED
      BY <1>1, <2>4 DEF KeptInv
  <1>4. CASE ScanStep
    BY <1>1, <1>4, ScanStepKeeps, KeptKept DEF Keeps, KeptInv
  <1>5. CASE Rest
    BY <1>1, <1>5, KeptFrame DEF Rest, KeptInv
  <1> QED
    BY <1>2, <1>3, <1>4, <1>5 DEF Next, DiskStep, ScanStep

LEMMA KeptInvHolds == Spec => []KeptInv
  BY KeptInvInit, KeptInvStep, PTL DEF Spec

\* ... and when nothing is left to claim and nothing has failed, every directory
\* above what was kept has been completed,
LEMMA KeptIsCompleted ==
    ASSUME KeptInv, phase = "scanning", outstanding = 0, failures = 0
    PROVE  /\ \A c \in Dirs : front[c].state \in {"none", "completed"}
           /\ \A p \in Kept : front[DirOf[p]].state = "completed"
  <1>1. /\ \A p \in Kept : p \in Paths /\ DirOf[p] \in Dirs
        /\ front \in [Dirs -> Entry] /\ front[Root].state # "none"
    BY DEF KeptInv, ScanTypes, DiskTypes, FrontTypes, Begun, Kept
  <1>2. OpenDirs = {} /\ FailedDirs = {}
    <2>1. Cardinality(OpenDirs) = 0 /\ Cardinality(FailedDirs) = 0
      BY DEF KeptInv, ScanTypes, OutstandingExact, OpenDirs, FailedDirs
    <2> QED
      BY <2>1, CountFacts, FS_EmptySet
  <1>3. \A c \in Dirs : front[c].state \in {"none", "completed"}
    <2>1. \A c \in Dirs : front[c].state \in FrontState
      BY <1>1 DEF Entry
    <2> QED
      BY <1>2, <2>1 DEF OpenDirs, FailedDirs, Open, FrontState
  <1>4. ASSUME NEW p \in Kept
        PROVE  front[DirOf[p]].state = "completed"
    <2> DEFINE lost == {c \in Above(DirOf[p]) : front[c].state = "none"}
    <2>1. lost \in SUBSET Dirs /\ Root \notin lost
      BY <1>1 DEF Above
    <2>2. \A c \in lost \ {Root} : Parent[c] \in lost
      <3>1. TAKE c \in lost \ {Root}
      <3>2. c \in Dirs /\ Parent[c] \in Dirs /\ Parent[c] \in Above(DirOf[p])
        BY <1>1, AboveFacts DEF Above
      <3>3. front[Parent[c]].state = "completed" => front[c].state # "none"
        BY DEF KeptInv, WayIsFound
      <3> QED
        BY <1>3, <3>2, <3>3
    <2> HIDE DEF lost
    <2>3. lost = {}
      BY <2>1, <2>2
    <2> QED
      BY <1>1, <1>3, <2>3, AboveFacts DEF lost
  <1> QED
    BY <1>3, <1>4

\* so that all of it has been seen.
LEMMA AllIsSeen ==
    ASSUME KeptInv, phase = "scanning", outstanding = 0, failures = 0, NEW p \in Kept
    PROVE  Seen(p)
  BY KeptIsCompleted DEF KeptInv, KeptIsSeen

\* A file that was there, unchanged, from the beginning of a scan to its end is
\* not declared missing by it, wherever it was interrupted and resumed, and
\* whatever it published in part and published again.
THEOREM NothingFalselyMissing == Spec => NoFalseTombstone
  <1>1. ASSUME KeptInv, [Next]_vars, NEW x \in Paths, rows[x].exists, rows[x].live,
               rows[x].path \in steady, at[rows[x].path] = rows[x].inode
        PROVE  rows'[x].live
    <2>0. ScanTypes /\ RowTypes /\ rows[x] \in Rows
      BY <1>1 DEF KeptInv, ScanTypes, RowTypes
    <2>1. CASE FinishEpoch
      <3>1. CASE outstanding = 0 /\ failures = 0
        <4>1. rows[x].path \in Kept
          BY <1>1, <2>0, RowFacts DEF Kept, Inodes, NoFile
        <4>2. rows[x].seen = epoch
          BY <1>1, <2>1, <3>1, <4>1, AllIsSeen DEF FinishEpoch, Seen, RowOf
        <4>3. epoch \in 0..MaxEpochs
          BY <2>0 DEF ScanTypes, FrontTypes
        <4>4. rows' = Reconciled
          BY <2>1, <3>1 DEF FinishEpoch
        <4> QED
          BY <1>1, <4>2, <4>3, <4>4 DEF Reconciled
      <3>2. CASE ~(outstanding = 0 /\ failures = 0)
        BY <1>1, <2>1, <3>2 DEF FinishEpoch, Reconciled
      <3> QED
        BY <3>1, <3>2
    <2>2. CASE ScanStep /\ ~FinishEpoch
      BY <1>1, <2>0, <2>2, ScanStepKeeps DEF Alive
    <2>3. CASE DiskStep
      BY <1>1, <2>3 DEF DiskStep, Create, Delete, Move, MakeDir, RemoveDir, Change
    <2>4. CASE BeginEpoch \/ Rest \/ UNCHANGED vars
      BY <1>1, <2>4 DEF BeginEpoch, Rest, vars
    <2> QED
      BY <1>1, <2>1, <2>2, <2>3, <2>4 DEF Next, DiskStep, ScanStep
  <1>2. KeptInv /\ [Next]_vars =>
          [\A x \in Paths :
             rows[x].exists /\ rows[x].live /\ rows[x].path \in steady
               /\ at[rows[x].path] = rows[x].inode
               => rows'[x].live]_vars
    BY <1>1
  <1> QED
    BY <1>2, KeptInvHolds, PTL DEF Spec, NoFalseTombstone

-----------------------------------------------------------------------------
(* What a step may do with the rows and the reports *)

\* A row afterwards is the row it was, seen by no later scan.
Kin(r, s) ==
    s.exists => r.exists /\ s.path = r.path /\ s.inode = r.inode /\ s.seen <= r.seen

\* The file at p is recorded, in the row of that path or of that inode.
Writes(d, p, x) ==
    /\ Publishing(d) /\ Published(d, p) /\ walked[d].files[p] # NoFile
    /\ rows'[x].exists /\ rows'[x].live /\ rows'[x].path = p
    /\ rows'[x].inode = walked[d].files[p] /\ rows'[x].seen = epoch
    /\ x = p \/ (rows[x].exists /\ rows[x].inode = walked[d].files[p])
    /\ \A y \in Paths \ {x} : rows'[y] = Marks(d)[y]
    /\ UNCHANGED <<disk, frontier, phase, history>>

\* Marks taken back leave everything else of a row as it was.
LEMMA MarksKin ==
    ASSUME ScanTypes, NEW d \in Dirs, Publishing(d), NEW y \in Paths
    PROVE  /\ Kin(rows[y], Marks(d)[y])
           /\ (Marks(d)[y].exists /\ DirOf[Marks(d)[y].path] = d
                /\ front[d].attempt > 1 /\ ~walked[d].reconciled /\ rows[y].seen <= epoch)
                => Marks(d)[y].seen < epoch
  <1>1. /\ epoch \in 0..MaxEpochs /\ epoch >= 1 /\ rows[y] \in Rows
        /\ Agrees(rows[y], Marks(d)[y]) /\ Marks(d)[y] \in Rows
    BY PublishFacts
  <1> DEFINE Back == /\ front[d].attempt > 1 /\ ~walked[d].reconciled
                     /\ rows[y].exists /\ DirOf[rows[y].path] = d /\ rows[y].seen = epoch
  <1>2. CASE Back
    <2>1. rows[y] \in FileRow /\ Marks(d)[y] = [rows[y] EXCEPT !.seen = epoch - 1]
      BY <1>1, <1>2, RowFacts DEF Marks
    <2>2. epoch - 1 \in 0..MaxEpochs
      BY <1>1
    <2>3. Marks(d)[y].seen = epoch - 1
      BY <2>1, <2>2, SeenAgain
    <2> QED
      BY <1>1, <1>2, <2>3 DEF Kin, Agrees
  <1>3. CASE ~Back
    <2>1. Marks(d)[y] = rows[y]
      BY <1>3 DEF Marks
    <2>2. rows[y].exists => rows[y].seen \in 0..MaxEpochs
      BY <1>1, RowFacts
    <2>3. Kin(rows[y], rows[y])
      BY <2>2 DEF Kin
    <2>4. (rows[y].exists /\ DirOf[rows[y].path] = d /\ front[d].attempt > 1
            /\ ~walked[d].reconciled) => rows[y].seen # epoch
      BY <1>3
    <2>5. (rows[y].exists /\ rows[y].seen <= epoch /\ rows[y].seen # epoch)
            => rows[y].seen < epoch
      BY <1>1, <2>2
    <2>6. Kin(rows[y], Marks(d)[y])
      BY <2>1, <2>3, Zenon
    <2> HIDE DEF Back
    <2> QED
      BY <2>1, <2>4, <2>5, <2>6
  <1> QED
    BY <1>2, <1>3

\* A file is recorded by being touched or observed.
LEMMA TouchWrites ==
    ASSUME ScanTypes, NEW d \in Dirs, NEW p \in Paths, TouchFile(d, p)
    PROVE  \E x \in Paths : Writes(d, p, x)
  <1> DEFINE i == walked[d].files[p]
  <1>1. PICK x \in Paths : /\ Unchanged(p, i, x)
                           /\ rows' = [Marks(d) EXCEPT ![x].seen = epoch]
    BY DEF TouchFile
  <1>2. /\ Publishing(d) /\ Published(d, p) /\ i # NoFile
        /\ UNCHANGED <<disk, frontier, phase, history>>
    BY DEF TouchFile
  <1>3. Inventory
    BY DEF ScanTypes
  <1>4. rows[x].exists /\ rows[x].live /\ rows[x].path = p /\ rows[x].inode = i
    <2>1. /\ x \notin dirty.ids /\ cache[x].exists /\ cache[x].live
          /\ cache[x].path = p /\ cache[x].inode = i
      BY <1>1 DEF Unchanged
    <2>2. Agrees(cache[x], rows[x])
      BY <1>2, <1>3, <2>1, PublishFacts DEF Inventory
    <2> QED
      BY <2>1, <2>2 DEF Agrees
  <1> HIDE DEF i
  <1>5. /\ Marks(d)[x] \in FileRow /\ epoch \in 0..MaxEpochs
        /\ Marks(d)[x].live /\ Marks(d)[x].path = p /\ Marks(d)[x].inode = i
    <2>1. Marks(d)[x] \in Rows /\ Agrees(rows[x], Marks(d)[x])
      BY <1>2, PublishFacts
    <2> QED
      BY <1>2, <1>4, <2>1, PublishFacts, RowFacts DEF Agrees
  <1> DEFINE seen == [Marks(d)[x] EXCEPT !.seen = epoch]
  <1>6. /\ seen.exists /\ seen.live /\ seen.path = p /\ seen.inode = i /\ seen.seen = epoch
    <2>1. \A r \in FileRow : \A s \in 0..MaxEpochs :
            /\ [r EXCEPT !.seen = s].exists /\ [r EXCEPT !.seen = s].live = r.live
            /\ [r EXCEPT !.seen = s].path = r.path /\ [r EXCEPT !.seen = s].inode = r.inode
            /\ [r EXCEPT !.seen = s].seen = s
      BY SeenAgain
    <2> QED
      BY <1>5, <2>1, Zenon
  <1>7. rows'[x] = seen /\ \A y \in Paths \ {x} : rows'[y] = Marks(d)[y]
    <2>1. rows' = [Marks(d) EXCEPT ![x] = [Marks(d)[x] EXCEPT !.seen = epoch]]
      BY <1>1
    <2>2. Marks(d) \in [Paths -> Rows]
      BY <1>2, PublishFacts
    <2> QED
      BY <2>1, <2>2
  <1> HIDE DEF seen
  <1>8. Writes(d, p, x)
    BY <1>2, <1>4, <1>6, <1>7 DEF Writes, i
  <1> QED
    BY <1>8

\* An observation is one such write, of whichever row its lookup returned.
LEMMA ObserveWrites ==
    ASSUME ScanTypes, NEW d \in Dirs, NEW p \in Paths, ObserveFile(d, p)
    PROVE  \E x \in Paths : Writes(d, p, x)
  <1> DEFINE i == walked[d].files[p]
  <1>1. PICK x \in Identities(Marks(d), p, i) : rows' = Observed(Marks(d), x, p, i)
    BY DEF ObserveFile
  <1>2. /\ Publishing(d) /\ Published(d, p) /\ i # NoFile
        /\ UNCHANGED <<disk, frontier, phase, history>>
    BY DEF ObserveFile
  <1>3. x \in Paths /\ (x = p \/ (Marks(d)[x].exists /\ Marks(d)[x].inode = i))
    BY DEF Identities, LiveWith
  <1>4. x = p \/ (rows[x].exists /\ rows[x].inode = i)
    BY <1>2, <1>3, PublishFacts DEF Agrees
  <1>5. Marks(d) \in [Paths -> Rows]
    BY <1>2, PublishFacts
  <1>6. /\ rows'[x] = [exists |-> TRUE, path |-> p, inode |-> i, seen |-> epoch, live |-> TRUE]
        /\ \A y \in Paths \ {x} : rows'[y] = Marks(d)[y]
    BY <1>1, <1>3, <1>5 DEF Observed
  <1> HIDE DEF i
  <1>7. /\ rows'[x].exists /\ rows'[x].live /\ rows'[x].path = p /\ rows'[x].inode = i
        /\ rows'[x].seen = epoch
    BY <1>6
  <1>8. Writes(d, p, x)
    BY <1>2, <1>4, <1>6, <1>7 DEF Writes, i
  <1> QED
    BY <1>3, <1>8

\* Any other step leaves the rows as they are, but for marks taken back.
LEMMA RowsStep ==
    ASSUME ScanTypes, ScanStep, NEW y \in Paths
    PROVE  \/ Kin(rows[y], rows'[y])
           \/ \E d \in Dirs, p \in Paths : Writes(d, p, y)
  <1>1. rows[y] \in Rows /\ RowTypes
    BY DEF ScanTypes, RowTypes
  <1>2. rows[y].exists => rows[y] \in FileRow /\ rows[y].seen \in 0..MaxEpochs
    BY <1>1, RowFacts
  <1>3. CASE rows' = rows
    BY <1>2, <1>3 DEF Kin
  <1>4. CASE rows' = Reconciled
    <2>1. \/ Reconciled[y] = rows[y]
          \/ rows[y].exists /\ Reconciled[y] = [rows[y] EXCEPT !.live = FALSE]
      BY DEF Reconciled
    <2>2. rows[y].exists => Kin(rows[y], [rows[y] EXCEPT !.live = FALSE])
      <3>1. rows[y].seen \in 0..MaxEpochs => rows[y].seen <= rows[y].seen
        OBVIOUS
      <3> QED
        BY <1>2, <3>1, DeadNow DEF Kin
    <2>3. Kin(rows[y], rows[y])
      BY <1>2 DEF Kin
    <2> QED
      BY <1>4, <2>1, <2>2, <2>3
  <1>5. ASSUME NEW d \in Dirs, Publishing(d), rows' = Marks(d)
        PROVE  Kin(rows[y], rows'[y])
    BY <1>5, MarksKin
  <1>6. ASSUME NEW d \in Dirs, NEW p \in Paths, TouchFile(d, p) \/ ObserveFile(d, p)
        PROVE  Kin(rows[y], rows'[y]) \/ Writes(d, p, y)
    <2>1. PICK x \in Paths : Writes(d, p, x)
      BY <1>6, TouchWrites, ObserveWrites
    <2>2. CASE x # y
      BY <2>1, <2>2, MarksKin DEF Writes
    <2> QED
      BY <2>1, <2>2
  <1>7. \/ rows' = rows \/ rows' = Reconciled
        \/ \E d \in Dirs : Publishing(d) /\ rows' = Marks(d)
        \/ \E d \in Dirs, p \in Paths : TouchFile(d, p) \/ ObserveFile(d, p)
    BY DEF ScanStep, ResumeEpoch, RequeueChangedDirectories, ClaimDirectories, Walk,
           FailDirectory, CompleteDirectory, RefuseFile, PublishChild, FinishEpoch, Interrupt
  <1> QED
    BY <1>3, <1>4, <1>5, <1>6, <1>7

\* A report is what a walk has seen, or what is left of one.
LEMMA WalkedStep ==
    ASSUME ScanTypes, ScanStep \/ BeginEpoch, NEW e \in Dirs, walked'[e].done
    PROVE  \/ ~walked[e].done /\ Walk(e) /\ walked'[e] = Report(e)
           \/ /\ walked[e].done /\ walked'[e].mtime = walked[e].mtime
              /\ walked[e].reconciled => walked'[e].reconciled
              /\ \A p \in Paths : walked'[e].files[p] \in {walked[e].files[p], NoFile}
  <1>0. walked \in [Dirs -> Walked \cup {NotWalked}]
    BY DEF ScanTypes, WalkTypes
  <1>1. walked' # [d \in Dirs |-> NotWalked]
    BY DEF NotWalked
  <1>2. CASE walked' = walked
    BY <1>2
  <1>3. ASSUME NEW d \in Dirs, Walk(d)
        PROVE  (e = d /\ ~walked[e].done /\ walked'[e] = Report(e)) \/ walked'[e] = walked[e]
    <2>1. walked' = [walked EXCEPT ![d] = Report(d)] /\ ~walked[d].done
      BY <1>3 DEF Walk, Report
    <2> QED
      BY <1>0, <2>1
  <1>4. ASSUME NEW d \in Dirs, NEW p \in Paths, TouchFile(d, p) \/ ObserveFile(d, p)
        PROVE  \/ walked'[e] = walked[e]
               \/ /\ e = d /\ walked[e].done /\ walked'[e].mtime = walked[e].mtime
                  /\ walked'[e].reconciled
                  /\ \A q \in Paths : walked'[e].files[q] \in {walked[e].files[q], NoFile}
    <2>1. Publishing(d) /\ Published(d, p) /\ walked[d].done
      BY <1>4 DEF TouchFile, ObserveFile, Publishing
    <2> QED
      BY <2>1, PublishedFacts
  <1>5. ASSUME NEW d \in Dirs, NEW c \in Dirs, PublishChild(d, c)
        PROVE  \/ walked'[e] = walked[e]
               \/ /\ e = d /\ walked[e].done /\ walked'[e].mtime = walked[e].mtime
                  /\ walked'[e].reconciled /\ walked'[e].files = walked[e].files
    <2> DEFINE left == Left(walked[d], walked[d].files, walked[d].children \ {c})
    <2>1. Publishing(d) /\ walked' = [walked EXCEPT ![d] = left] /\ walked[d].done
      BY <1>5 DEF PublishChild, Publishing
    <2>2. walked[d].children \ {c} \in SUBSET Dirs
      BY <2>1, PublishFacts
    <2>3. left.files = walked[d].files /\ left.mtime = walked[d].mtime /\ left.reconciled
      BY <2>1, <2>2, PublishFacts, LeftFacts
    <2> HIDE DEF left
    <2> QED
      BY <1>0, <2>1, <2>3
  <1>6. ASSUME NEW d \in Dirs, CompleteDirectory(d)
        PROVE  walked'[e] = walked[e]
    <2>1. walked' = [walked EXCEPT ![d] = NotWalked] /\ ~NotWalked.done
      BY <1>6 DEF CompleteDirectory, NotWalked
    <2> QED
      BY <1>0, <2>1
  <1>7. \/ walked' = walked
        \/ \E d \in Dirs : Walk(d) \/ CompleteDirectory(d) \/ \E c \in Dirs : PublishChild(d, c)
        \/ \E d \in Dirs, p \in Paths : TouchFile(d, p) \/ ObserveFile(d, p)
    BY <1>1 DEF ScanStep, ResumeEpoch, RequeueChangedDirectories, ClaimDirectories,
           FailDirectory, RefuseFile, FinishEpoch, Interrupt, BeginEpoch,
           LoadInventory, Closed, process
  <1>8. CASE \E d \in Dirs : Walk(d)
    BY <1>2, <1>3, <1>8
  <1> QED
    BY <1>2, <1>4, <1>5, <1>6, <1>7, <1>8

-----------------------------------------------------------------------------
(* What is known of a file *)

\* A report or a row tells of file i at p; so does the file system.
Traced(i, p) ==
    \/ \E d \in Dirs : walked[d].done /\ walked[d].files[p] = i
    \/ \E x \in Paths : rows[x].exists /\ rows[x].inode = i /\ (rows[x].path = p \/ x = p)
Known(i, p) == at[p] = i \/ Traced(i, p)

\* Only what has been there is known; a file is at one path; known at two, it
\* has been moved,
KnownBefore == \A i \in Inodes, p \in Paths : Known(i, p) => i <= changes /\ life[p] # "virgin"
OnePlace == \A p, q \in Paths : at[p] # NoFile /\ at[p] = at[q] => p = q
KnownMoved ==
    \A i \in Inodes, p, q \in Paths : Known(i, p) /\ Known(i, q) /\ p # q => life[p] = "moved"

\* and while no path is used again, has left every other path it is known at.
LeftBehind ==
    tidy => \A p, q \in Paths : at[p] # NoFile /\ Known(at[p], q) /\ p # q =>
      /\ at[q] = NoFile
      /\ p \in steady => \A d \in Dirs : walked[d].done => walked[d].files[q] = NoFile

KnownInv == KnownBefore /\ OnePlace /\ KnownMoved /\ LeftBehind

\* A scan changes nothing of the file system,
LEMMA ScanKeepsDisk ==
    ASSUME ScanStep \/ BeginEpoch
    PROVE  UNCHANGED disk
  BY DEF ScanStep, ResumeEpoch, RequeueChangedDirectories, ClaimDirectories, Walk,
         FailDirectory, CompleteDirectory, TouchFile, ObserveFile, RefuseFile, PublishChild,
         FinishEpoch, Interrupt, BeginEpoch

\* and tells nothing that was not known.
LEMMA NothingNewKnown ==
    ASSUME ScanTypes, ScanStep \/ BeginEpoch, NEW i \in Inodes, NEW q \in Paths, Known(i, q)'
    PROVE  Known(i, q)
  <1>0. at' = at /\ i # NoFile
    <2>1. i # NoFile
      BY DEF Inodes, NoFile
    <2> QED
      BY <2>1, ScanKeepsDisk DEF disk
  <1>1. CASE at'[q] = i
    BY <1>0, <1>1 DEF Known
  <1>2. ASSUME NEW d \in Dirs, walked'[d].done, walked'[d].files[q] = i
        PROVE  Known(i, q)
    <2>1. walked'[d] = Report(d) => at[q] = i
      BY <1>0, <1>2, ReportFacts
    <2>2. CASE walked'[d] = Report(d)
      BY <2>1, <2>2 DEF Known
    <2>3. CASE walked[d].done /\ walked'[d].files[q] \in {walked[d].files[q], NoFile}
      BY <1>0, <1>2, <2>3 DEF Known, Traced
    <2> QED
      BY <1>2, <2>2, <2>3, WalkedStep
  <1>3. ASSUME NEW x \in Paths, rows'[x].exists, rows'[x].inode = i, rows'[x].path = q \/ x = q
        PROVE  Known(i, q)
    <2>1. CASE BeginEpoch
      BY <1>3, <2>1 DEF BeginEpoch, Known, Traced
    <2>2. CASE Kin(rows[x], rows'[x])
      BY <1>3, <2>2 DEF Kin, Known, Traced
    <2>3. ASSUME NEW d \in Dirs, NEW p \in Paths, Writes(d, p, x)
          PROVE  Known(i, q)
      <3>1. walked[d].done /\ walked[d].files[p] = i /\ rows'[x].path = p
            /\ (x = p \/ (rows[x].exists /\ rows[x].inode = i))
        BY <1>3, <2>3 DEF Writes, Publishing
      <3> QED
        BY <1>3, <3>1 DEF Known, Traced
    <2> QED
      BY <2>1, <2>2, <2>3, RowsStep
  <1> QED
    BY <1>1, <1>2, <1>3 DEF Known, Traced

\* Nor does it lose what it knows to be gone.
LEMMA ScanKeepsKnown ==
    ASSUME ScanTypes, KnownInv, ScanStep \/ BeginEpoch
    PROVE  KnownInv'
  <1>0. /\ at' = at /\ changes' = changes /\ life' = life /\ tidy' = tidy
        /\ at \in [Paths -> Inodes \cup {NoFile}]
    BY ScanKeepsDisk DEF disk, ScanTypes, DiskTypes
  <1>1. KnownBefore' /\ OnePlace' /\ KnownMoved'
    <2>1. \A i \in Inodes, p \in Paths : Known(i, p)' => Known(i, p)
      BY NothingNewKnown
    <2>2. KnownBefore'
      BY <1>0, <2>1 DEF KnownInv, KnownBefore
    <2>3. OnePlace'
      BY <1>0 DEF KnownInv, OnePlace
    <2>4. KnownMoved'
      BY <1>0, <2>1 DEF KnownInv, KnownMoved
    <2> QED
      BY <2>2, <2>3, <2>4
  <1>2. ASSUME tidy, NEW p \in Paths, NEW q \in Paths, at[p] # NoFile, Known(at[p], q)', p # q
        PROVE  /\ at[q] = NoFile
               /\ p \in steady' => \A d \in Dirs : walked'[d].done => walked'[d].files[q] = NoFile
    <2>1. at[p] \in Inodes
      BY <1>0, <1>2
    <2>2. Known(at[p], q)
      <3>1. PICK i \in Inodes : at[p] = i
        BY <2>1
      <3>2. Known(i, q)'
        BY <1>0, <1>2, <3>1 DEF Known, Traced
      <3>3. Known(i, q)
        BY <3>2, NothingNewKnown
      <3> QED
        BY <3>1, <3>3
    <2>3. /\ at[q] = NoFile
          /\ p \in steady => \A d \in Dirs : walked[d].done => walked[d].files[q] = NoFile
      BY <1>2, <2>2 DEF KnownInv, LeftBehind
    <2>4. CASE BeginEpoch
      <3>1. \A d \in Dirs : ~walked'[d].done
        BY <2>4 DEF BeginEpoch, LoadInventory, NotWalked
      <3> QED
        BY <2>3, <3>1
    <2>5. CASE ScanStep
      <3>1. steady' = steady
        BY <2>5, ScanStepKeeps DEF Keeps, Steady
      <3>2. ASSUME p \in steady, NEW d \in Dirs, walked'[d].done
            PROVE  walked'[d].files[q] = NoFile
        <4>1. CASE walked'[d] = Report(d)
          BY <2>3, <4>1, ReportFacts
        <4>2. CASE walked[d].done /\ walked'[d].files[q] \in {walked[d].files[q], NoFile}
          BY <2>3, <3>2, <4>2
        <4> QED
          BY <2>5, <3>2, <4>1, <4>2, WalkedStep
      <3> QED
        BY <2>3, <3>1, <3>2
    <2> QED
      BY <2>4, <2>5
  <1>3. LeftBehind'
    BY <1>0, <1>2 DEF LeftBehind
  <1> QED
    BY <1>1, <1>3 DEF KnownInv

\* What is known while only the file system changes.
LEMMA KnownFrame ==
    ASSUME ScanTypes, ScanTypes', walked' = walked, rows' = rows,
           \A i \in Inodes, p \in Paths :
             (at'[p] = i \/ Traced(i, p)) => i <= changes' /\ life'[p] # "virgin",
           \A p, q \in Paths : at'[p] # NoFile /\ at'[p] = at'[q] => p = q,
           \A i \in Inodes, p, q \in Paths :
             (at'[p] = i \/ Traced(i, p)) /\ (at'[q] = i \/ Traced(i, q)) /\ p # q
               => life'[p] = "moved",
           \A i \in Inodes, p, q \in Paths :
             tidy' /\ at'[p] = i /\ (at'[q] = i \/ Traced(i, q)) /\ p # q =>
               /\ at'[q] = NoFile
               /\ p \in steady' => \A d \in Dirs : walked[d].done => walked[d].files[q] = NoFile
    PROVE  KnownInv'
  <1>1. \A i, p : Known(i, p)' <=> at'[p] = i \/ Traced(i, p)
    BY DEF Known, Traced
  <1>2. KnownBefore'
    BY <1>1 DEF KnownBefore
  <1>3. OnePlace'
    BY DEF OnePlace
  <1>4. KnownMoved'
    BY <1>1 DEF KnownMoved
  <1>5. LeftBehind'
    <2>1. ASSUME tidy', NEW p \in Paths, NEW q \in Paths, at'[p] # NoFile, Known(at[p], q)', p # q
          PROVE  /\ at'[q] = NoFile
                 /\ p \in steady' =>
                      \A d \in Dirs : walked'[d].done => walked'[d].files[q] = NoFile
      <3>1. at'[p] \in Inodes
        BY <2>1 DEF ScanTypes, DiskTypes
      <3>2. PICK i \in Inodes : at'[p] = i
        BY <3>1
      <3>3. at'[q] = i \/ Traced(i, q)
        BY <2>1, <3>2 DEF Known, Traced
      <3> QED
        BY <2>1, <3>2, <3>3
    <2> QED
      BY <2>1 DEF LeftBehind
  <1> QED
    BY <1>2, <1>3, <1>4, <1>5 DEF KnownInv

\* The invariant, unfolded.
LEMMA KnownFacts ==
    ASSUME KnownInv
    PROVE  /\ \A i \in Inodes, p \in Paths :
                (at[p] = i \/ Traced(i, p)) => i <= changes /\ life[p] # "virgin"
           /\ \A p, q \in Paths : at[p] # NoFile /\ at[p] = at[q] => p = q
           /\ \A i \in Inodes, p, q \in Paths :
                (at[p] = i \/ Traced(i, p)) /\ (at[q] = i \/ Traced(i, q)) /\ p # q
                  => life[p] = "moved" /\ life[q] = "moved"
           /\ \A i \in Inodes, p, q \in Paths :
                tidy /\ at[p] = i /\ (at[q] = i \/ Traced(i, q)) /\ p # q =>
                  /\ at[q] = NoFile
                  /\ p \in steady => \A d \in Dirs : walked[d].done => walked[d].files[q] = NoFile
  <1>1. \A i \in Inodes : i # NoFile
    BY DEF Inodes, NoFile
  <1> QED
    BY <1>1 DEF KnownInv, KnownBefore, OnePlace, KnownMoved, LeftBehind, Known

\* A file is created, with an inode of its own, ...
LEMMA CreateKeepsKnown ==
    ASSUME ScanTypes, ScanTypes', KnownInv, NEW r \in Paths, Create(r)
    PROVE  KnownInv'
  <1> DEFINE n == changes + 1
  <1>1. /\ at' = [at EXCEPT ![r] = n] /\ changes' = n /\ changes < n /\ n \in Nat
        /\ steady' \subseteq steady
        /\ life' = [life EXCEPT ![r] = IF @ = "moved" THEN "moved" ELSE "plain"]
        /\ tidy' = (tidy /\ life[r] # "moved") /\ walked' = walked /\ rows' = rows
    BY DEF Create, Change, process, ScanTypes, DiskTypes
  <1>2. /\ at \in [Paths -> Inodes \cup {NoFile}] /\ changes \in Nat
        /\ life \in [Paths -> {"virgin", "plain", "moved"}] /\ NoFile \notin Inodes
        /\ Inodes \subseteq Nat
    BY DEF ScanTypes, DiskTypes, Inodes, NoFile
  <1> HIDE DEF n
  <1>3. /\ at'[r] = n /\ \A q \in Paths \ {r} : at'[q] = at[q]
        /\ life'[r] # "virgin"
        /\ \A q \in Paths : /\ life[q] = "moved" => life'[q] = "moved"
                            /\ life[q] # "virgin" => life'[q] # "virgin"
    BY <1>1, <1>2
  <1>4. \A i \in Inodes, p \in Paths : (at[p] = i \/ Traced(i, p)) => i <= changes /\ life[p] # "virgin"
    BY KnownFacts
  <1>5. \A i \in Inodes, p \in Paths : (at[p] = i \/ Traced(i, p)) => i # n
    BY <1>1, <1>2, <1>4
  <1>6. \A i \in Inodes, p, q \in Paths :
          (at[p] = i \/ Traced(i, p)) /\ (at[q] = i \/ Traced(i, q)) /\ p # q
            => life[p] = "moved" /\ life[q] = "moved"
    BY KnownFacts
  <1>7. \A p, q \in Paths : at[p] # NoFile /\ at[p] = at[q] => p = q
    BY KnownFacts
  <1>8. \A i \in Inodes, p, q \in Paths :
          tidy /\ at[p] = i /\ (at[q] = i \/ Traced(i, q)) /\ p # q =>
            /\ at[q] = NoFile
            /\ p \in steady => \A d \in Dirs : walked[d].done => walked[d].files[q] = NoFile
    BY KnownFacts
  <1>9. \A i \in Inodes, p \in Paths :
          (at'[p] = i \/ Traced(i, p)) => i <= changes' /\ life'[p] # "virgin"
    BY <1>1, <1>2, <1>3, <1>4
  <1>10. \A p, q \in Paths : at'[p] # NoFile /\ at'[p] = at'[q] => p = q
    BY <1>2, <1>3, <1>5, <1>7
  <1>11. \A i \in Inodes, p, q \in Paths :
           (at'[p] = i \/ Traced(i, p)) /\ (at'[q] = i \/ Traced(i, q)) /\ p # q
             => life'[p] = "moved"
    BY <1>3, <1>5, <1>6
  <1>12. \A i \in Inodes, p, q \in Paths :
           tidy' /\ at'[p] = i /\ (at'[q] = i \/ Traced(i, q)) /\ p # q =>
             /\ at'[q] = NoFile
             /\ p \in steady' => \A d \in Dirs : walked[d].done => walked[d].files[q] = NoFile
    <2>1. ASSUME NEW i \in Inodes, NEW p \in Paths, NEW q \in Paths,
                 tidy', at'[p] = i, at'[q] = i \/ Traced(i, q), p # q
          PROVE  /\ at'[q] = NoFile
                 /\ p \in steady' =>
                      \A d \in Dirs : walked[d].done => walked[d].files[q] = NoFile
      <3>1. p # r
        BY <1>3, <1>5, <2>1
      <3>2. at[p] = i /\ i # n
        BY <1>3, <1>5, <2>1, <3>1
      <3>3. at[q] = i \/ Traced(i, q)
        BY <1>3, <2>1, <3>2
      <3>4. life[q] = "moved"
        BY <1>6, <2>1, <3>2, <3>3
      <3>5. tidy /\ q # r
        BY <1>1, <2>1, <3>4
      <3>6. /\ at[q] = NoFile
            /\ p \in steady => \A d \in Dirs : walked[d].done => walked[d].files[q] = NoFile
        BY <1>8, <2>1, <3>2, <3>3, <3>5
      <3> QED
        BY <1>1, <1>3, <3>5, <3>6
    <2> QED
      BY <2>1
  <1> QED
    BY <1>1, <1>9, <1>10, <1>11, <1>12, KnownFrame

\* ... or moved to where nothing has been, while all is tidy; ...
LEMMA MoveKeepsKnown ==
    ASSUME ScanTypes, ScanTypes', KnownInv, NEW r \in Paths, NEW s \in Paths, Move(r, s)
    PROVE  KnownInv'
  <1>1. /\ at' = [at EXCEPT ![r] = NoFile, ![s] = at[r]] /\ at[r] # NoFile /\ r # s
        /\ changes' = changes + 1 /\ steady' \subseteq steady /\ s \notin steady'
        /\ life' = [life EXCEPT ![r] = "moved", ![s] = "moved"]
        /\ tidy' = (tidy /\ life[r] = "plain" /\ life[s] = "virgin")
        /\ walked' = walked /\ rows' = rows
    BY DEF Move, Change, process
  <1>2. /\ at \in [Paths -> Inodes \cup {NoFile}] /\ changes \in Nat
        /\ life \in [Paths -> {"virgin", "plain", "moved"}] /\ NoFile \notin Inodes
        /\ Inodes \subseteq Nat
    BY DEF ScanTypes, DiskTypes, Inodes, NoFile
  <1>3. /\ at'[r] = NoFile /\ at'[s] = at[r] /\ life'[r] = "moved" /\ life'[s] = "moved"
        /\ \A q \in Paths \ {r, s} : at'[q] = at[q] /\ life'[q] = life[q]
        /\ at[r] \in Inodes
    BY <1>1, <1>2
  <1>4. \A i \in Inodes, p \in Paths : (at[p] = i \/ Traced(i, p)) => i <= changes /\ life[p] # "virgin"
    BY KnownFacts
  <1>5. \A p, q \in Paths : at[p] # NoFile /\ at[p] = at[q] => p = q
    BY KnownFacts
  <1>6. \A i \in Inodes, p, q \in Paths :
          (at[p] = i \/ Traced(i, p)) /\ (at[q] = i \/ Traced(i, q)) /\ p # q
            => life[p] = "moved" /\ life[q] = "moved"
    BY KnownFacts
  <1>7. \A i \in Inodes, p, q \in Paths :
          tidy /\ at[p] = i /\ (at[q] = i \/ Traced(i, q)) /\ p # q =>
            /\ at[q] = NoFile
            /\ p \in steady => \A d \in Dirs : walked[d].done => walked[d].files[q] = NoFile
    BY KnownFacts
  <1>8. \A i \in Inodes, p \in Paths :
          (at'[p] = i \/ Traced(i, p)) => i <= changes' /\ life'[p] # "virgin"
    <2>1. ASSUME NEW i \in Inodes, NEW p \in Paths, at'[p] = i \/ Traced(i, p)
          PROVE  i <= changes /\ life'[p] # "virgin"
      <3>1. CASE at'[p] = i /\ p = s
        BY <1>3, <1>4, <3>1
      <3>2. CASE at'[p] = i /\ p # s
        BY <1>2, <1>3, <1>4, <3>2
      <3>3. CASE Traced(i, p)
        BY <1>3, <1>4, <3>3
      <3> QED
        BY <2>1, <3>1, <3>2, <3>3
    <2> QED
      BY <1>1, <1>2, <2>1
  <1>9. \A p, q \in Paths : at'[p] # NoFile /\ at'[p] = at'[q] => p = q
    BY <1>1, <1>3, <1>5
  <1>10. \A i \in Inodes, p, q \in Paths :
           (at'[p] = i \/ Traced(i, p)) /\ (at'[q] = i \/ Traced(i, q)) /\ p # q
             => life'[p] = "moved"
    <2>1. ASSUME NEW i \in Inodes, NEW p \in Paths, NEW q \in Paths, p # q,
                 at'[p] = i \/ Traced(i, p), at'[q] = i \/ Traced(i, q)
          PROVE  life'[p] = "moved"
      <3>1. CASE p \in {r, s}
        BY <1>3, <3>1
      <3>2. CASE p \notin {r, s} /\ q = s /\ at'[q] = i
        <4>1. at[r] = i /\ (at[p] = i \/ Traced(i, p)) /\ p # r
          BY <1>3, <2>1, <3>2
        <4>2. life[p] = "moved"
          BY <1>6, <4>1
        <4> QED
          BY <1>3, <3>2, <4>2
      <3>3. CASE p \notin {r, s} /\ ~(q = s /\ at'[q] = i)
        <4>1. at[q] = i \/ Traced(i, q)
          BY <1>2, <1>3, <2>1, <3>3
        <4> QED
          BY <1>3, <1>6, <2>1, <3>3, <4>1
      <3> QED
        BY <3>1, <3>2, <3>3
    <2> QED
      BY <2>1
  <1>11. \A i \in Inodes, p, q \in Paths :
           tidy' /\ at'[p] = i /\ (at'[q] = i \/ Traced(i, q)) /\ p # q =>
             /\ at'[q] = NoFile
             /\ p \in steady' => \A d \in Dirs : walked[d].done => walked[d].files[q] = NoFile
    <2>1. ASSUME NEW i \in Inodes, NEW p \in Paths, NEW q \in Paths,
                 tidy', at'[p] = i, at'[q] = i \/ Traced(i, q), p # q
          PROVE  /\ at'[q] = NoFile
                 /\ p \in steady' =>
                      \A d \in Dirs : walked[d].done => walked[d].files[q] = NoFile
      <3>1. /\ Traced(i, q) /\ q # s
            /\ tidy /\ life[r] = "plain"
        <4>1. at'[q] # i
          BY <1>2, <1>9, <2>1
        <4>2. tidy /\ life[r] = "plain" /\ life[s] = "virgin"
          BY <1>1, <2>1
        <4> QED
          BY <1>4, <2>1, <4>1, <4>2
      <3>2. CASE p = s
        <4>1. q = r
          BY <1>3, <1>6, <2>1, <3>1, <3>2
        <4> QED
          BY <1>1, <1>3, <3>2, <4>1
      <3>3. CASE p # s
        <4>1. p # r /\ at[p] = i
          BY <1>2, <1>3, <2>1, <3>3
        <4>2. /\ at[q] = NoFile
              /\ p \in steady => \A d \in Dirs : walked[d].done => walked[d].files[q] = NoFile
          BY <1>7, <2>1, <3>1, <4>1
        <4> QED
          BY <1>1, <1>3, <3>1, <4>2
      <3> QED
        BY <3>2, <3>3
    <2> QED
      BY <2>1
  <1> QED
    BY <1>1, <1>8, <1>9, <1>10, <1>11, KnownFrame

\* ... or goes, and a directory is made or removed.
LEMMA DiskKeepsKnown ==
    ASSUME ScanTypes, ScanTypes', KnownInv, DiskStep \/ UNCHANGED vars
    PROVE  KnownInv'
  <1>0. /\ at \in [Paths -> Inodes \cup {NoFile}] /\ NoFile \notin Inodes /\ changes \in Nat
        /\ Inodes \subseteq Nat
    BY DEF ScanTypes, DiskTypes, Inodes, NoFile
  <1>1. ASSUME \A q \in Paths : at'[q] \in {at[q], NoFile},
               life' = life, tidy' = tidy, walked' = walked, rows' = rows,
               steady' \subseteq steady, changes' \in {changes, changes + 1}
        PROVE  KnownInv'
    <2>1. \A i \in Inodes, p \in Paths : at'[p] = i => at[p] = i
      BY <1>0, <1>1
    <2>2. \A i \in Inodes, p \in Paths :
            (at'[p] = i \/ Traced(i, p)) => i <= changes' /\ life'[p] # "virgin"
      <3>1. \A i \in Inodes : i <= changes => i <= changes'
        BY <1>0, <1>1
      <3> QED
        BY <1>1, <2>1, <3>1, KnownFacts
    <2>3. \A p, q \in Paths : at'[p] # NoFile /\ at'[p] = at'[q] => p = q
      BY <1>1, KnownFacts
    <2>4. \A i \in Inodes, p, q \in Paths :
            (at'[p] = i \/ Traced(i, p)) /\ (at'[q] = i \/ Traced(i, q)) /\ p # q
              => life'[p] = "moved"
      BY <1>1, <2>1, KnownFacts
    <2>5. \A i \in Inodes, p, q \in Paths :
            tidy' /\ at'[p] = i /\ (at'[q] = i \/ Traced(i, q)) /\ p # q =>
              /\ at'[q] = NoFile
              /\ p \in steady' => \A d \in Dirs : walked[d].done => walked[d].files[q] = NoFile
      BY <1>1, <2>1, KnownFacts
    <2> QED
      BY <1>1, <2>2, <2>3, <2>4, <2>5, KnownFrame
  <1>2. CASE UNCHANGED vars
    BY <1>1, <1>2 DEF vars, disk, process, history
  <1>3. ASSUME NEW p \in Paths, Delete(p)
        PROVE  KnownInv'
    <2>1. \A q \in Paths : at'[q] \in {at[q], NoFile}
      BY <1>0, <1>3 DEF Delete
    <2> QED
      BY <1>1, <1>3, <2>1 DEF Delete, Change, process
  <1>4. ASSUME NEW d \in Dirs \ {Root}, MakeDir(d) \/ RemoveDir(d)
        PROVE  KnownInv'
    BY <1>1, <1>4 DEF MakeDir, RemoveDir, Change, process
  <1> QED
    BY <1>2, <1>3, <1>4, CreateKeepsKnown, MoveKeepsKnown DEF DiskStep

\* At first nothing is known, ...
LEMMA KnownInvInit == Init => KnownInv
  <1> SUFFICES ASSUME Init PROVE KnownInv
    OBVIOUS
  <1>1. \A i \in Inodes, p \in Paths : ~Known(i, p)
    BY DEF Init, Known, Traced, Inodes, NoFile, NotWalked, NoRow
  <1>2. \A p \in Paths : at[p] = NoFile
    BY DEF Init
  <1> QED
    BY <1>1, <1>2 DEF KnownInv, KnownBefore, OnePlace, KnownMoved, LeftBehind

\* ... and no step is told of a file where it has not been.
LEMMA KnownInvStep == ScanTypes /\ KnownInv /\ [Next]_vars => KnownInv'
  <1> SUFFICES ASSUME ScanTypes, KnownInv, [Next]_vars PROVE KnownInv'
    OBVIOUS
  <1>1. ScanTypes'
    BY ScanTypesStep
  <1>2. CASE DiskStep \/ UNCHANGED vars
    BY <1>1, <1>2, DiskKeepsKnown
  <1>3. CASE ScanStep \/ BeginEpoch
    BY <1>3, ScanKeepsKnown
  <1>4. CASE Rest
    BY <1>1, <1>4, DiskKeepsKnown DEF Rest
  <1> QED
    BY <1>2, <1>3, <1>4 DEF Next, DiskStep, ScanStep

-----------------------------------------------------------------------------
(* What has been seen *)

\* No row is of a later scan; what was claimed has been counted; who resumes
\* has taken all leases back.
SeenBound == \A x \in Paths : rows[x].exists => rows[x].seen <= epoch
AttemptsCount ==
    \A d \in Dirs : front[d].state \in {"leased", "completed", "failed"} => front[d].attempt >= 1
NoLease == phase = "resuming" => \A d \in Dirs : front[d].state # "leased"

\* A directory of which nothing has been published yet, because it is claimed
\* for the first time at most.
Fresh(d) ==
    \/ front[d].attempt = 0
    \/ /\ front[d].attempt = 1 /\ front[d].state = "leased" /\ phase = "scanning"
       /\ ~(walked[d].done /\ walked[d].reconciled)
FreshUnseen ==
    \A d \in Dirs, x \in Paths :
      (Fresh(d) /\ rows[x].exists /\ DirOf[rows[x].path] = d) => rows[x].seen < epoch

\* Of a path that has not changed the reports tell what is there, and where
\* nothing is, nothing has been seen.
NeverThere ==
    \A p \in steady :
      /\ walked[DirOf[p]].done => walked[DirOf[p]].files[p] \in {NoFile, at[p]}
      /\ at[p] = NoFile => \A x \in Paths : (rows[x].exists /\ rows[x].path = p) => rows[x].seen < epoch

SeenInv == SeenBound /\ AttemptsCount /\ NoLease /\ FreshUnseen /\ NeverThere

\* What a step of a scan makes of a directory's place in the frontier,
LEMMA FrontStep ==
    ASSUME ScanTypes, ScanStep, NEW e \in Dirs
    PROVE  \/ front'[e] = front[e]
           \/ /\ front'[e].state \in {"pending", "failed"}
              /\ front'[e].attempt = front[e].attempt /\ front'[e].mtime = front[e].mtime
              /\ front'[e].state = "failed" => front[e].state = "leased"
           \/ front'[e] = Lease(front[e]) /\ front[e].state = "pending"
           \/ /\ CompleteDirectory(e) /\ front'[e].state = "completed"
              /\ front'[e].attempt = front[e].attempt /\ front'[e].mtime = walked[e].mtime
  <1>0. front \in [Dirs -> Entry] /\ front[e] \in Entry
    BY DEF ScanTypes, FrontTypes
  <1>1. \A s \in FrontState : /\ [front[e] EXCEPT !.state = s].state = s
                              /\ [front[e] EXCEPT !.state = s].attempt = front[e].attempt
                              /\ [front[e] EXCEPT !.state = s].mtime = front[e].mtime
    BY <1>0, EntryFacts
  <1>2. "pending" \in FrontState /\ "failed" \in FrontState
    BY DEF FrontState
  <1>3. CASE ResumeEpoch
    BY <1>0, <1>1, <1>2, <1>3 DEF ResumeEpoch
  <1>4. CASE RequeueChangedDirectories
    BY <1>0, <1>1, <1>2, <1>4 DEF RequeueChangedDirectories, Requeue
  <1>5. ASSUME NEW ds \in SUBSET Dirs, ClaimDirectories(ds)
        PROVE  front'[e] = front[e] \/ (front'[e] = Lease(front[e]) /\ front[e].state = "pending")
    BY <1>5 DEF ClaimDirectories, Pending
  <1>6. ASSUME NEW d \in Dirs, FailDirectory(d)
        PROVE  \/ front'[e] = front[e]
               \/ /\ front'[e].state = "failed" /\ front[e].state = "leased"
                  /\ front'[e].attempt = front[e].attempt /\ front'[e].mtime = front[e].mtime
    <2>1. \/ front'[e] = front[e]
          \/ front'[e] = [front[e] EXCEPT !.state = "failed"] /\ front[e].state = "leased"
      BY <1>0, <1>6 DEF FailDirectory, Leased
    <2> QED
      BY <1>1, <1>2, <2>1
  <1>7. ASSUME NEW d \in Dirs, CompleteDirectory(d)
        PROVE  \/ front'[e] = front[e]
               \/ e = d /\ front'[e] = [state |-> "completed", attempt |-> front[e].attempt,
                                       mtime |-> walked[e].mtime]
    BY <1>0, <1>7 DEF CompleteDirectory
  <1>8. ASSUME NEW d \in Dirs, NEW c \in Dirs, PublishChild(d, c)
        PROVE  \/ front'[e] = front[e]
               \/ /\ front'[e].state = "pending"
                  /\ front'[e].attempt = front[e].attempt /\ front'[e].mtime = front[e].mtime
    <2>1. \/ front'[e] = front[e]
          \/ front'[e] = [front[e] EXCEPT !.state = "pending"]
      BY <1>0, <1>8 DEF PublishChild
    <2> QED
      BY <1>1, <1>2, <2>1
  <1>9. CASE \/ \E d \in Dirs : \/ Walk(d)
                                \/ \E p \in Paths : TouchFile(d, p) \/ ObserveFile(d, p) \/ RefuseFile(d, p)
             \/ FinishEpoch \/ Interrupt
    BY <1>9 DEF Walk, TouchFile, ObserveFile, RefuseFile, FinishEpoch, Interrupt, frontier
  <1>10. CASE \E d \in Dirs : FailDirectory(d)
    BY <1>6, <1>10
  <1>11. CASE \E d \in Dirs : CompleteDirectory(d)
    BY <1>7, <1>11
  <1>12. CASE \E d, c \in Dirs : PublishChild(d, c)
    BY <1>8, <1>12
  <1> QED
    BY <1>3, <1>4, <1>5, <1>9, <1>10, <1>11, <1>12 DEF ScanStep

\* of the process,
LEMMA PhaseStep ==
    ASSUME ScanStep
    PROVE  /\ phase' = "resuming" => ResumeEpoch
           /\ phase' = "scanning" => phase \in {"scanning", "resuming"}
  BY DEF ScanStep, ResumeEpoch, RequeueChangedDirectories, ClaimDirectories, Walk,
         FailDirectory, CompleteDirectory, TouchFile, ObserveFile, RefuseFile, PublishChild,
         FinishEpoch, Interrupt, LoadInventory, Closed, Publishing, process

\* and of a report: it is lost, or published to its end, or in part, or left alone.
LEMMA ReportStep ==
    ASSUME ScanTypes, ScanStep, NEW e \in Dirs, walked[e].done
    PROVE  \/ phase' = "closed" /\ ~walked'[e].done /\ front' = front
           \/ CompleteDirectory(e) /\ ~walked'[e].done
           \/ walked'[e] = walked[e]
           \/ /\ Publishing(e) /\ walked'[e].done /\ walked'[e].reconciled
              /\ \/ rows' = Marks(e) /\ walked'[e].files = walked[e].files
                 \/ \E q, x \in Paths :
                      /\ Writes(e, q, x) /\ walked'[e].files[q] = NoFile
                      /\ \A r \in Paths \ {q} : walked'[e].files[r] = walked[e].files[r]
  <1>0. walked \in [Dirs -> Walked \cup {NotWalked}] /\ phase = "scanning" /\ ~NotWalked.done
    BY DEF ScanTypes, WalkTypes, NotWalked
  <1>1. ASSUME NEW d \in Dirs, NEW p \in Paths, TouchFile(d, p) \/ ObserveFile(d, p)
        PROVE  \/ walked'[e] = walked[e]
               \/ /\ Publishing(e) /\ walked'[e].done /\ walked'[e].reconciled
                  /\ \E q, x \in Paths :
                       /\ Writes(e, q, x) /\ walked'[e].files[q] = NoFile
                       /\ \A r \in Paths \ {q} : walked'[e].files[r] = walked[e].files[r]
    <2>1. PICK x \in Paths : Writes(d, p, x)
      BY <1>1, TouchWrites, ObserveWrites
    <2>2. Publishing(d) /\ Published(d, p)
      BY <2>1 DEF Writes
    <2>3. CASE e = d
      BY <2>1, <2>2, <2>3, PublishedFacts
    <2>4. CASE e # d
      BY <2>2, <2>4, PublishedFacts
    <2> QED
      BY <2>3, <2>4
  <1>2. ASSUME NEW d \in Dirs, NEW c \in Dirs, PublishChild(d, c)
        PROVE  \/ walked'[e] = walked[e]
               \/ /\ Publishing(e) /\ walked'[e].done /\ walked'[e].reconciled
                  /\ rows' = Marks(e) /\ walked'[e].files = walked[e].files
    <2> DEFINE left == Left(walked[d], walked[d].files, walked[d].children \ {c})
    <2>1. Publishing(d) /\ walked' = [walked EXCEPT ![d] = left] /\ rows' = Marks(d)
      BY <1>2 DEF PublishChild
    <2>2. walked[d].children \ {c} \in SUBSET Dirs
      BY <2>1, PublishFacts
    <2>3. left.done /\ left.files = walked[d].files /\ left.reconciled
      BY <2>1, <2>2, PublishFacts, LeftFacts
    <2> HIDE DEF left
    <2> QED
      BY <1>0, <2>1, <2>3
  <1>3. ASSUME NEW d \in Dirs, CompleteDirectory(d)
        PROVE  walked'[e] = walked[e] \/ (CompleteDirectory(e) /\ ~walked'[e].done)
    <2>1. walked' = [walked EXCEPT ![d] = NotWalked]
      BY <1>3 DEF CompleteDirectory
    <2>2. CASE e = d
      BY <1>0, <1>3, <2>1, <2>2
    <2>3. CASE e # d
      BY <1>0, <2>1, <2>3
    <2> QED
      BY <2>2, <2>3
  <1>4. ASSUME NEW d \in Dirs, Walk(d)
        PROVE  walked'[e] = walked[e]
    <2>1. walked' = [walked EXCEPT ![d] = Report(d)] /\ ~walked[d].done
      BY <1>4 DEF Walk, Report
    <2> QED
      BY <1>0, <2>1
  <1>5. CASE Closed /\ front' = front
    BY <1>0, <1>5 DEF Closed
  <1>6. CASE walked' = walked
    BY <1>6
  <1>7. \/ walked' = walked
        \/ Closed /\ front' = front
        \/ \E d \in Dirs : Walk(d) \/ CompleteDirectory(d) \/ \E c \in Dirs : PublishChild(d, c)
        \/ \E d \in Dirs, p \in Paths : TouchFile(d, p) \/ ObserveFile(d, p)
    BY <1>0 DEF ScanStep, ResumeEpoch, RequeueChangedDirectories, ClaimDirectories,
           FailDirectory, RefuseFile, FinishEpoch, Interrupt, process, frontier
  <1> QED
    BY <1>1, <1>2, <1>3, <1>4, <1>5, <1>6, <1>7

\* The file system touches no path that is steady, and dates what it changes.
LEMMA DiskLeaves ==
    ASSUME ScanTypes, DiskStep \/ UNCHANGED vars
    PROVE  /\ UNCHANGED <<frontier, rows, process>>
           /\ steady' \subseteq steady /\ current' \subseteq current
           /\ tidy' => tidy
           /\ \A p \in Paths : life[p] = "moved" => life'[p] = "moved"
           /\ \A p \in steady' \cup current' : at'[p] = at[p]
           /\ \A p \in current : (p \in steady' \/ mtime'[DirOf[p]] # changes + 1) => p \in current'
           /\ changes' \in {changes, changes + 1}
           /\ \A d \in Dirs : mtime'[d] = mtime[d]
                             \/ (mtime'[d] = changes + 1 /\ changes' = changes + 1)
  <1>0. /\ at \in [Paths -> Inodes \cup {NoFile}] /\ steady \subseteq Paths /\ current \subseteq Paths
        /\ life \in [Paths -> {"virgin", "plain", "moved"}] /\ tidy \in BOOLEAN
    BY DEF ScanTypes, DiskTypes
  <1> DEFINE Leaves(ps) ==
               /\ UNCHANGED <<frontier, rows, process>>
               /\ steady' \subseteq steady /\ current' \subseteq current
               /\ (steady' \cup current') \cap ps = {}
               /\ \A p \in current : (p \in steady' \/ mtime'[DirOf[p]] # changes + 1) => p \in current'
               /\ changes' \in {changes, changes + 1}
               /\ \A d \in Dirs : mtime'[d] = mtime[d]
                                 \/ (mtime'[d] = changes + 1 /\ changes' = changes + 1)
  <1>1. ASSUME NEW ds, NEW ps, Change(ds, ps), \A p \in ps : DirOf[p] \in ds /\ DirOf[p] \in Dirs
        PROVE  Leaves(ps)
    <2>1. /\ changes' = changes + 1 /\ steady' = steady \ ps /\ current' = current \ ps
          /\ mtime' = [d \in Dirs |-> IF d \in ds THEN changes + 1 ELSE mtime[d]]
          /\ UNCHANGED <<frontier, rows, process>>
      BY <1>1 DEF Change
    <2>2. \A p \in ps : mtime'[DirOf[p]] = changes + 1
      BY <1>1, <2>1
    <2> QED
      BY <2>1, <2>2
  <1> HIDE DEF Leaves
  <1>2. ASSUME NEW p \in Paths, Create(p) \/ Delete(p)
        PROVE  /\ Leaves({p}) /\ (tidy' => tidy)
               /\ \A q \in Paths : life[q] = "moved" => life'[q] = "moved"
               /\ \A q \in Paths \ {p} : at'[q] = at[q]
    <2>1. Change({DirOf[p]}, {p})
      BY <1>2 DEF Create, Delete
    <2>2. Leaves({p})
      BY <1>1, <2>1
    <2> QED
      BY <1>0, <1>2, <2>2 DEF Create, Delete
  <1>3. ASSUME NEW p \in Paths, NEW q \in Paths, Move(p, q)
        PROVE  /\ Leaves({p, q}) /\ (tidy' => tidy)
               /\ \A r \in Paths : life[r] = "moved" => life'[r] = "moved"
               /\ \A r \in Paths \ {p, q} : at'[r] = at[r]
    <2>1. Change({DirOf[p], DirOf[q]}, {p, q})
      BY <1>3 DEF Move
    <2>2. Leaves({p, q})
      BY <1>1, <2>1
    <2> QED
      BY <1>0, <1>3, <2>2 DEF Move
  <1>4. ASSUME NEW d \in Dirs \ {Root}, MakeDir(d) \/ RemoveDir(d)
        PROVE  /\ Leaves({}) /\ (tidy' => tidy)
               /\ \A r \in Paths : life[r] = "moved" => life'[r] = "moved"
               /\ at' = at
    <2>1. Change({d, Parent[d]}, {}) \/ Change({Parent[d]}, {})
      BY <1>4 DEF MakeDir, RemoveDir
    <2>2. Leaves({})
      BY <1>1, <2>1
    <2> QED
      BY <1>4, <2>2 DEF MakeDir, RemoveDir
  <1>5. CASE UNCHANGED vars
    <2>1. UNCHANGED <<frontier, rows, process>>
      BY <1>5 DEF vars
    <2>2. /\ steady' = steady /\ current' = current /\ tidy' = tidy /\ life' = life
          /\ at' = at /\ changes' = changes /\ mtime' = mtime
      BY <1>5 DEF vars, disk, history
    <2>3. /\ steady' \subseteq steady /\ current' \subseteq current
          /\ tidy' => tidy
      BY <2>2
    <2>4. /\ \A p \in Paths : life[p] = "moved" => life'[p] = "moved"
          /\ \A p \in steady' \cup current' : at'[p] = at[p]
      BY <2>2
    <2>5. \A p \in current : (p \in steady' \/ mtime'[DirOf[p]] # changes + 1) => p \in current'
      BY <2>2
    <2>6. /\ changes' \in {changes, changes + 1}
          /\ \A d \in Dirs : mtime'[d] = mtime[d]
      BY <2>2
    <2> QED
      BY <2>1, <2>3, <2>4, <2>5, <2>6
  <1>6. CASE \E p \in Paths : Create(p) \/ Delete(p)
    BY <1>0, <1>2, <1>6 DEF Leaves
  <1>7. CASE \E p, q \in Paths : Move(p, q)
    BY <1>0, <1>3, <1>7 DEF Leaves
  <1>8. CASE \E d \in Dirs \ {Root} : MakeDir(d) \/ RemoveDir(d)
    BY <1>4, <1>8 DEF Leaves
  <1> QED
    BY <1>5, <1>6, <1>7, <1>8 DEF DiskStep

\* A directory of which nothing has been published was one before.
LEMMA FreshBefore ==
    ASSUME ScanTypes, SeenInv, ScanStep, NEW d \in Dirs, Fresh(d)'
    PROVE  Fresh(d) /\ ~\E p, x \in Paths : Writes(d, p, x)
  <1>0. front[d] \in Entry /\ front[d].attempt \in 0..2
    BY EntryFacts DEF ScanTypes, FrontTypes, Entry
  <1>1. \/ front'[d].attempt = 0
        \/ /\ front'[d].attempt = 1 /\ front'[d].state = "leased" /\ phase' = "scanning"
           /\ ~(walked'[d].done /\ walked'[d].reconciled)
    BY DEF Fresh
  <1>2. Fresh(d)
    <2>1. CASE front'[d] = front[d] /\ front[d].attempt # 0
      <3>1. front[d].attempt = 1 /\ front[d].state = "leased" /\ phase' = "scanning"
            /\ ~(walked'[d].done /\ walked'[d].reconciled)
        BY <1>1, <2>1
      <3>2. phase = "scanning"
        BY <3>1, PhaseStep DEF SeenInv, NoLease
      <3>3. ASSUME walked[d].done, walked[d].reconciled
            PROVE  FALSE
        <4>1. ~CompleteDirectory(d)
          <5>1. front \in [Dirs -> Entry]
            BY DEF ScanTypes, FrontTypes
          <5> QED
            BY <2>1, <3>1, <5>1 DEF CompleteDirectory
        <4> QED
          BY <3>1, <3>3, <4>1, ReportStep
      <3> QED
        BY <3>1, <3>2, <3>3 DEF Fresh
    <2>2. CASE front'[d].state \in {"pending", "failed"} /\ front'[d].attempt = front[d].attempt
      BY <1>1, <2>2 DEF Fresh
    <2>3. CASE front'[d] = Lease(front[d])
      BY <1>0, <1>1, <2>3 DEF Fresh, Lease
    <2>4. CASE CompleteDirectory(d) /\ front'[d].state = "completed"
               /\ front'[d].attempt = front[d].attempt
      BY <1>1, <2>4 DEF Fresh
    <2> QED
      BY <2>1, <2>2, <2>3, <2>4, FrontStep DEF Fresh
  <1>3. ASSUME NEW p \in Paths, NEW x \in Paths, Writes(d, p, x)
        PROVE  FALSE
    <2>1. Publishing(d) /\ Published(d, p) /\ front' = front
      BY <1>3 DEF Writes, frontier
    <2>2. front[d].state = "leased" /\ walked'[d].done /\ walked'[d].reconciled
      BY <2>1, PublishFacts, PublishedFacts
    <2>3. front[d].attempt >= 1
      BY <2>2 DEF SeenInv, AttemptsCount
    <2> QED
      BY <1>0, <1>1, <2>1, <2>2, <2>3
  <1> QED
    BY <1>2, <1>3

\* Every step keeps what was seen apart from what was not.
LEMMA SeenInvScan ==
    ASSUME ScanTypes, SeenInv, ScanStep
    PROVE  SeenInv'
  <1>0. /\ epoch' = epoch /\ at' = at /\ steady' = steady /\ steady \subseteq Paths
        /\ epoch \in 0..MaxEpochs /\ front \in [Dirs -> Entry] /\ rows \in [Paths -> Rows]
    BY ScanStepKeeps DEF Keeps, Steady, ScanTypes, DiskTypes, FrontTypes, RowTypes
  <1>1. \A x \in Paths : rows[x].exists => rows[x].path \in Paths /\ rows[x].seen \in 0..MaxEpochs
    BY <1>0, RowFacts
  <1>2. \A x \in Paths : \/ Kin(rows[x], rows'[x])
                         \/ \E d \in Dirs, p \in Paths : Writes(d, p, x)
    BY RowsStep
  <1>3. \A x \in Paths : rows'[x].exists => rows'[x].seen \in Nat
    <2>1. ScanTypes'
      BY ScanTypesStep DEF ScanStep, Next
    <2>2. \A x \in Paths : rows'[x] \in Rows
      BY <2>1 DEF ScanTypes, RowTypes
    <2>3. \A x \in Paths : rows'[x].exists => rows'[x].seen \in 0..MaxEpochs
      BY <2>2, RowFacts
    <2> QED
      BY <2>3
  <1>4. SeenBound'
    <2>1. ASSUME NEW x \in Paths, rows'[x].exists
          PROVE  rows'[x].seen <= epoch
      <3>1. CASE Kin(rows[x], rows'[x])
        <4>1. rows[x].exists /\ rows'[x].seen <= rows[x].seen /\ rows[x].seen <= epoch
          BY <2>1, <3>1 DEF Kin, SeenInv, SeenBound
        <4> QED
          BY <1>0, <1>1, <1>3, <2>1, <4>1
      <3>2. CASE \E d \in Dirs, p \in Paths : Writes(d, p, x)
        BY <1>0, <3>2 DEF Writes
      <3> QED
        BY <1>2, <3>1, <3>2
    <2> QED
      BY <1>0, <2>1 DEF SeenBound
  <1>5. AttemptsCount'
    <2> SUFFICES ASSUME NEW d \in Dirs, front'[d].state \in {"leased", "completed", "failed"}
                 PROVE  front'[d].attempt >= 1
      BY DEF AttemptsCount
    <2>2. front[d] \in Entry /\ front[d].attempt \in 0..2
      BY <1>0 DEF Entry
    <2>3. front[d].state \in {"leased", "completed", "failed"} => front[d].attempt >= 1
      BY DEF SeenInv, AttemptsCount
    <2>4. Lease(front[d]).attempt >= 1
      BY <2>2 DEF Lease
    <2>5. CompleteDirectory(d) => front[d].state = "leased"
      BY PublishFacts DEF CompleteDirectory
    <2> QED
      BY <2>2, <2>3, <2>4, <2>5, FrontStep
  <1>6. NoLease'
    <2>1. ASSUME ResumeEpoch, NEW d \in Dirs
          PROVE  front'[d].state # "leased"
      <3>1. front[d] \in Entry /\ "pending" \in FrontState
        BY <1>0 DEF FrontState
      <3> QED
        BY <2>1, <3>1, EntryFacts DEF ResumeEpoch
    <2> QED
      BY <2>1, PhaseStep DEF NoLease
  <1>7. FreshUnseen'
    <2>1. ASSUME NEW d \in Dirs, NEW x \in Paths, Fresh(d)', rows'[x].exists, DirOf[rows'[x].path] = d
          PROVE  rows'[x].seen < epoch
      <3>1. Fresh(d) /\ ~\E p, y \in Paths : Writes(d, p, y)
        BY <2>1, FreshBefore
      <3>2. \A e \in Dirs, p \in Paths : Writes(e, p, x) => e = d
        <4>1. \A e \in Dirs, p \in Paths : Writes(e, p, x) => DirOf[p] = e /\ rows'[x].path = p
          BY PublishFacts DEF Writes
        <4> QED
          BY <2>1, <4>1
      <3>3. Kin(rows[x], rows'[x])
        BY <1>2, <3>1, <3>2
      <3>4. rows[x].exists /\ rows'[x].seen <= rows[x].seen /\ rows[x].seen < epoch
        BY <2>1, <3>1, <3>3 DEF Kin, SeenInv, FreshUnseen
      <3> QED
        BY <1>0, <1>1, <1>3, <2>1, <3>4
    <2> QED
      BY <1>0, <2>1 DEF FreshUnseen
  <1>8. NeverThere'
    <2>1. ASSUME NEW p \in steady, walked'[DirOf[p]].done
          PROVE  walked'[DirOf[p]].files[p] \in {NoFile, at[p]}
      <3>1. DirOf[p] \in Dirs /\ p \in Paths
        BY <1>0
      <3>2. walked'[DirOf[p]] = Report(DirOf[p]) => walked'[DirOf[p]].files[p] = at[p]
        BY <3>1, ReportFacts
      <3>3. walked[DirOf[p]].done => walked[DirOf[p]].files[p] \in {NoFile, at[p]}
        BY DEF SeenInv, NeverThere
      <3> QED
        BY <2>1, <3>1, <3>2, <3>3, WalkedStep
    <2>2. ASSUME NEW p \in steady, at[p] = NoFile, NEW x \in Paths, rows'[x].exists, rows'[x].path = p
          PROVE  rows'[x].seen < epoch
      <3>1. ASSUME NEW d \in Dirs, NEW q \in Paths, Writes(d, q, x)
            PROVE  FALSE
        <4>1. /\ q = p /\ DirOf[p] = d /\ walked[d].done /\ walked[d].files[p] # NoFile
          BY <2>2, <3>1, PublishFacts DEF Writes, Publishing
        <4> QED
          BY <2>2, <4>1 DEF SeenInv, NeverThere
      <3>2. Kin(rows[x], rows'[x])
        BY <1>2, <3>1
      <3>3. rows[x].exists /\ rows'[x].seen <= rows[x].seen /\ rows[x].seen < epoch
        BY <2>2, <3>2 DEF Kin, SeenInv, NeverThere
      <3> QED
        BY <1>0, <1>1, <1>3, <2>2, <3>3
    <2> QED
      BY <1>0, <2>1, <2>2 DEF NeverThere
  <1> QED
    BY <1>4, <1>5, <1>6, <1>7, <1>8 DEF SeenInv

\* A scan that begins is later than every row, and the file system sees none.
LEMMA SeenInvStep == ScanTypes /\ SeenInv /\ [Next]_vars => SeenInv'
  <1> SUFFICES ASSUME ScanTypes, SeenInv, [Next]_vars PROVE SeenInv'
    OBVIOUS
  <1>1. CASE ScanStep
    BY <1>1, SeenInvScan
  <1>2. CASE BeginEpoch
    <2>1. /\ epoch \in 0..MaxEpochs /\ epoch' = epoch + 1 /\ rows' = rows /\ phase' = "scanning"
          /\ front' = [d \in Dirs |-> IF d = Root THEN [NoEntry EXCEPT !.state = "pending"]
                                                  ELSE NoEntry]
          /\ walked' = [d \in Dirs |-> NotWalked] /\ steady' = Paths
          /\ rows \in [Paths -> Rows]
      BY <1>2 DEF BeginEpoch, LoadInventory, ScanTypes, FrontTypes, RowTypes
    <2>2. \A x \in Paths : rows[x].exists => rows[x].seen \in 0..MaxEpochs /\ rows[x].seen <= epoch
      BY <2>1, RowFacts DEF SeenInv, SeenBound
    <2>3. \A x \in Paths : rows'[x].exists => rows'[x].seen < epoch' /\ rows'[x].seen <= epoch'
      BY <2>1, <2>2
    <2>4. \A d \in Dirs : front'[d].state \in {"none", "pending"} /\ ~walked'[d].done
      BY <2>1 DEF NoEntry, NotWalked
    <2>5. SeenBound' /\ AttemptsCount' /\ NoLease' /\ FreshUnseen'
      BY <2>1, <2>3, <2>4 DEF SeenBound, AttemptsCount, NoLease, FreshUnseen
    <2>6. NeverThere'
      BY <2>1, <2>3, <2>4 DEF NeverThere
    <2> QED
      BY <2>5, <2>6 DEF SeenInv
  <1>3. CASE DiskStep \/ UNCHANGED vars
    <2>1. /\ epoch' = epoch /\ rows' = rows /\ phase' = phase /\ front' = front /\ walked' = walked
          /\ steady' \subseteq steady /\ \A p \in steady' : at'[p] = at[p]
      BY <1>3, DiskLeaves DEF frontier, process
    <2>2. SeenBound' /\ AttemptsCount' /\ NoLease'
      BY <2>1 DEF SeenInv, SeenBound, AttemptsCount, NoLease
    <2>3. FreshUnseen'
      BY <2>1 DEF SeenInv, FreshUnseen, Fresh
    <2>4. NeverThere'
      BY <2>1 DEF SeenInv, NeverThere
    <2> QED
      BY <2>2, <2>3, <2>4 DEF SeenInv
  <1> QED
    BY <1>1, <1>2, <1>3 DEF Next, DiskStep, ScanStep, Rest

\* At first there are no rows.
LEMMA SeenInvInit == Init => SeenInv
  <1> SUFFICES ASSUME Init PROVE SeenInv
    OBVIOUS
  <1>1. /\ \A x \in Paths : ~rows[x].exists
        /\ \A d \in Dirs : front[d].state = "none"
        /\ phase = "closed" /\ steady = {}
    BY DEF Init, NoRow, NoEntry
  <1> QED
    BY <1>1 DEF SeenInv, SeenBound, AttemptsCount, NoLease, FreshUnseen, NeverThere

-----------------------------------------------------------------------------
(* What has not changed since it was looked at *)

\* Revisions are of the past; what is current is in the frontier; and it is
\* what a completed or a walked directory holds that still has its revision, or
\* that has not changed during the scan.
TimesPast ==
    \A d \in Dirs : /\ mtime[d] <= changes /\ front[d].mtime <= changes
                    /\ (walked[d].done => walked[d].mtime <= changes)
LookedAt == \A p \in current : front[DirOf[p]].state # "none"
StillCurrent ==
    \A p \in Paths :
      /\ (front[DirOf[p]].state = "completed" /\ front[DirOf[p]].mtime = mtime[DirOf[p]])
           => p \in current
      /\ (walked[DirOf[p]].done /\ walked[DirOf[p]].mtime = mtime[DirOf[p]]) => p \in current
      /\ (p \in steady /\ (front[DirOf[p]].state = "completed" \/ walked[DirOf[p]].done))
           => p \in current

CurrentInv == TimesPast /\ LookedAt /\ StillCurrent

\* Looking is walking, or checking the revision of a directory that is completed.
LEMMA CurrentStep ==
    ASSUME ScanTypes, ScanStep
    PROVE  /\ current \subseteq current' /\ current' \subseteq Paths /\ steady' = steady
           /\ \A d \in Dirs : Walk(d) => \A p \in Paths : DirOf[p] = d => p \in current'
           /\ \A p \in current' \ current :
                \/ Walk(DirOf[p])
                \/ RequeueChangedDirectories /\ front[DirOf[p]].state = "completed"
  <1>1. current \subseteq Paths /\ steady' = steady
    BY ScanStepKeeps DEF ScanTypes, DiskTypes, Keeps, Steady
  <1>2. \A d \in Dirs : Walk(d) => \A p \in Paths : DirOf[p] = d => p \in current'
    BY DEF Walk
  <1>3. \/ current' = current \/ RequeueChangedDirectories
        \/ \E d \in Dirs : Walk(d)
    BY DEF ScanStep, ResumeEpoch, ClaimDirectories, FailDirectory, CompleteDirectory, TouchFile,
           ObserveFile, RefuseFile, PublishChild, FinishEpoch, Interrupt, history
  <1>4. CASE RequeueChangedDirectories
    BY <1>1, <1>2, <1>4 DEF RequeueChangedDirectories
  <1>5. ASSUME NEW d \in Dirs, Walk(d)
        PROVE  /\ current \subseteq current' /\ current' \subseteq Paths
               /\ \A p \in current' \ current : Walk(DirOf[p])
    <2>1. current' = current \cup {p \in Paths : DirOf[p] = d}
      BY <1>5 DEF Walk
    <2> QED
      BY <1>1, <1>5, <2>1
  <1> QED
    BY <1>1, <1>2, <1>3, <1>4, <1>5

\* A scan dates what it completes by its walk.
LEMMA CurrentInvScan ==
    ASSUME ScanTypes, CurrentInv, ScanStep
    PROVE  CurrentInv'
  <1>0. /\ mtime' = mtime /\ changes' = changes /\ steady' = steady
        /\ changes \in Nat /\ mtime \in [Dirs -> 0..MaxChanges]
        /\ current \subseteq current' /\ current' \subseteq Paths
        /\ \A p \in Paths : DirOf[p] \in Dirs
    BY ScanKeepsDisk, CurrentStep DEF disk, ScanTypes, DiskTypes
  <1>1. ASSUME NEW e \in Dirs
        PROVE  /\ front'[e].mtime \in {front[e].mtime, walked[e].mtime}
               /\ front'[e].mtime # front[e].mtime => walked[e].done
               /\ front'[e].state = "none" => front[e].state = "none"
               /\ front'[e].state = "completed" =>
                    \/ front[e].state = "completed" /\ front'[e].mtime = front[e].mtime
                    \/ walked[e].done /\ front'[e].mtime = walked[e].mtime
    <2>1. CompleteDirectory(e) => walked[e].done
      BY DEF CompleteDirectory, Publishing
    <2>2. Lease(front[e]).mtime = front[e].mtime /\ Lease(front[e]).state = "leased"
      BY DEF Lease
    <2> QED
      BY <2>1, <2>2, FrontStep
  <1>2. ASSUME NEW e \in Dirs, walked'[e].done
        PROVE  \/ Walk(e) /\ walked'[e].mtime = mtime[e]
               \/ walked[e].done /\ walked'[e].mtime = walked[e].mtime
    <2>1. Report(e).mtime = mtime[e]
      BY DEF Report
    <2> QED
      BY <1>2, <2>1, WalkedStep
  <1>3. TimesPast'
    <2>1. \A d \in Dirs : /\ mtime[d] <= changes /\ front[d].mtime <= changes
                          /\ (walked[d].done => walked[d].mtime <= changes)
      BY DEF CurrentInv, TimesPast
    <2>2. ASSUME NEW d \in Dirs
          PROVE  /\ front'[d].mtime <= changes
                 /\ (walked'[d].done => walked'[d].mtime <= changes)
      <3>1. front'[d].mtime <= changes
        BY <1>1, <2>1
      <3>2. walked'[d].done => walked'[d].mtime <= changes
        BY <1>2, <2>1
      <3> QED
        BY <3>1, <3>2
    <2> QED
      BY <1>0, <2>1, <2>2 DEF TimesPast
  <1>4. LookedAt'
    <2>1. ASSUME NEW p \in current'
          PROVE  front'[DirOf[p]].state # "none"
      <3>1. front[DirOf[p]].state # "none"
        <4>1. CASE p \in current
          BY <4>1 DEF CurrentInv, LookedAt
        <4>2. CASE p \notin current
          BY <2>1, <4>2, CurrentStep DEF Walk, Leased
        <4> QED
          BY <4>1, <4>2
      <3> QED
        BY <1>0, <1>1, <2>1, <3>1
    <2> QED
      BY <2>1 DEF LookedAt
  <1>5. ASSUME NEW p \in Paths
        PROVE  /\ (front'[DirOf[p]].state = "completed" /\ front'[DirOf[p]].mtime = mtime'[DirOf[p]])
                    => p \in current'
               /\ (walked'[DirOf[p]].done /\ walked'[DirOf[p]].mtime = mtime'[DirOf[p]])
                    => p \in current'
               /\ (p \in steady' /\ (front'[DirOf[p]].state = "completed" \/ walked'[DirOf[p]].done))
                    => p \in current'
    <2>1. /\ (front[DirOf[p]].state = "completed" /\ front[DirOf[p]].mtime = mtime[DirOf[p]])
               => p \in current
          /\ (walked[DirOf[p]].done /\ walked[DirOf[p]].mtime = mtime[DirOf[p]]) => p \in current
          /\ (p \in steady /\ (front[DirOf[p]].state = "completed" \/ walked[DirOf[p]].done))
               => p \in current
      BY DEF CurrentInv, StillCurrent
    <2>2. DirOf[p] \in Dirs /\ (Walk(DirOf[p]) => p \in current')
      BY <1>0, CurrentStep
    <2> QED
      BY <1>0, <1>1, <1>2, <2>1, <2>2
  <1>6. StillCurrent'
    BY <1>5 DEF StillCurrent
  <1> QED
    BY <1>3, <1>4, <1>6 DEF CurrentInv

\* A change of the file system gives the directories it touches a revision
\* that no walk has seen.
LEMMA CurrentInvStep == ScanTypes /\ CurrentInv /\ [Next]_vars => CurrentInv'
  <1> SUFFICES ASSUME ScanTypes, CurrentInv, [Next]_vars PROVE CurrentInv'
    OBVIOUS
  <1>0. /\ changes \in Nat /\ mtime \in [Dirs -> 0..MaxChanges] /\ front \in [Dirs -> Entry]
        /\ walked \in [Dirs -> Walked \cup {NotWalked}]
        /\ \A p \in Paths : DirOf[p] \in Dirs
    BY DEF ScanTypes, DiskTypes, FrontTypes, WalkTypes
  <1>1. \A d \in Dirs : /\ mtime[d] <= changes /\ front[d].mtime <= changes
                        /\ (walked[d].done => walked[d].mtime <= changes)
    BY DEF CurrentInv, TimesPast
  <1>2. CASE ScanStep
    BY <1>2, CurrentInvScan
  <1>3. CASE BeginEpoch
    <2>1. /\ front' = [d \in Dirs |-> IF d = Root THEN [NoEntry EXCEPT !.state = "pending"]
                                                  ELSE NoEntry]
          /\ walked' = [d \in Dirs |-> NotWalked] /\ current' = {}
          /\ mtime' = mtime /\ changes' = changes
      BY <1>3, ScanKeepsDisk DEF BeginEpoch, LoadInventory, disk
    <2>2. \A d \in Dirs : /\ front'[d].state # "completed" /\ front'[d].mtime = -1
                          /\ ~walked'[d].done
      BY <2>1 DEF NoEntry, NotWalked
    <2>3. TimesPast'
      BY <1>0, <1>1, <2>1, <2>2 DEF TimesPast
    <2> QED
      BY <1>0, <2>1, <2>2, <2>3 DEF CurrentInv, LookedAt, StillCurrent
  <1>4. CASE DiskStep \/ UNCHANGED vars
    <2>1. /\ front' = front /\ walked' = walked /\ changes' \in {changes, changes + 1}
          /\ steady' \subseteq steady /\ current' \subseteq current
          /\ \A p \in current : (p \in steady' \/ mtime'[DirOf[p]] # changes + 1) => p \in current'
          /\ \A d \in Dirs : mtime'[d] = mtime[d]
                            \/ (mtime'[d] = changes + 1 /\ changes' = changes + 1)
      BY <1>4, DiskLeaves DEF frontier, process
    <2>2. TimesPast'
      <3>1. ASSUME NEW d \in Dirs
            PROVE  /\ mtime'[d] <= changes' /\ front[d].mtime <= changes'
                   /\ (walked[d].done => walked[d].mtime <= changes')
        <4>1. mtime[d] \in Int /\ front[d].mtime \in Int /\ (walked[d].done => walked[d].mtime \in Int)
          <5>1. front[d].mtime \in -1..MaxChanges
            BY <1>0 DEF Entry
          <5>2. walked[d].done => walked[d].mtime \in 0..MaxChanges
            BY <1>0, WalkFacts
          <5> QED
            BY <1>0, <5>1, <5>2
        <4> QED
          BY <1>0, <1>1, <2>1, <4>1
      <3> QED
        BY <2>1, <3>1 DEF TimesPast
    <2>3. LookedAt'
      BY <2>1 DEF CurrentInv, LookedAt
    <2>4. StillCurrent'
      <3>1. ASSUME NEW p \in Paths, NEW m, m = mtime'[DirOf[p]], m <= changes
            PROVE  mtime[DirOf[p]] = m /\ m # changes + 1
        BY <1>0, <2>1, <3>1
      <3>2. ASSUME NEW p \in Paths,
                   \/ /\ front[DirOf[p]].state = "completed"
                      /\ front[DirOf[p]].mtime = mtime'[DirOf[p]]
                   \/ walked[DirOf[p]].done /\ walked[DirOf[p]].mtime = mtime'[DirOf[p]]
                   \/ /\ p \in steady'
                      /\ front[DirOf[p]].state = "completed" \/ walked[DirOf[p]].done
            PROVE  p \in current'
        <4>1. CASE p \in steady' /\ (front[DirOf[p]].state = "completed" \/ walked[DirOf[p]].done)
          BY <2>1, <4>1 DEF CurrentInv, StillCurrent
        <4>2. CASE mtime'[DirOf[p]] <= changes /\ p \in current
          BY <2>1, <3>1, <4>2
        <4>3. CASE front[DirOf[p]].state = "completed" /\ front[DirOf[p]].mtime = mtime'[DirOf[p]]
          <5>1. mtime'[DirOf[p]] <= changes
            BY <1>0, <1>1, <4>3
          <5>2. mtime[DirOf[p]] = mtime'[DirOf[p]]
            BY <3>1, <5>1
          <5> QED
            BY <4>2, <4>3, <5>1, <5>2 DEF CurrentInv, StillCurrent
        <4>4. CASE walked[DirOf[p]].done /\ walked[DirOf[p]].mtime = mtime'[DirOf[p]]
          <5>1. mtime'[DirOf[p]] <= changes
            BY <1>0, <1>1, <4>4
          <5>2. mtime[DirOf[p]] = mtime'[DirOf[p]]
            BY <3>1, <5>1
          <5> QED
            BY <4>2, <4>4, <5>1, <5>2 DEF CurrentInv, StillCurrent
        <4> QED
          BY <3>2, <4>1, <4>3, <4>4
      <3> QED
        BY <2>1, <3>2 DEF StillCurrent
    <2> QED
      BY <2>2, <2>3, <2>4 DEF CurrentInv
  <1> QED
    BY <1>2, <1>3, <1>4 DEF Next, DiskStep, ScanStep, Rest

\* At first nothing has been looked at.
LEMMA CurrentInvInit == Init => CurrentInv
  <1> SUFFICES ASSUME Init PROVE CurrentInv
    OBVIOUS
  <1>1. /\ \A d \in Dirs : /\ mtime[d] = 0 /\ front[d].mtime = -1 /\ front[d].state = "none"
                           /\ ~walked[d].done
        /\ changes = 0 /\ current = {}
    BY DEF Init, NoEntry, NotWalked
  <1>2. \A p \in Paths : DirOf[p] \in Dirs
    OBVIOUS
  <1> QED
    BY <1>1, <1>2 DEF CurrentInv, TimesPast, LookedAt, StillCurrent

-----------------------------------------------------------------------------
(* The rows are true *)

\* Paths of which the rows will be true at the end of the scan, and their being it.
Sure(p) == (tidy /\ p \in steady) \/ (p \in current /\ life[p] # "moved")
Told(p) ==
    IF at[p] = NoFile
      THEN \A x \in Paths : (rows[x].exists /\ rows[x].path = p) => rows[x].seen < epoch
      ELSE \E x \in Paths : RowOf(x, p) /\ rows[x].inode = at[p] /\ rows[x].seen = epoch

\* The rows are true once the directory is completed, and until then once the
\* path has been published; before that, the report is.
SureIsTold ==
    \A p \in Paths : Sure(p) =>
      /\ front[DirOf[p]].state = "completed" => Told(p)
      /\ walked[DirOf[p]].done =>
           IF walked[DirOf[p]].reconciled /\ walked[DirOf[p]].files[p] = NoFile
             THEN Told(p) ELSE walked[DirOf[p]].files[p] = at[p]

TrueInv == KeptInv /\ KnownInv /\ SeenInv /\ CurrentInv /\ SureIsTold

\* Two paths a file is known at are never both sure of it: publishing one does
\* not take the row of the other.
LEMMA OtherRow ==
    ASSUME ScanTypes, KnownInv, NEW p \in Paths, Sure(p), at[p] # NoFile,
           NEW x \in Paths, RowOf(x, p), rows[x].inode = at[p],
           NEW d \in Dirs, NEW q \in Paths, Writes(d, q, x)
    PROVE  q = p
  <1> SUFFICES ASSUME q # p PROVE FALSE
    OBVIOUS
  <1>1. at[p] \in Inodes
    BY DEF ScanTypes, DiskTypes
  <1>2. /\ walked[d].done /\ walked[d].files[q] # NoFile
        /\ x = q \/ (rows[x].exists /\ rows[x].inode = walked[d].files[q])
    BY DEF Writes, Publishing
  <1>3. Traced(at[p], q)
    BY <1>2 DEF Traced, RowOf
  <1>4. life[p] = "moved"
    BY <1>1, <1>3, KnownFacts
  <1>5. tidy /\ p \in steady
    BY <1>4 DEF Sure
  <1>6. walked[d].files[q] = NoFile
    BY <1>1, <1>2, <1>3, <1>5, KnownFacts
  <1> QED
    BY <1>2, <1>6

\* What the rows tell they go on telling, until the directory is walked again.
LEMMA ToldKept ==
    ASSUME ScanTypes, KnownInv, ScanStep, NEW p \in Paths, Sure(p), Told(p),
           walked[DirOf[p]].done =>
             walked[DirOf[p]].reconciled /\ walked[DirOf[p]].files[p] = NoFile
    PROVE  Told(p)'
  <1>0. /\ at' = at /\ epoch' = epoch /\ epoch \in 0..MaxEpochs /\ DirOf[p] \in Dirs
        /\ RowTypes /\ FrontTypes /\ WalkTypes
    BY ScanStepKeeps DEF Keeps, Steady, ScanTypes, FrontTypes
  <1>1. ASSUME NEW d \in Dirs, NEW x \in Paths, Writes(d, p, x)
        PROVE  FALSE
    <2>1. DirOf[p] = d /\ walked[d].done /\ walked[d].files[p] # NoFile
      BY <1>1, PublishFacts DEF Writes, Publishing
    <2> QED
      BY <2>1
  <1>2. CASE at[p] = NoFile
    <2>1. ASSUME NEW x \in Paths, rows'[x].exists, rows'[x].path = p
          PROVE  rows'[x].seen < epoch
      <3>1. Kin(rows[x], rows'[x])
        <4>1. \A d \in Dirs, q \in Paths : Writes(d, q, x) => q = p
          BY <2>1 DEF Writes
        <4> QED
          BY <1>1, <4>1, RowsStep
      <3>2. rows[x].exists /\ rows'[x].seen <= rows[x].seen /\ rows[x].seen < epoch
        BY <1>2, <2>1, <3>1 DEF Kin, Told
      <3>3. rows[x].seen \in 0..MaxEpochs
        BY <1>0, <3>2, RowFacts DEF RowTypes
      <3>4. rows'[x].seen \in 0..MaxEpochs
        <4>1. ScanTypes'
          BY ScanTypesStep DEF ScanStep, Next
        <4>2. rows'[x] \in Rows
          BY <4>1 DEF ScanTypes, RowTypes
        <4> QED
          BY <2>1, <4>2, RowFacts
      <3> QED
        BY <1>0, <3>2, <3>3, <3>4
    <2> QED
      BY <1>0, <1>2, <2>1 DEF Told
  <1>3. CASE at[p] # NoFile
    <2>1. PICK x \in Paths : RowOf(x, p) /\ rows[x].inode = at[p] /\ rows[x].seen = epoch
      BY <1>3 DEF Told
    <2>2. rows'[x] = rows[x]
      <3>1. CASE rows' = rows
        BY <3>1
      <3>2. CASE rows' = Reconciled
        BY <1>0, <2>1, <3>2 DEF Reconciled
      <3>3. ASSUME NEW d \in Dirs, Publishing(d)
            PROVE  Marks(d)[x] = rows[x]
        <4>1. epoch >= 1 /\ walked[d].done
          BY <3>3, PublishFacts DEF Publishing
        <4>2. rows[x].exists /\ rows[x].path = p /\ (DirOf[p] = d => walked[d].reconciled)
          BY <2>1, <4>1 DEF RowOf
        <4> QED
          BY <1>0, <4>1, <4>2, MarksFacts
      <3>4. ASSUME NEW d \in Dirs, NEW q \in Paths, TouchFile(d, q) \/ ObserveFile(d, q)
            PROVE  rows'[x] = rows[x]
        <4>1. PICK y \in Paths : Writes(d, q, y)
          BY <3>4, TouchWrites, ObserveWrites
        <4>2. q # p
          BY <1>1, <4>1
        <4>3. y # x
          BY <1>3, <2>1, <4>1, <4>2, OtherRow
        <4> QED
          BY <3>3, <4>1, <4>3 DEF Writes
      <3>5. \/ rows' = rows \/ rows' = Reconciled
            \/ \E d \in Dirs : Publishing(d) /\ rows' = Marks(d)
            \/ \E d \in Dirs, q \in Paths : TouchFile(d, q) \/ ObserveFile(d, q)
        BY DEF ScanStep, ResumeEpoch, RequeueChangedDirectories, ClaimDirectories, Walk,
               FailDirectory, CompleteDirectory, RefuseFile, PublishChild, FinishEpoch, Interrupt
      <3> QED
        BY <3>1, <3>2, <3>3, <3>4, <3>5
    <2> QED
      BY <1>0, <1>3, <2>1, <2>2 DEF Told, RowOf
  <1> QED
    BY <1>2, <1>3

\* The first chunk of a report takes back what an earlier attempt has seen.
LEMMA FirstChunk ==
    ASSUME ScanTypes, SeenInv, NEW p \in Paths, at[p] = NoFile, at' = at, epoch' = epoch,
           Publishing(DirOf[p]), ~walked[DirOf[p]].reconciled,
           \A y \in Paths : (rows'[y].exists /\ rows'[y].path = p) => rows'[y] = Marks(DirOf[p])[y]
    PROVE  Told(p)'
  <1> DEFINE d == DirOf[p]
  <1>1. /\ d \in Dirs /\ front[d].state = "leased" /\ front[d].attempt \in 0..2
        /\ phase = "scanning" /\ epoch \in 0..MaxEpochs
    <2>1. d \in Dirs
      OBVIOUS
    <2>2. front[d] \in Entry /\ front[d].state = "leased" /\ phase = "scanning"
          /\ epoch \in 0..MaxEpochs
      BY <2>1, PublishFacts
    <2> QED
      BY <2>1, <2>2, EntryFacts DEF Entry
  <1>2. front[d].attempt >= 1
    BY <1>1 DEF SeenInv, AttemptsCount
  <1>3. ASSUME NEW y \in Paths, rows'[y].exists, rows'[y].path = p
        PROVE  rows'[y].seen < epoch
    <2>1. rows'[y] = Marks(d)[y]
      BY <1>3
    <2>2. Kin(rows[y], Marks(d)[y])
      BY <1>1, MarksKin
    <2>3. /\ rows[y].exists /\ rows[y].path = p /\ rows[y].seen <= epoch
          /\ Marks(d)[y].seen <= rows[y].seen
      BY <1>3, <2>1, <2>2 DEF Kin, SeenInv, SeenBound
    <2>4. CASE front[d].attempt > 1
      <3>1. Marks(d)[y].seen < epoch
        BY <1>1, <1>3, <2>1, <2>3, <2>4, MarksKin
      <3> QED
        BY <2>1, <3>1
    <2>5. CASE front[d].attempt = 1
      <3>1. Fresh(d)
        BY <1>1, <2>5 DEF Fresh
      <3>2. rows[y].seen < epoch
        BY <1>1, <2>3, <3>1 DEF SeenInv, FreshUnseen
      <3>3. rows[y].seen \in 0..MaxEpochs /\ Marks(d)[y].seen \in 0..MaxEpochs
        <4>1. rows[y] \in Rows /\ Marks(d)[y] \in Rows
          BY <1>1, PublishFacts
        <4> QED
          BY <1>3, <2>1, <2>3, <4>1, RowFacts
      <3> QED
        BY <1>1, <2>1, <2>3, <3>2, <3>3
    <2> QED
      BY <1>1, <1>2, <2>4, <2>5
  <1> QED
    BY <1>3 DEF Told

\* A scan makes true what it completes, and keeps it so.
LEMMA SureIsToldScan ==
    ASSUME TrueInv, ScanStep
    PROVE  SureIsTold'
  <1>0. /\ ScanTypes /\ KnownInv /\ SeenInv /\ CurrentInv /\ SureIsTold
        /\ at' = at /\ epoch' = epoch /\ steady' = steady /\ tidy' = tidy /\ life' = life
        /\ mtime' = mtime /\ \A p \in Paths : DirOf[p] \in Dirs
        /\ front \in [Dirs -> Entry] /\ WalkTypes
    BY ScanStepKeeps, ScanKeepsDisk DEF Keeps, Steady, TrueInv, KeptInv, disk, ScanTypes, FrontTypes
  <1>1. ASSUME NEW p \in Paths, Sure(p)
        PROVE  /\ front'[DirOf[p]].state = "completed" => Told(p)'
               /\ walked'[DirOf[p]].done =>
                    IF walked'[DirOf[p]].reconciled /\ walked'[DirOf[p]].files[p] = NoFile
                      THEN Told(p)' ELSE walked'[DirOf[p]].files[p] = at[p]
    <2> DEFINE e == DirOf[p]
    <2>1. /\ e \in Dirs /\ front[e] \in Entry
          /\ front[e].state = "completed" => Told(p)
          /\ walked[e].done =>
               IF walked[e].reconciled /\ walked[e].files[p] = NoFile
                 THEN Told(p) ELSE walked[e].files[p] = at[p]
      BY <1>0, <1>1 DEF SureIsTold
    <2>2. walked[e].done => front[e].state = "leased"
      BY <1>0, <2>1 DEF WalkTypes
    <2>3. ASSUME Publishing(e), walked[e].files[p] = NoFile,
                 \A y \in Paths : (rows'[y].exists /\ rows'[y].path = p) => rows'[y] = Marks(e)[y]
          PROVE  Told(p)'
      <3>1. walked[e].done
        BY <2>3 DEF Publishing
      <3>2. CASE walked[e].reconciled
        BY <1>0, <1>1, <2>1, <2>3, <3>1, <3>2, ToldKept
      <3>3. CASE ~walked[e].reconciled
        BY <1>0, <2>1, <2>3, <3>1, <3>3, FirstChunk
      <3> QED
        BY <3>2, <3>3
    <2>4. ASSUME front'[e].state = "completed"
          PROVE  Told(p)'
      <3>1. CASE front[e].state = "completed"
        BY <1>0, <1>1, <2>1, <2>2, <3>1, ToldKept
      <3>2. CASE CompleteDirectory(e)
        <4>1. Publishing(e) /\ walked[e].files[p] = NoFile /\ rows' = Marks(e)
          BY <3>2 DEF CompleteDirectory
        <4> QED
          BY <2>3, <4>1
      <3>3. CASE front'[e] = front[e]
        BY <2>4, <3>1, <3>3
      <3>4. front'[e].state \notin {"pending", "failed"}
        BY <2>4
      <3>5. front'[e] # Lease(front[e])
        BY <2>4 DEF Lease
      <3>6. CompleteDirectory(e) \/ front'[e] = front[e]
        BY <1>0, <2>1, <3>4, <3>5, FrontStep
      <3> QED
        BY <3>2, <3>3, <3>6
    <2>5. ASSUME walked'[e].done, walked[e].done
          PROVE  IF walked'[e].reconciled /\ walked'[e].files[p] = NoFile
                   THEN Told(p)' ELSE walked'[e].files[p] = at[p]
      <3>1. CASE walked'[e] = walked[e]
        <4>1. CASE walked[e].reconciled /\ walked[e].files[p] = NoFile
          <5>1. Told(p)'
            BY <1>0, <1>1, <2>1, <2>5, <4>1, ToldKept
          <5> QED
            BY <3>1, <4>1, <5>1
        <4>2. CASE ~(walked[e].reconciled /\ walked[e].files[p] = NoFile)
          BY <2>1, <2>5, <3>1, <4>2
        <4> QED
          BY <4>1, <4>2
      <3>2. CASE /\ Publishing(e) /\ walked'[e].reconciled
                 /\ rows' = Marks(e) /\ walked'[e].files = walked[e].files
        <4>1. CASE walked[e].files[p] = NoFile
          BY <2>3, <3>2, <4>1
        <4>2. CASE walked[e].files[p] # NoFile
          BY <2>1, <2>5, <3>2, <4>2
        <4> QED
          BY <4>1, <4>2
      <3>3. ASSUME NEW q \in Paths, NEW x \in Paths, Publishing(e), walked'[e].reconciled,
                   Writes(e, q, x), walked'[e].files[q] = NoFile,
                   \A r \in Paths \ {q} : walked'[e].files[r] = walked[e].files[r]
            PROVE  IF walked'[e].reconciled /\ walked'[e].files[p] = NoFile
                     THEN Told(p)' ELSE walked'[e].files[p] = at[p]
        <4>1. CASE q = p
          <5>1. walked[e].files[p] = at[p] /\ at[p] # NoFile
            BY <2>1, <2>5, <3>3, <4>1 DEF Writes
          <5>2. /\ rows'[x].exists /\ rows'[x].live /\ rows'[x].path = p
                /\ rows'[x].inode = at[p] /\ rows'[x].seen = epoch
            BY <3>3, <4>1, <5>1 DEF Writes
          <5>3. Told(p)'
            BY <1>0, <5>1, <5>2 DEF Told, RowOf
          <5> QED
            BY <3>3, <4>1, <5>3
        <4>2. CASE q # p /\ walked[e].files[p] = NoFile
          <5>1. \A y \in Paths : (rows'[y].exists /\ rows'[y].path = p) => rows'[y] = Marks(e)[y]
            BY <3>3, <4>2 DEF Writes
          <5>2. Told(p)'
            BY <2>3, <3>3, <4>2, <5>1
          <5> QED
            BY <3>3, <4>2, <5>2
        <4>3. CASE q # p /\ walked[e].files[p] # NoFile
          BY <2>1, <2>5, <3>3, <4>3
        <4> QED
          BY <4>1, <4>2, <4>3
      <3>4. ~(CompleteDirectory(e) /\ ~walked'[e].done)
        BY <2>5
      <3> QED
        BY <1>0, <2>1, <2>5, <3>1, <3>2, <3>3, <3>4, ReportStep
    <2>6. ASSUME walked'[e].done, ~walked[e].done
          PROVE  ~walked'[e].reconciled /\ walked'[e].files[p] = at[p]
      <3>1. walked'[e] = Report(e)
        BY <1>0, <2>1, <2>6, WalkedStep
      <3> QED
        BY <1>0, <2>1, <3>1, ReportFacts
    <2> QED
      BY <2>4, <2>5, <2>6
  <1>2. ASSUME NEW p \in Paths, Sure(p)', ~Sure(p)
        PROVE  /\ front'[DirOf[p]].state # "completed"
               /\ walked'[DirOf[p]].done =>
                    ~walked'[DirOf[p]].reconciled /\ walked'[DirOf[p]].files[p] = at[p]
    <2> DEFINE e == DirOf[p]
    <2>1. p \in current' \ current /\ e \in Dirs
      BY <1>0, <1>2 DEF Sure
    <2>2. CASE Walk(e)
      <3>1. front'[e] = front[e] /\ front[e].state = "leased" /\ ~walked[e].done
        BY <2>2 DEF Walk, frontier, Leased
      <3>2. walked'[e] = Report(e)
        <4>1. walked \in [Dirs -> Walked \cup {NotWalked}]
          BY <1>0 DEF WalkTypes
        <4> QED
          BY <2>1, <2>2, <4>1 DEF Walk, Report
      <3> QED
        BY <1>0, <2>1, <3>1, <3>2, ReportFacts
    <2>3. CASE RequeueChangedDirectories /\ front[e].state = "completed"
      <3>1. ~walked'[e].done
        BY <2>1, <2>3 DEF RequeueChangedDirectories, LoadInventory, NotWalked
      <3>2. Outdated(e)
        BY <1>0, <2>1, <2>3 DEF Outdated, CurrentInv, StillCurrent
      <3>3. front[e] \in Entry /\ "pending" \in FrontState
        BY <1>0, <2>1 DEF FrontState
      <3>4. front'[e] = [front[e] EXCEPT !.state = "pending"]
        BY <2>1, <2>3, <3>2 DEF RequeueChangedDirectories, Requeue
      <3> QED
        BY <3>1, <3>3, <3>4, EntryFacts
    <2> QED
      BY <1>0, <2>1, <2>2, <2>3, CurrentStep
  <1>3. ASSUME NEW p \in Paths, Sure(p)'
        PROVE  /\ front'[DirOf[p]].state = "completed" => Told(p)'
               /\ walked'[DirOf[p]].done =>
                    IF walked'[DirOf[p]].reconciled /\ walked'[DirOf[p]].files[p] = NoFile
                      THEN Told(p)' ELSE walked'[DirOf[p]].files[p] = at'[p]
    <2>1. CASE Sure(p)
      BY <1>0, <1>1, <2>1
    <2>2. CASE ~Sure(p)
      BY <1>0, <1>2, <1>3, <2>2
    <2> QED
      BY <2>1, <2>2
  <1> QED
    BY <1>3 DEF SureIsTold

\* So does every other step: a new scan has completed nothing yet, and what is
\* sure of a path that changes is sure no longer.
LEMMA TrueInvStep == TrueInv /\ [Next]_vars => TrueInv'
  <1> SUFFICES ASSUME TrueInv, [Next]_vars PROVE TrueInv'
    OBVIOUS
  <1>0. KeptInv /\ ScanTypes /\ KnownInv /\ SeenInv /\ CurrentInv /\ SureIsTold
    BY DEF TrueInv, KeptInv
  <1>1. KeptInv' /\ KnownInv' /\ SeenInv' /\ CurrentInv'
    <2>1. KeptInv'
      BY <1>0, KeptInvStep
    <2>2. KnownInv'
      BY <1>0, KnownInvStep
    <2>3. SeenInv'
      BY <1>0, SeenInvStep
    <2>4. CurrentInv'
      BY <1>0, CurrentInvStep
    <2> QED
      BY <2>1, <2>2, <2>3, <2>4
  <1>2. ASSUME ScanStep PROVE SureIsTold'
    BY <1>2, SureIsToldScan
  <1>3. ASSUME \A p \in Paths : Sure(p)' =>
                 /\ (front'[DirOf[p]].state = "completed" => Told(p)')
                 /\ (walked'[DirOf[p]].done =>
                       IF walked'[DirOf[p]].reconciled /\ walked'[DirOf[p]].files[p] = NoFile
                         THEN Told(p)' ELSE walked'[DirOf[p]].files[p] = at'[p])
        PROVE  SureIsTold'
    BY <1>3 DEF SureIsTold
  <1>4. ASSUME BeginEpoch PROVE SureIsTold'
    <2>1. /\ front' = [d \in Dirs |-> IF d = Root THEN [NoEntry EXCEPT !.state = "pending"]
                                                ELSE NoEntry]
          /\ walked' = [d \in Dirs |-> NotWalked]
      BY <1>4 DEF BeginEpoch, LoadInventory
    <2>2. \A d \in Dirs : front'[d].state # "completed" /\ ~walked'[d].done
      BY <2>1 DEF NoEntry, NotWalked
    <2>3. \A p \in Paths : DirOf[p] \in Dirs
      OBVIOUS
    <2> QED
      BY <1>3, <2>2, <2>3
  <1>5. ASSUME DiskStep \/ UNCHANGED vars PROVE SureIsTold'
    <2>1. /\ epoch' = epoch /\ rows' = rows /\ front' = front /\ walked' = walked
          /\ \A p \in steady' \cup current' : at'[p] = at[p]
          /\ steady' \subseteq steady /\ current' \subseteq current /\ (tidy' => tidy)
          /\ \A p \in Paths : life[p] = "moved" => life'[p] = "moved"
      BY <1>0, <1>5, DiskLeaves DEF frontier, process
    <2>2. ASSUME NEW p \in Paths, Sure(p)'
          PROVE  /\ (front'[DirOf[p]].state = "completed" => Told(p)')
                 /\ (walked'[DirOf[p]].done =>
                       IF walked'[DirOf[p]].reconciled /\ walked'[DirOf[p]].files[p] = NoFile
                         THEN Told(p)' ELSE walked'[DirOf[p]].files[p] = at'[p])
      <3>1. Sure(p) /\ at'[p] = at[p]
        BY <2>1, <2>2 DEF Sure
      <3>2. Told(p) => Told(p)'
        BY <2>1, <3>1 DEF Told, RowOf
      <3>3. /\ (front[DirOf[p]].state = "completed" => Told(p))
            /\ (walked[DirOf[p]].done =>
                  IF walked[DirOf[p]].reconciled /\ walked[DirOf[p]].files[p] = NoFile
                    THEN Told(p) ELSE walked[DirOf[p]].files[p] = at[p])
        BY <1>0, <3>1 DEF SureIsTold
      <3> QED
        BY <2>1, <3>1, <3>2, <3>3
    <2> QED
      BY <1>3, <2>2
  <1>6. ASSUME Rest PROVE SureIsTold'
    BY <1>5, <1>6 DEF Rest
  <1>7. SureIsTold'
    BY <1>2, <1>4, <1>5, <1>6 DEF Next, DiskStep, ScanStep
  <1> QED
    BY <1>1, <1>7 DEF TrueInv

\* At first no path is sure.
LEMMA TrueInvInit == Init => TrueInv
  <1> SUFFICES ASSUME Init PROVE TrueInv
    OBVIOUS
  <1>1. \A p \in Paths : ~Sure(p)
    BY DEF Init, Sure
  <1> QED
    BY <1>1, KeptInvInit, KnownInvInit, SeenInvInit, CurrentInvInit DEF TrueInv, SureIsTold

\* Together they are inductive.
LEMMA TrueInvHolds == Spec => []TrueInv
  BY TrueInvInit, TrueInvStep, PTL DEF Spec

-----------------------------------------------------------------------------
(* A scan that completes *)

\* When everything could be read, the rows are told of every path the property
\* is about ...
LEMMA AllIsTold ==
    ASSUME TrueInv, phase = "scanning", outstanding = 0, failures = 0,
           NEW p \in Paths,
           (tidy /\ p \in steady) \/ (p \in steady \cup current /\ life[p] # "moved")
    PROVE  Told(p)
  <1>0. /\ KeptInv /\ ScanTypes /\ SeenInv /\ CurrentInv /\ SureIsTold
        /\ DirOf[p] \in Dirs /\ at \in [Paths -> Inodes \cup {NoFile}]
    BY DEF TrueInv, KeptInv, ScanTypes, DiskTypes
  <1>1. CASE p \in steady /\ at[p] = NoFile
    BY <1>0, <1>1 DEF SeenInv, NeverThere, Told
  <1>2. CASE p \in steady /\ at[p] # NoFile
    <2>1. p \in Kept
      BY <1>0, <1>2 DEF Kept
    <2>2. front[DirOf[p]].state = "completed"
      BY <1>0, <2>1, KeptIsCompleted
    <2>3. p \in current
      BY <1>0, <1>2, <2>2 DEF CurrentInv, StillCurrent
    <2> QED
      BY <1>0, <2>2, <2>3 DEF Sure, SureIsTold
  <1>3. CASE p \in current /\ life[p] # "moved"
    <2>1. front[DirOf[p]].state = "completed"
      BY <1>0, <1>3, KeptIsCompleted DEF CurrentInv, LookedAt
    <2> QED
      BY <1>0, <1>3, <2>1 DEF Sure, SureIsTold
  <1> QED
    BY <1>1, <1>2, <1>3

\* ... and are true of it when the rest has been declared missing.
LEMMA ToldIsRecorded ==
    ASSUME ScanTypes, NEW p \in Paths, Told(p), failures = 0, rows' = Reconciled, at' = at
    PROVE  Recorded(p)'
  <1>0. /\ epoch \in 0..MaxEpochs /\ \A x \in Paths : rows[x] \in Rows
    BY DEF ScanTypes, FrontTypes, RowTypes
  <1>1. ASSUME NEW x \in Paths, rows[x].exists
        PROVE  /\ rows'[x].exists /\ rows'[x].path = rows[x].path
               /\ rows'[x].inode = rows[x].inode
               /\ rows[x].seen < epoch => ~rows'[x].live
               /\ rows[x].seen = epoch => rows'[x] = rows[x]
    <2>1. rows'[x] = IF rows[x].seen < epoch THEN [rows[x] EXCEPT !.live = FALSE] ELSE rows[x]
      BY <1>1 DEF Reconciled
    <2>2. rows[x] \in FileRow
      BY <1>0, <1>1, RowFacts
    <2> QED
      BY <1>0, <1>1, <2>1, <2>2 DEF FileRow
  <1>2. \A x \in Paths : rows'[x].exists => rows[x].exists
    BY DEF Reconciled
  <1>3. CASE at[p] = NoFile
    <2>1. \A x \in Paths : ~(rows'[x].exists /\ (rows'[x].live /\ rows'[x].path = p))
      BY <1>1, <1>2, <1>3 DEF Told
    <2> QED
      BY <1>3, <2>1 DEF Recorded
  <1>4. CASE at[p] # NoFile
    <2>1. PICK x \in Paths : RowOf(x, p) /\ rows[x].inode = at[p] /\ rows[x].seen = epoch
      BY <1>4 DEF Told
    <2>2. rows'[x].exists /\ (rows'[x].live /\ rows'[x].path = p) /\ rows'[x].inode = at'[p]
      BY <1>1, <2>1 DEF RowOf
    <2> QED
      BY <1>4, <2>2 DEF Recorded
  <1> QED
    BY <1>3, <1>4

\* A scan that completes, however often it was interrupted and resumed, leaves
\* the files table true of every path that has not changed since the scan began
\* or, if no move has touched it, since the scan last looked there.
THEOREM CompletedScansAreTrue == Spec => CompleteInventory
  <1>1. ASSUME TrueInv, [Next]_vars, Completes,
               NEW p \in (IF tidy THEN steady ELSE {})
                           \cup {q \in steady \cup current : life[q] # "moved"}
        PROVE  Recorded(p)'
    <2>0. ScanTypes /\ steady \subseteq Paths /\ current \subseteq Paths
      BY <1>1 DEF TrueInv, KeptInv, ScanTypes, DiskTypes
    <2>1. /\ p \in Paths
          /\ (tidy /\ p \in steady) \/ (p \in steady \cup current /\ life[p] # "moved")
      BY <1>1, <2>0
    <2>2. FinishEpoch
      BY <1>1 DEF Completes, Next, Create, Delete, Move, MakeDir, RemoveDir, Change, BeginEpoch,
         ResumeEpoch, RequeueChangedDirectories, ClaimDirectories, Walk, FailDirectory,
         CompleteDirectory, TouchFile, ObserveFile, RefuseFile, PublishChild, Interrupt, Rest,
         vars, frontier
    <2>3. /\ phase = "scanning" /\ outstanding = 0 /\ failures = 0 /\ rows' = Reconciled
          /\ at' = at
      BY <1>1, <2>2 DEF Completes, FinishEpoch, disk
    <2>4. Told(p)
      BY <1>1, <2>1, <2>3, AllIsTold
    <2> QED
      BY <2>0, <2>1, <2>3, <2>4, ToldIsRecorded
  <1>2. TrueInv /\ [Next]_vars =>
          [Completes =>
             \A p \in (IF tidy THEN steady ELSE {})
                        \cup {q \in steady \cup current : life[q] # "moved"} : Recorded(p)']_vars
    BY <1>1
  <1> QED
    BY <1>2, TrueInvHolds, PTL DEF Spec, CompleteInventory

=============================================================================
