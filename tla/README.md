# Playlist AI in TLA+

Playlist AI turns a prompt into a playlist. It is a desktop application (Go and
Wails, with a React front end) and a set of commands; the largest of them,
`playlist-indexer`, scans a music library and analyses every file of it with
FFmpeg, DSP and the MERT, CLAP and EffNet models, for hours or days, through
crashes, full disks, files that move and models that fail. This directory
specifies the concurrent and durable core of that indexer,
`src/internal/libraryindex`, and the concurrent parts of the desktop
application (catalog installs, library packs, local queries, taste data,
shutdown and model changes); it model-checks them with TLC, and proves
their safety properties with TLAPS, for any number of files, workers, processes
and failures. Paths below are relative to the repository, which is
`src/` in `PROJECT.json`; line numbers are in the `map` of that file.

## 1. The system

### Components and how they interact

    playlist-indexer ── signals ──> shutdown.go (stop, then cancel)
       │ open, retry-failed, scan / run / analyze
       v
    scan.go, scan_inventory.go, scan_spill.go ──────┐
       │ freeze the diff (scan_manifest.go)         │ transactions, through
       v                                            v one writer goroutine
    pipeline.go  Analyzer.Run                    state.go, eligible_workset.go
       per kind: dispatcher → channel → workers ──> library-index.sqlite
                 tracker ← heartbeat                (files, jobs, results,
       │ reservations                                frontier, eligible_jobs)
       v
    admission.go   cpu, I/O, memory, files, PCM
    mert_health.go, reuse_cache.go, audio.WorkerPool

The finished index is exported as packs (`librarypack`), which the desktop
application installs, searches and merges with its own catalog
(`librarysearch`, `localcatalog`, `librarymerge`) and uses for recommendations
(`reco`, `resolution`, `similarity`), between an intent recognised from the
prompt (`intent`) and an export to a music service.

| component | state it keeps | operations | what is hard | what makes it correct |
|---|---|---|---|---|
| **Durable job queue** (`state.go`, `eligible_workset.go`, `scan_manifest.go`) | tables `files`, `jobs`, `scan_diff_jobs`, `eligible_jobs`, results; the coordinator lock | open, observe a file, freeze the diff, claim, renew, commit, commit partial DSP, fail or retry, release, refresh a revision, retry failed, finalize blocked | stale workers, crashes between any two transactions, contracts that change between visits, a projection that triggers keep | the projection is exact; a fence that matches is a lease that holds; nothing is analysed before its metadata; completed work has its result and stays |
| **Analysis run** (`pipeline.go`, `shutdown.go`) | per kind: a dispatcher, a bounded channel, workers, a lease tracker, a heartbeat; contexts, the stop channel | claim, send, count, finalize; process, leave the tracker, settle; snapshot, renew; stop, cancel | every goroutine reads what another has changed since; each dispatcher decides by itself that it is done | no job is in two hands; what is in flight is tracked; a run settles its jobs once, ends, and leaves nothing open if it ends well |
| **Admission** (`admission.go`) | usage, the queue of waiters, closed | acquire (at once, or wait), cancel, release in parts or whole, close | a cancellation racing a grant; wakeups; waits that nest | the books balance; no wakeup is lost; a track that began is finished |
| **Scan** (`scan.go`, `scan_inventory.go`, `scan_spill.go`, `state.go`) | `scan_epochs`, `scan_scopes`, `directory_frontier`, `files`; an inventory in memory | begin, resume, requeue, claim, walk, publish in chunks, complete, fail, finish | the file system changes meanwhile; crashes inside a directory; identity by inode across moves | the barrier is exact; memory answers as the database; nothing that stayed is declared missing; a completed scan is true of what stayed |
| **State writer** (`state.go` 367-514) | three queues, the batch under way | enqueue by priority, batch, fall back to one by one, close | cancellation between queueing and commit, one bad item in a batch | an answer of success means applied, once; everybody is answered |
| **MERT supervision, reuse** (`mert_health.go`, `reuse_cache.go`, `audio/worker_pool.go`) | sessions with their quarantine; health, one recovery loop; one flight per recording | acquire, quarantine, validate; declare an outage, probe, recover, stop; claim, store, finish | an outage declared by workers and an idle probe at once; a leader that fails | one recovery per outage, none lost; a session that failed never circles; one computation at a time; every track settles |
| **Catalog directory** (`dataset`) | the files, a stage, backups, a journal, a lock file | fetch, publish, recover, lease for reading | crashes at every step, of recovery too; readers that arrive in between | installed is complete, or as before; a reader sees whole files |
| **Library packs** (`librarypack/manager.go`) | the active record, generation directories, references | stage, activate, discard, pin, release, remove, close, reopen | readers of a pack that is replaced; a crash between the record and the swap | a lease's files are there and open; the record names what is there |
| **Local catalog** (`localcatalog`) | a pin on a generation, slots shared by its catalogs | query with up to three channels, close | a lock that a query and its channels both take; cancellation while queued | every call returns; slots come back |
| **Taste data** (`bridge`, `taste`) | feedback and exposures, profiles, presentations, an epoch | record, project, generate, present, acknowledge, clear | projections and displays that come after the clear | what was cleared does not come back |
| **Application** (`app`) | leases of the runtime, closers, the catalog, the language model and its revision | lease, load, ensure, register, set, clear, change device, close | everything that is on its way when the shutdown begins; slow model starts | nothing in use is closed, nothing stays open, a later choice stands |
| **Updater** (`updater`) | the application at its path, a staging directory and a helper for each update, their outcomes | check, stage, hand over, wait, replace or roll back, sweep | sessions and helpers that die; a rename or a start that fails; two sessions that update at once | there is always an application to go back to; none is moved without approval |
| **Discovery assets** (`discoveryasset`) | installed assets and their record | download, activate, pin | crashes; a guard that vetoes activation | as for the catalog directory |
| **Audio sessions** (`audio`, `audioruntime`) | native worker processes, budgets | start, run, watch, restart | a hung child, a budget exhausted | a worker is returned or replaced |

`PROJECT.json` lists every component with its sources, those that are not
modelled included, and the hazards with the line where each bites.

### One visit

A process opens the state; it holds the coordinator lock, so it is alone. It requeues
what a dead process had leased, may retry failed jobs, scans, freezes the jobs
the scan found pending (`scan`, `run`) or takes all of them (`analyze`), and
analyses. The next process may want another contract (a newer model, other
options). `JobQueue` takes all these steps, in every order the command allows,
with a crash between any two.

## 2. The modules

| module | models | abstracts |
|---|---|---|
| `JobQueue` | every transaction of the durable queue; one action each | a revision is a number, a contract a key, an error code its class, time is whether a lease has lapsed |
| `DiffRun` | what one analysis promises (abstract) | |
| `Analysis` (extends `JobQueue`) | one `Analyzer.Run`: dispatchers, workers, heartbeats, stop and cancellation, using `JobQueue`'s transactions as its steps | the work itself: it completes, fails, is retried, released, or finds its source changed |
| `Admission` | the admission controller; one action per critical section | the counters of waits |
| `AnalysisAdmission` (extends `Admission`) | audio and metadata workers over it: nested reservations, the DSP slots, the MERT pool | windows are a count; three resources that are always taken together are one |
| `LibraryScan` | the scan over one root, with the file system as an actor | a file is its inode; the revision of a directory is a counter |
| `StateWriter` | the writer goroutine, its channels, batches and callers | what a request does is to settle a row, if the row is as its caller knew it |
| `MERTSupervisor` | the pool of native MERT sessions and `mertSupervisor` | a failing answer uses up one of `MaxFaults`; delays are the freedom to wait |
| `ReuseCache` | `mertReuseCache`, one action per critical section | a value is that it is there |
| `AudioWorkers` (extends both) | the audio workers of one run over sessions, supervisor and cache | decoding, DSP and reservations, which `AnalysisAdmission` has; one window per track |
| `AtomicInstall` | what an install promises (abstract) | |
| `CatalogInstall` | `Fetch`, `publish`, `recoverCatalog` and `ReadLease` by several processes, one action per disk operation | contents are small numbers; resuming a download |
| `PackManager` | `librarypack.Manager` with crashes and restarts | an archive is its pack id; copying and verifying it |
| `LocalCatalog` | `Executor.Query` and `Catalog.Close` with both semaphores and the `RWMutex` | what a search answers |
| `TasteData` | feedback, profile projection, presentations and `ClearTasteData` | an event goes by the call it came from; one session |
| `AppShell` | `app.Container`: leases, catalog loading, closers, model changes, `Close` | each actor makes one call; what it opens goes by its name |
| `Updater` | `Manager.Check`, `Manager.Install`, `RunWorker` and `previousResult`, one action per rename or marker | a release is a number, its hash too; the download; Windows' installer |
| `MC...` | instances for TLC; `MCDesktop` holds the seven of the application, `MCState` both of `State` | |
| `JobQueueProofs`, `AnalysisProofs` | proofs about `JobQueue`, and about `Analysis` with `DiffRun` | |
| `AdmissionProofs` | about `Admission` under `AnalysisAdmission` | |
| `ScanProofs`, `WriterProofs` | about `LibraryScan`, `StateWriter` | |
| `AudioProofs` | about `AudioWorkers` with `MERTSupervisor` and `ReuseCache` | |
| `InstallProofs` | about `PackManager`, `CatalogInstall` with `AtomicInstall`, and `Updater` | |
| `DesktopProofs` | about `TasteData` and `AppShell`, and all components of `MCDesktop` | |

### How state and actions correspond to the code

*JobQueue.* `jobs` is the table, a record per `UNIQUE(kind,file_id,semantic_key)`;
`eligible` is the table `eligible_jobs`, maintained by `Triggers`, which is part of
every action that writes `jobs`, since the SQL triggers are part of every
statement; `manifest` is `scan_diff_jobs`, `results`, `partial` and `newest` are what the
result tables say of a job's revision, of a kept DSP and of the greatest `rowid`.
`held` is the workers' memory: copies of leases. A fence is drawn at random
in the code and never repeats; here it is the number of the claim. A
transaction is one step because one writer goroutine runs them all; what the
code reads before (claim candidates, the counts of exhausted metadata) is a step of its own:
`ReadMetadataCounts` and `FinalizeBlockedKind` are two actions, and `Claim` states the
recheck of `leaseCandidates`, on which alone the claim depends.

*Analysis.* `pc` is where each dispatcher is in `dispatchJobs`; `outbox` what it has claimed and
is about to send; `queue` the channel; `work` the workers; `tracked` the `jobLeaseTracker`;
`beat` the snapshot that a heartbeat takes and later renews; `canceled` the kinds
whose context has ended; `stop` the channel `StopAdmission`. A worker settles in three
steps (process, leave the tracker, settle), as the code does. The queue's depth is 1, by which
a claim leases one job.

*Admission.* Each action is a critical section of `Admission.mu`. A granted
waiter has not run yet (`"granted"`), so that its cancellation can race the grant.
`Granting` is the loop of `grantLocked`: repeatedly the oldest waiter that fits and takes nothing an
older one lacks. `AnalysisAdmission` gives each audio worker three clients: its
track and its two branches.

*StateWriter.* A call is one request of one caller; `control` and `batches` are the
channels (`State.results` exists, but nobody sends to it), `done` each request's
own channel, `step` the place of `writerLoop` and `executeWriterBatch`, `taken` the batch
that was collected and `active` what its filter has let through, item by item, or the one request that is run by itself. The two `select`s of the loop are two steps (`pick`, `wait`),
so that a stop or a control request may come between. This module is the reason
that `JobQueue` may take a transaction for a step: it is applied once or not at all, and
its caller knows which, unless its context has ended or the writer has.

*LibraryScan.* `front`, `outstanding` and `failures` are the frontier and its scope's
barrier; `rows` is `files`, keyed by id, and an id is the path it was derived from;
`cache` and `dirty` are the inventory; `walked` is what a directory's walk reported
and has not been committed. Directories are committed one entry at a time, as a spilled one is in chunks:
a small directory's single transaction is the behaviour where its chunks follow
each other. Changes of the file system fall between any two
steps; a walk during which its directory changes is repeated by the code, so a
successful walk is one step. `steady`, `current`, `life` and `tidy` are history
variables, for the properties only.

*MERTSupervisor, ReuseCache, AudioWorkers.* `holder` stands for the channel
`available` (a session nobody holds is in it) and for who reserved the others;
`waiting` are those blocked in `Acquire`, which get a session before a probe
does. `ready` is whether the supervisor's channel is closed; `eventMu` is kept over a
transition and its notification, which are two steps (`MarkDown` and
`TellDown`, `Restore` and `TellUp`). A paused worker waits on the channel it read, so that
`Recovered` wakes all who are paused, even if the next outage follows at once. A
worker is at one place (`at`) of `processAudio`; `acquireMERT`'s three looks
at the health are three steps. Where `processAudio` fails for a
reason of the track's own, it ends as one whose commit fails.

*CatalogInstall.* `step` is where a process is, `errand` why; `journal` is what
the transaction file says of each file, `backup` the stage's `.previous`. An error
inside `publish` runs the same steps as the recovery of a dead process, in the
process that made it; a recovery that fails leaves the directory as a crash does. `Visible` is
the refinement mapping: what recovery would make of the directory. The
journal's removal is thereby the moment of the install.

*Updater.* A session hands over at most once (`installing` stays set), so that its
staging directory, its job and its helper go by its name: `payload`, `previous`, `readied`,
`commit` and `oldHash` are what is in the directory, `outcome` the result file of each and `older` which of them were written before which. The helper is at
one place (`helper`) of `RunWorker` and `replace`, and each rename moves what is at the path
at that moment, which another helper may have put there. `ExitTooLate` is its two minutes, `Abandon` the
session's twenty seconds or a cancellation.

*PackManager.* A generation is its directory's number. `sweeping` are the
calls of `cleanup` that are still to come; the decision inside is one critical
section. `Publish` is the rename of the record, `Swap` the critical section after it, and the
program may end in between, or the manager close (`SwapClosed`). A publication may fail before its
rename or after it: `PublishFails` is `Activate`'s, and `PublishEmptyFails` is `Remove`'s, after which the record may be the empty one
while the generation is still active.

*LocalCatalog.* `pin` is `"closing"` from the call of `Lock` on, which is what
keeps new readers out of a `sync.RWMutex`. Each channel of a query is
`"queued"`, has its slot and asks for the read lock (`"slotted"`), reads under it, and is over. A search of metadata
by an artist's name reads the artist's recordings, gives the lock back, and
asks for it again for every hit that it looks up (`LookUpNext`, `hits` times at most); a search that is
invalid or asks for no hits never asks for the lock.

*TasteData.* `stage` is where each call is in `buildTasteProfileWithCatalog` and around
it; `tasteEpoch` and `presented` are the code's. `generating` is the generation
in `operationSet`. `forgotten` and `halfCleared` are history.

*AppShell.* `leased` is who is counted in `work`; `stopped` whose context has ended;
`up` what is open; `loadMu` the mutex `catalogLoadMu`. The model's revision and cancel function are the
code's; `settled` is history. Which roles meet is a
constant (`Casts`): those that touch the same state.

## 3. What is checked

| run | instance | states | shows |
|---|---|---|---|
| `State` | `JobQueue` (1 file, metadata and audio, 2 contracts, 2 revisions, 2 claims of a job, 3 of all) and `StateWriter` (a control request and 3 batched ones, two of them about its row; channels and batches of 2; contexts of 2 calls may end) | 835 thousand | `EligibleExact`, `FenceMeansLeased`, `LeasedAfterMetadata`, `CompletedHasResult`, `CompletedIsFinal` over any sequence of visits; `AnswersTrue`, `CanceledInTime`, `CallsReturn` of the writer |
| `Analysis` | 2 files (one new, one with its metadata), a worker for each kind, frozen diff | 242 thousand | `OneHolder`, `InFlightIsTracked`, `BlockedByFailure`, and that the run implements `DiffRun`, liveness included |
| `AnalysisEverything` | 2 files (the metadata of one has failed), 1 metadata and 2 audio workers, 3 revisions, all jobs | 1.36 million | `DrainedIsDone` with sources that are refreshed during the run |
| `AnalysisAdmission` | 2 audio workers and 1 metadata worker on 2 CPUs, 2 units of I/O and of PCM, 1 DSP slot, 1 MERT worker, inference that takes both CPUs | 9.7 thousand | `UsedIsHeld`, `NoneForgotten`, `TracksFinish` |
| `LibraryScan` | a root and a directory, a path in each, 3 changes, 2 scans | 788 thousand | `OutstandingExact`, `CacheSound`, `NoFalseTombstone`, `CompleteInventory` |
| `Desktop` | `AudioWorkers` (2 workers, 2 sessions, 2 tracks of one recording, 2 faults), `CatalogInstall` (2 processes, 3 files, 2 manifests, 2 installs, 2 mishaps), `PackManager` (2 packs, 2 directories, 2 leases, 1 trouble), `LocalCatalog` (2 catalogs, 2 channels, 2 slots, searches of one hit or of none by artist), `TasteData` (a feedback, 2 generations, a clear, 1 presentation), `AppShell` (3 actors, 5 casts), `Updater` (3 sessions of which 2 update, 2 releases, 1 misfortune) | 316 thousand | what the next table says |

`Desktop` checks seven components in one run. They share no state, so a behaviour
of the run is a behaviour of one of them, chosen at the start (`part`), while the
others stay as they began; the states add up, and do not multiply. An
invariant of one component is checked in all of its behaviours, and a temporal
property is, since fairness is asked of the chosen component's steps. The run `State` is
made the same way of the two components of the Go type `State`: the queue's actions are the transactions that
the writer runs, and the writer's requests settle rows that stand for any of them.

| property | of | says |
|---|---|---|
| `OutageSupervised` | `MERTSupervisor` | while MERT is down there is one recovery loop, while it is up none, and what was last told is so |
| `QuarantineIsAnOutage` | `MERTSupervisor` | a quarantined session that is free belongs to an outage: workers cannot draw it, put the job back and draw it again |
| `ComputedOnce` | `AudioWorkers` | no recording is computed twice at once, or again |
| `TracksSettle` | `AudioWorkers` | unless interrupted, every track is done or failed for good, across outages and failing leaders |
| `InstallIsAtomic` | `CatalogInstall` | it implements `AtomicInstall`, under crashes and errors at every step |
| `LeaseSeesWhole` | `CatalogInstall` | a reader sees no half of an install, nor an installer at work |
| `PinnedIsWhole` | `PackManager` | what a lease pins is open, and on disk |
| `RecordOpens` | `PackManager` | after a crash at any moment the record names a directory that is there |
| `CallsReturn` | `LocalCatalog` | queries and closings return, unless a close overtakes a channel that asks for the lock, the first time or again (`ClosingEnds` below) |
| `StaysForgotten` | `TasteData` | no late projection or display brings back what was cleared |
| `UsedIsOpen` | `AppShell` | what a call uses is open until it has given its lease back |
| `NothingLeftOpen` | `AppShell` | after `Close` nothing is open but what a call is about to close |
| `NeverUndone` | `AppShell` | a slow model start does not undo a later choice |
| `ApplicationKept` | `Updater` | the application is in its place or in a helper's keeping; in its place once the helpers are through, if none died and no rename failed; and moved only for a session that approved and is over |

Every property has a mutant: an operator that changes one definition as a
plausible bug would, beside which it stands in its module (`Mutant of ...`). TLC
finds the property violated by it, so the instance is large enough to tell.

### Where the code and its documents disagree

Six runs check a statement of the repository that the code does not keep.

- `JobQueueStale`, `ReadyFindsMetadata`. A dependent is ready by metadata of one
  contract, but `State.Metadata` reads the row with the greatest `rowid`, which
  after a switch of versions and back is another contract's, of an older
  revision; every dependent of the file then fails as changed.
- `AnalysisHeartbeat`, `HeartbeatLosesNothing`. A job of a heartbeat's
  snapshot is retried and claimed again before the renewal, which takes the new
  fence for a lost lease and cancels the run.
- `AnalysisRefresh`, `AnalysisEnds`. In `analyze`, a worker refreshes a changed
  source when the metadata dispatcher has already returned: nobody claims the requeued
  metadata, and the audio dispatcher polls until it is interrupted. `DrainedIsDone`
  (`AnalysisEverything`) is what does hold: but for two races below, the run does not pretend to be done.
- `LibraryScanMoves`, `ObservationsApply`. A file renamed onto a path that a row, live or
  tombstoned, still has breaks `UNIQUE(root_id,relative_path)`, and the scan
  fails, again at each attempt.
- `LibraryScanReuse`, `ValidatesEachFile`. A new file at the old path of a moved
  one takes over its row, and a completed scan leaves the moved file without one.
- `DesktopClose`, `ClosingEnds`. `catalog.go:49` says that Close releases the lease after calls in flight finish.
  `Query` holds the catalog's read lock while its channels take it again, and a
  search by artist takes it once more for every hit. If
  `Close` asks for the write lock in between, the channel waits behind it, the query waits for its
  channel, and `Close` for the query, for ever (`localcatalog/executor.go:162`); the slots they keep are missing to the
  other catalogs of the generation. The test of it (`localcatalog_test.go:671`) replaces the channel's search by one that takes no lock.
  `CallsReturn` holds of everything else: `Overtaken` is this case.

Five more were met, one in `Analysis` and four in the application's modules. They are named in the hazards
and in the modules; the properties are stated for what does hold.

- *Dependents can fail for want of metadata that is pending* (`libraryindex/pipeline.go:687`). `:678` says that
  pending audio which cannot be claimed can never become eligible once
  metadata is exhausted, and fails it. The counts that say so are older than
  the transaction that fails it: in `analyze`, a refresh in between reopens a file's metadata, and the file's audio is
  failed for the want of metadata that is pending. `BlockedByFailure` is therefore checked of frozen runs,
  where nothing is refreshed: with `Frozen = FALSE` and two revisions TLC finds the race in eight states.
- *A failed publication can remove what the record names*
  (`librarypack/manager.go:269`). `publish` may fail after its rename, when it syncs the
  directory; `Activate` then removes the staged directory, which the record on disk already names, and
  the next `OpenManager` fails. `RecordOpens` leaves this case out (`unsynced`). (`Remove`'s own failing publication, `:362`, names
  nothing that is gone, so that `RecordOpens` says nothing of it; but it may leave the empty record while the pack is active, and an
  import of the same pack, which `Stage` finds active already, then writes none: the next start has no pack.)
- *A device change can bring back a cleared model* (`app/model.go:367`). It reads
  the model to restart before it has a revision: after a `ClearModel` in between, the model
  is up again, while the preferences say it is disabled. `NeverUndone` does not forbid it, since the
  device change has the newer revision.
- *A presentation can follow the clear that should have dropped it*
  (`bridge/playlist.go:119`). Whether the result is current is asked before the
  presentation is prepared, in another critical section. `StaysForgotten`
  counts such a presentation as new.
- *An intent can be cached under the wrong parser* (`bridge/lifecycle.go:199`). The
  key takes the parser's identity before the parser is read; a model committed in
  between answers under the old one's key. The cache is not modelled.

Two more are no disagreements, but worth knowing. Of the runs of `analyze`, two races are what `LeftBehind` excuses in
`DrainedIsDone`. The history variable `slipped` has exactly the files to which one of them happened, however often they are refreshed
else, and TLC finds the invariant violated when either is not excused. The one is that of
`libraryindex/pipeline.go:687` above: if the metadata
dispatcher has returned when a file's dependents are failed too early, the run ends well with the file's metadata pending. *A worker that has lost its lease can
leave a file behind* (`libraryindex/pipeline.go:595`). After a refresh the job is claimed
again while its first worker has yet to leave the tracker, which is keyed by job: it takes the new lease
out, nobody renews it, it lapses, and the job is claimed a third time and completed. Both
dispatchers may then return before the second worker, whose lease has long lapsed, refreshes the file once
more (`RefreshFileRevision` looks at the revision only), and the run ends well with jobs open. With three
revisions TLC finds this. (With more than one kind of dependents a first refresh, by a worker that holds its job, is enough: the dispatcher of one kind may have returned
when a worker of another refreshes.) In each case the next `analyze` finds those jobs, but the dependents that were failed. The other: an updater's helper that dies between
its two renames (`updater/worker.go:159`, `:168`) leaves the user with the old application in
the staging directory only, without a result file that would say so, and no step of the program puts it back.
`ApplicationKept` asks no more of that case than that it is there.

Because of the two disagreements of the scan, `CompleteInventory` is stated for what the code does promise: paths
that stayed, while no path is used again after a move. A file moved during
the scan is left out: of two directories of a batch the first walked may be
committed last.

### Bounds, and why they are enough

Every bound is a constant or a named constraint. *Claims* (`MaxAttempt`,
`FewClaims`, `FewOfAKind`): two claims of a job give a stale lease and its
successor, and a third of all is the other kind's; a retry counts as a claim. `AnalysisEverything` has three of a job, one
before the first refresh and two after it, which the race of the lost lease takes. The invariants
relate two leases at most. *Contracts, revisions*: two of each give old and new; a contract that asks
for metadata only leaves audio of the other one behind. *Files*: no transaction relates the
jobs of two files except by counts, which `Analysis` checks with two. *Retries and
releases* (`MaxRetry`, `MaxRepeats`): one repeated claim in a run is one job in two pairs of hands
at worst. *Workers*: two audio workers and one of metadata can hold each slot, worker and
CPU that the third wants. *Calls*: a batch of two with one stale item, and one left in the channel. *Changes* (`MaxChanges` = 3): create, move and create again is the
longest chain of identity; two scans are an old and a new mark. *Faults* (`MaxFaults` = 2): a failed inference whose check fails is one, so a second outage or a failing
recovery can follow the first. *Mishaps, installs, tries* (`MaxMishaps`, `MaxFetches` = 2, `MaxTries` = 2, in the code 3): an
install crashes, and so does its recovery; another reader or installer meets what is left; the loop of `ReadLease` starts over once and gives up once.
*Directories* (`MaxDirs` = 2, `MaxTroubles` = 1): one generation replaces another that is pinned, with a crash or a failed publication
anywhere. *Slots* (`Capacity` = 2) are fewer than the four channels that want them. *Hits* (`MaxHits` = 1): a search that asks for the lock a second time. *Clears, presentations* (`MaxClears`,
`MaxPresentations` = 1, in the code 128): one clear among three calls, and a second presentation drops the
first. *Sessions, misfortunes* (three, two of them `Updaters`; `MaxMisfortunes` = 1): two helpers get in each other's way while a third session
sweeps, and one thing breaks. `Beating` lets the
heartbeat of one kind tick, to keep the run small: the loops of the kinds are the same.

### Fairness, and why the code justifies it

In `Analysis` every dispatcher and worker takes its enabled steps (weak
fairness: goroutines run, and transactions are answered); and the end
of the run is noticed. Ticks, lapses, retries, stops and cancellations are never assumed.
In `AnalysisAdmission` callers run and work ends (weak
fairness), and a branch that keeps wanting a DSP slot or a MERT worker gets one
(strong fairness: both are Go channels, first come first served). New tracks, cancellations,
outages and `Close` are never assumed. In `StateWriter` the writer and the callers run (weak fairness); nobody need cancel
or close. Calls are finitely many there: control requests come first, and an endless stream of
them could starve the batches. In `Desktop` only two components promise anything of the future. `AudioWorkers`:
each worker, the recovery loop, the probe's goroutine and the end of the
supervisor take their enabled steps (weak fairness; separately the step that
ends an outage, which the wake-up of paused workers is part of). No strong fairness is asked for sessions:
while recovery waits for all of them, the workers have been told to put their jobs back. Faults are finitely many. `LocalCatalog`: the
query, its channels and `Close` run (weak fairness); each catalog
answers one query, so that nobody is overtaken for slots for ever. Nothing is assumed of contexts that end, crashes,
stops, or of the user. In `Analysis` leases lapse only when nothing
tracks or settles them: the heartbeat's period is far below the lease's.

## 4. What is proved

The theorems hold for every value of the constants that the modules' `ASSUME`s allow:
any files, kinds, contracts, workers, processes, packs or calls, and every bound. TLC evaluates the
assumptions in each run. Each theorem is of the form `Spec => []Inv`, or of an action property, with a step
for each action; of the refinements, the initial state and the steps are proved, not the fairness.

| theorem | says |
|---|---|
| *JobQueueProofs* | |
| `TypesHold` | `Spec => []TypeOK` |
| `ProjectionExact` | `EligibleExact`: the projection that triggers keep, file by file, is the one a restart would rebuild |
| `FenceSafe` | `FenceMeansLeased`: checking the fence is enough |
| `PrerequisiteSafe` | `LeasedAfterMetadata` |
| `ResultSafe` | `CompletedHasResult` |
| `CompletedFinal` | `CompletedIsFinal` |
| *AnalysisProofs* | |
| `RunTyped` | `ATypeOK`, of every run |
| `JobsHaveOneHolder` | `OneHolder`, of frozen runs |
| `FlightsAreTracked` | `InFlightIsTracked`, of frozen runs |
| `BlockedHaveFailed` | `BlockedByFailure`, of frozen runs |
| `DrainedRunsAreDone` | `DrainedIsDone`, of frozen runs, and of those in which a file has one job of metadata and one that depends on it at most |
| `RunIsDiffRun` | every step of a frozen run is one of `DiffRun`, or a stutter |
| *AdmissionProofs* | |
| `AdmissionTyped` | `ATypeOK`: usage within the capacities |
| `UsageIsHeld` | `UsedIsHeld`: the books balance |
| `NobodyForgotten` | `NoneForgotten`: no lost wakeup |
| *WriterProofs* | |
| `WriterTyped` | `WriterTypeOK`, the bounds of channels and batches |
| `AnswersAreTrue` | `AnswersTrue` |
| `CanceledCallsDoNothing` | `CanceledInTime` |
| *ScanProofs* | |
| `ScanTyped` | `TypeOK`, with the uniqueness of paths |
| `BarrierIsExact` | `OutstandingExact` |
| `InventoryIsSound` | `CacheSound` |
| `NothingFalselyMissing` | `NoFalseTombstone` |
| `CompletedScansAreTrue` | `CompleteInventory`: a completed scan is true |
| *AudioProofs* | |
| `RecordingsComputedOnce` | `ComputedOnce` |
| `OutagesSupervised` | `OutageSupervised` |
| `QuarantinesAreOutages` | `QuarantineIsAnOutage` |
| *InstallProofs* | |
| `PinnedStaysWhole` | `PinnedIsWhole` |
| `RecordAlwaysOpens` | `RecordOpens` |
| `LeasesSeeWhole` | `LeaseSeesWhole` |
| `InstallsAreAtomic` | `InstallIsAtomic`, the refinement of `AtomicInstall` |
| `ApplicationIsKept` | `ApplicationKept` |
| *DesktopProofs* | |
| `TasteTyped` | the types of `TasteData` |
| `ForgottenForGood` | `StaysForgotten` |
| `UsedStaysOpen` | `UsedIsOpen` |
| `NothingStaysOpen` | `NothingLeftOpen` |
| `ChoicesStand` | `NeverUndone` |
| `DesktopTyped` | `TypeOK` of `MCDesktop`: the types of all components |

### What is assumed

The assumptions are on the constants: bounds are naturals (and revisions positive), special values differ from
the ordinary ones, functions have their domains. Those with content are that `metadata` is a kind, and a command
maps kinds, `metadata` among them, to contracts; that the directories of a scan are
finitely many and a tree (`TreeAssumption`: from each, parents lead to the root); that admission has finitely many
clients; and that every manifest of a catalog has its entry file.

Four theorems of `AnalysisProofs` have the hypothesis `Frozen`: the run is one of the commands `scan` and `run`,
whose jobs are those of a diff. There `RefreshFileRevision` is never called (`pipeline.go` takes
a changed source for a failure), and a file stays at its revision. Of `analyze` these four properties are
false: a refreshed job is claimed again while its first worker still has it. `RunTyped` has no hypothesis, and
`DrainedRunsAreDone` has `Frozen \/ OneOfEach`: without a frozen diff, no two jobs of a file are both of
metadata, or both dependents, as in `analyze` with one contract and audio alone. (`AnalysisEverything` is such a run.) With a second dependent kind
`DrainedIsDone` is false: its dispatcher may have returned when a worker of the first refreshes the file.

### The invariants, and why they are needed

*JobQueue.* `IInv` is `TypeOK`, `Seen`, `Fences`, `EligibleExact`, `ScanUnleased`,
`LeasedAfterMetadata` and `CompletedHasResult`.

- `Seen`: a row that exists has a revision that was observed, without which a claim
  would hand out a lease of no revision.
- `Fences`: a lease's fence is a claim that its row has counted, no two leases of a
  job share one, and one that still matches is on a leased row of the lease's
  revision. The first two make the last inductive: a claim draws a fence no
  lease has, and a commit, which keeps the fence on the row, takes the only lease
  that has it out of the worker's hands.
- `ScanUnleased`: nothing is leased outside an analysis. Observing may change a
  file's metadata from under its dependents, and only because none is
  leased then does `LeasedAfterMetadata` survive it.
- `EligibleExact` is needed for `LeasedAfterMetadata`: the claim trusts the
  readiness bit of the projection.

For the projection, `TriggersExact` does it once
for all: an entry depends on the rows of one file only (`SaysByFile`), so that
replacing the entries of the files touched leaves the whole exact; only
opening, which rebuilds, and freezing the diff, which changes the manifest,
need arguments of their own. For the others `SettleRows`,
`ObserveRows`, `RefreshRows` and the like say what a step does to a row, and the invariant's
parts follow row by row.

*Analysis.* `AInv` is one invariant for frozen runs and for `analyze`. It takes the queue's types, fences and projection with it: each step of
a run but a renewal is a step of the queue (`RunIsQueue`). Much of it is about `Fresh` files only, those that no worker has
refreshed, which in a frozen run are all (`FrozenIsFresh`); a file never becomes fresh again (`FreshKept`). `FlightHolds` says that a lease anywhere on its
way is held, and of a fresh file that it still owns its row and is tracked; `PlacesDiffer`, that a lease, and of a fresh file a job, is in one of outbox, channel and hands
only. They need each other: that a worker which leaves the tracker takes nobody else's lease out is because no
other place has the job, and that no place can get the job is because its lease is tracked and so does not lapse.
`PlacesMean` says what a place implies; `MetadataIsOver`, that metadata once found exhausted stays so: the counts are read one
after the other, and the blocked are failed later still.

`DrainedMeans` is what a dispatcher that has returned leaves: nothing live of a fresh file, and of one that has not `slipped`
at most its metadata. A step either keeps a row (`Kept`), and then what was settled stays so, or reopens it
(`Reopened`), which only a worker of the same file does. That worker holds its job, or the file slips. If it holds it, its job is live.
If that is the metadata, so is the dependent: by
`DependentsWait` the dependent of live metadata is pending, unless the file has slipped. If the worker's job is the dependent, metadata may be reopened behind
its dispatcher; but then the dependent is pending, and stays so until its own dispatcher completes it over completed
metadata, or fails it as blocked while the metadata is live, and then the file slips (`WaitStep`). So a run that ends well
has left nothing of a file that has not slipped: the metadata that is live would have its dependent pending, and the dependent's dispatcher has returned.

*Admission.* `Settled`: the usage is what those who have been granted hold, unit by unit, and within the capacities, and
each waiter is in the queue once. The loop of `grantLocked` is a recursive
function (`Granting`), and `NoneForgotten` needs that it goes far enough: by the
well-foundedness of the naturals (`TurnsExist`, `OneTurn`, `GrantingTurns`) it is some number of single grants after which
nobody is left to grant. The other half is that no step makes room without calling it.

*StateWriter.* `OnePlace`: a request is in one of control, batches, the batch collected and the items let
through, once. `PlacedIsUnrun`: what is in a place has no answer of the writer and has not touched its row, so
that whatever takes it out decides alone. `HandsSay`: what each step of the loop has at hand.
`LateIsOut`: the filter has stopped whoever ended in time.

*LibraryScan.* `OutstandingExact` is inductive with the types, among them that what is there
is in a directory that is there (`DiskIsATree`), and a walked directory is leased. `Inventory` says more than `CacheSound`:
memory and table agree outside the ids and inodes that have changed since, and a row that has changed is of a
path that no publication of this scan will come to again, since its directory is completed or its chunk is past. For
`NoFalseTombstone`, `WayIsFound` says of the directories above a file that has been there from
the beginning that each is on the frontier once its parent is completed, or walked and no longer held by the walk's report;
and `KeptIsSeen`, that the file's row is marked by this scan once its directory is completed, or once it has been published
from it. A scan that may finish has no directory open, so that, from the root down, all above such a file are
completed; the assumption that every directory leads to the root is used here (`Above`).

For `CompleteInventory`, `SureIsTold` says of the paths it speaks of (`Sure`) that the rows are true of them (`Told`: a
row with the file there that this scan has seen, or none that it has) once their directory is completed, or once they are published; before that the
walk's report is true of them. Three invariants keep this. `KnownInv`: a file is known, to the disk, a
row or a report, only at paths where it has been; one known at two has been moved, and while no path is used again
after a move, it has left all but one. So publishing one path never takes the row of another that is sure (`OtherRow`):
this is where the condition on moves is needed, and what the two disagreements of section 3 do without. `SeenInv`: what a first attempt publishes
was unseen, and the first chunk of a later one takes back what earlier ones had seen, so that a path that was emptied between two attempts is
not kept by its old mark (`FirstChunk`). `CurrentInv`: a directory that is completed, or walked, and has kept its revision is one whose paths have not
changed since they were looked at, so that the directories that a resume does not walk again need no walk.

*AudioWorkers.* `FlightsAreKept`: a flight belongs to a worker between `claim` and `finish`, and a value is stored under
one only by who is about to finish. `OutagePhases`: health, loop, notification and `eventMu` together are in one of five
phases, and who is telling has the lock. `SessionsAreHeld`, `QuarantineIsAnswered`, `PassedIsWell`: each quarantined session is with whoever
will declare the outage or ends it, and between the verdict that all are well and the end of the outage nobody works.

*PackManager.* `Counted`: the references of an entry are the leases on it, and an activation that found it active already. `ActiveStays` and `StagedIsFresh`: what is active is
open, on disk and not retired, and a staged directory is nobody's yet. `NothingInMemory`: after a death nothing is pinned. `RecordStays`: the directory that the record
names is active, or the one whose swap is to come.

*CatalogInstall.* `LocksAreHeld`: one process at most is past the lock, and it alone is between the steps that need it.
`JournalIsWhere`: at which steps there is a journal, and that a backup is of a file the journal had found. `StageIsOfOne`: what is staged, with what
is in its place already, makes up one manifest, through every step of an install. `Visible` maps each step to a
stutter but the removal of the journal.

*Updater.* `HelpersAreSent`: a helper past waiting was sent by a session that approved and is over, and has in its
directory the release it is to put in place, then the one it moved away. `HelpersAreKnown`: a directory's result is a success, which lets it be
swept, only when its helper is through. `SomebodyHasIt`, `SomebodyIsAtIt`: while nothing is at the application's path, some helper that has told of no
success has one, and if nothing went wrong, one that is about to put it there.

*TasteData.* `CurrentHearsNoneForgotten`: a projection of the current epoch has heard of nothing that was cleared, which is why comparing epochs
is enough. `PendingIsUnheard`, `LeavesATraceOnce`: an exposure that is yet to be acknowledged has been
heard by nobody, so that a clear that drops its presentation drops it for good. `DeletingShutsOut`: while
a clear deletes, every projection under way is of an earlier epoch.

*AppShell.* `ClosingIsAlone`: once the closers run nobody is counted. `CatalogsArePublished`, `OpenedIsUp`, `ServersAreModels`,
`NothingIsLost`: what is open is the container's, a closer's, or in the hands of a call that will close it.
`SettledIsBegun`: a revision that is settled was begun, so that the comparison of revisions orders the calls.

*MCDesktop.* No invariant of its own: a behaviour of the seven components together is one of each of them (`EachRuns`), of
which all the above is then true.

### Only model-checked

- All liveness (that `DiffRun` ends, `TracksFinish`, `CallsReturn` of both modules, `TracksSettle`), which
  TLAPS does not do under fairness.
- `HeartbeatLosesNothing`, `ReadyFindsMetadata`, `AnalysisEnds`, `ObservationsApply`, `ValidatesEachFile` and `ClosingEnds` are false; `BlockedByFailure` is false of `analyze`, and holds of frozen runs.

## 5. Not modelled

Values: metadata, DSP, embeddings, the content of packs. Roots other than
one, links, exclusions, and directories that are excluded later. CLAP's and
EffNet's loops where they differ from the audio worker's (for one, `clap.go:125` has no case for a
source that was refreshed or changed after the manifest). Schema migration. Sizing (`plan.go`), sampling, learning,
traces. Recommendation is numeric ranking over floating-point
vectors, and intent recognition, annotation, music graphs and the index builders are text and number crunching
without state that outlives a call: they are most of the repository's lines, and none is a matter for a
model checker, which is why the map covers a small share of them.

Of the application: the resumption of a download and archives (`fetch.go`, `Unpack`), the
fallback of `ReadLease` for a directory that cannot be written, and loss of power; formats
and search of packs; the intent cache and previews, stop-and-keep, and
resets of assets; Windows' installer (`installer_windows.go`), which replaces files by itself; discovery assets, whose installs are of the same kind as the catalog's, but have
a protocol of their own; native processes, their watchdogs and enhanced-audio budgets; remote lookups with
their caches and rate limits. The last three are stateful, and would be the next to model.

## 6. Plan

Done, in this order: `JobQueue` and its proofs, `Admission` and
`AnalysisAdmission`, `DiffRun` and `Analysis`, `LibraryScan`, `StateWriter`;
then `MERTSupervisor`, `ReuseCache` and `AudioWorkers`, `AtomicInstall` and `CatalogInstall`,
`PackManager`, `LocalCatalog`, `TasteData`, `AppShell` and `Updater`. The durable queue came first
since everything the indexer promises rests on it;
and the proofs of all of these. (Of `LocalCatalog` they have the types only: it promises that calls return.)

Next to model: discovery assets; the intent cache; audio sessions.
