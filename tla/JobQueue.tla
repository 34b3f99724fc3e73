------------------------------ MODULE JobQueue ------------------------------
(***************************************************************************)
(* The durable analysis queue of internal/libraryindex: the files, jobs,   *)
(* scan_diff_jobs and result tables of library-index.sqlite, the           *)
(* eligible_jobs projection its triggers keep, and every transaction the   *)
(* single writer runs on them.                                             *)
(*                                                                         *)
(* One process is one visit: it opens the state (and takes the coordinator *)
(* lock), optionally requeues failed jobs, scans, then analyses, and ends, *)
(* in order or by a crash.  `scan' and `run' freeze the scan's diff before *)
(* analysing (scope 1); `analyze' works on every job (scope 0).            *)
(*                                                                         *)
(* Workers are the leases they hold: a lease is a copy of the job row at   *)
(* its claim, and the store is free to move on under it.                   *)
(***************************************************************************)
EXTENDS Naturals, FiniteSets

CONSTANTS
    Files,       \* rows of the files table
    Kinds,       \* job kinds: "metadata" and the kinds that depend on it
    Keys,        \* semantic contracts (they change with version and options)
    Commands,    \* what processes ask for: the contract of each kind they want
    Revs,        \* source revisions a file can show (a hash of its stat)
    MaxAttempt,  \* bound on the claims of one job
    MaxRetry     \* automatic retries charged to one job

NoCommand == <<>> \* no process is running
None == 0        \* no revision yet, no result row yet

ASSUME KindsAssumption == "metadata" \in Kinds
ASSUME CommandsAssumption ==
    /\ Commands # {}
    /\ \A w \in Commands : \E K \in SUBSET Kinds : "metadata" \in K /\ w \in [K -> Keys]
ASSUME RevsAssumption == Revs \subseteq Nat \ {None}
ASSUME BoundAssumption == MaxAttempt \in Nat /\ MaxRetry \in Nat

Dependents == Kinds \ {"metadata"}

\* UNIQUE(kind, file_id, semantic_key): the key of a job row.
Job == {j \in [file : Files, kind : Kinds, key : Keys] :
          \E w \in Commands : j.kind \in DOMAIN w /\ w[j.kind] = j.key}

\* One process wide analysis: all jobs, or the frozen scan diff.
Everything == 0
Diff == 1
Scopes == {Everything, Diff}

JobState == {"none", "pending", "leased", "completed", "failed", "superseded"}

\* error_code, by what RetryFailed does with it: transient codes are
\* requeued, permanent ones (unsupported, corrupt_media) are not, and neither
\* is blocked (metadata_unavailable).
Code == {"", "transient", "permanent", "blocked"}

\* A row of jobs.  fence 0 is the empty fence; a drawn fence is random and
\* never repeats, which the claim's own attempt number stands for.  lapsed
\* says whether lease_until has passed.
Row == [rev : Revs \cup {None}, state : JobState, attempt : 0..MaxAttempt,
        fence : 0..MaxAttempt, lapsed : BOOLEAN, retries : Nat, code : Code]

NoJob == [file |-> "", kind |-> "", key |-> ""]

NoRow == [rev |-> None, state |-> "none", attempt |-> 0, fence |-> 0,
          lapsed |-> FALSE, retries |-> 0, code |-> ""]

\* What a worker holds: the job, and its claim's fence, revision and retries.
Lease == [job : Job, fence : 1..MaxAttempt, rev : Revs, retries : Nat]

\* A row of eligible_jobs.
Entry == [scope : Scopes, job : Job, ready : BOOLEAN,
          state : {"pending", "leased"}]

VARIABLES
    phase,     \* "closed", "opened", "scanning" or "analysing"
    want,      \* the contract this process asks of each kind it wants
    scope,     \* the scope of the analysis under way
    files,     \* files.source_revision
    jobs,      \* the jobs table
    manifest,  \* scan_diff_jobs: a set of <<job, frozen revision>>
    eligible,  \* the eligible_jobs projection
    results,   \* source_revision of each job's own result row
    partial,   \* source_revision of each audio job's dsp_results row
    newest,    \* the metadata row of a file with the greatest rowid
    held,      \* the leases in workers' hands
    exhausted  \* dependents whose dispatcher has just read zero metadata jobs

vars == <<phase, want, scope, files, jobs, manifest, eligible, results, partial,
          newest, held, exhausted>>

-----------------------------------------------------------------------------
(* The projection *)

Live(row) == row.state \in {"pending", "leased"}

PrerequisiteDone(js, j) ==
    \E m \in Job : /\ m.file = j.file
                   /\ m.kind = "metadata"
                   /\ js[m].state = "completed"
                   /\ js[m].rev = js[j].rev

Ready(js, j) == j.kind = "metadata" \/ PrerequisiteDone(js, j)

InScope(mf, js, j, s) == s = Everything \/ <<j, js[j].rev>> \in mf

\* The rows eligibleInsertSQL inserts for one file.
Project(js, mf, f) ==
    {e \in Entry : /\ e.job.file = f
                   /\ Live(js[e.job])
                   /\ InScope(mf, js, e.job, e.scope)
                   /\ e.ready = Ready(js, e.job)
                   /\ e.state = js[e.job].state}

Rebuilt(js, mf) == UNION {Project(js, mf, f) : f \in Files}

\* Mutant of Touched: the triggers fire on the state column only.
TouchedByState == {f \in Files : \E j \in Job : j.file = f /\ jobs'[j].state # jobs[j].state}

\* Files some row of which this step inserts or updates.
Touched == {f \in Files : \E j \in Job : j.file = f /\ jobs'[j] # jobs[j]}

\* The jobs triggers: a changed row replaces the entries of its whole file.
Triggers ==
    eligible' = {e \in eligible : e.job.file \notin Touched}
                  \cup UNION {Project(jobs', manifest, f) : f \in Touched}

-----------------------------------------------------------------------------
(* Opening, scanning, freezing *)

Init ==
    /\ phase = "closed"
    /\ want = NoCommand
    /\ scope = Everything
    /\ files = [f \in Files |-> None]
    /\ jobs = [j \in Job |-> NoRow]
    /\ manifest = {}
    /\ eligible = {}
    /\ results = [j \in Job |-> None]
    /\ partial = [j \in Job |-> None]
    /\ newest = [f \in Files |-> NoJob]
    /\ held = {}
    /\ exhausted = {}

\* Mutant of Requeued: the fence survives.
RequeuedFenced(row) == [row EXCEPT !.state = "pending", !.lapsed = FALSE]

Requeued(row) == [row EXCEPT !.state = "pending", !.fence = 0, !.lapsed = FALSE]

\* OpenState: the coordinator lock is free, so leases of a dead process go
\* back to pending, and the disposable projection is rebuilt.
Open(w) ==
    /\ phase = "closed"
    /\ want' = w
    /\ phase' = "opened"
    /\ jobs' = [j \in Job |-> IF jobs[j].state = "leased" THEN Requeued(jobs[j])
                                                          ELSE jobs[j]]
    /\ eligible' = Rebuilt(jobs', manifest)
    /\ UNCHANGED <<scope, files, manifest, results, partial, newest, held, exhausted>>

\* --retry-failed
MayRetryFailed(row) ==
    row.state = "failed" /\ row.code \notin {"permanent", "blocked"} /\ row.retries < 5

RetryFailed ==
    /\ phase = "opened"
    /\ jobs' = [j \in Job |-> IF MayRetryFailed(jobs[j])
                                THEN [Requeued(jobs[j]) EXCEPT !.code = ""]
                                ELSE jobs[j]]
    /\ Triggers
    /\ UNCHANGED <<phase, want, scope, files, manifest, results, partial, newest, held, exhausted>>

\* observeKnown on one job row, r being the observed revision.
Superseded(row) == [row EXCEPT !.state = "superseded", !.fence = 0, !.lapsed = FALSE]

\* Mutant of Settled: a completed job stays completed at any revision.
SettledAnyway(row, r) == row.state \in {"completed", "failed"}

Settled(row, r) == row.rev = r /\ row.state \in {"completed", "failed"}

\* Mutant of Upserted: the revision is not carried over.
UpsertedUnseen(row, r) ==
    [row EXCEPT !.fence = 0, !.lapsed = FALSE, !.code = "",
                !.state = IF Settled(row, r) THEN @ ELSE "pending"]

Upserted(row, r) ==
    [row EXCEPT !.rev = r, !.fence = 0, !.lapsed = FALSE,
                !.state = IF Settled(row, r) THEN @ ELSE "pending",
                !.code = IF row.rev = r /\ row.state = "failed" THEN @ ELSE ""]

Observed(j, row, r) ==
    IF j.kind \notin DOMAIN want THEN row
    ELSE IF j.key = want[j.kind] THEN Upserted(row, r)
    ELSE IF row.state = "none" THEN row ELSE Superseded(row)

Observe(f, r) ==
    /\ phase \in {"opened", "scanning"}
    /\ phase' = "scanning"
    /\ files' = [files EXCEPT ![f] = r]
    /\ jobs' = [j \in Job |-> IF j.file = f THEN Observed(j, jobs[j], r)
                                            ELSE jobs[j]]
    /\ Triggers
    /\ UNCHANGED <<want, scope, manifest, results, partial, newest, held, exhausted>>

\* WriteScanManifest: the diff becomes the pending jobs, at the contracts
\* this process wants, of the files this scan has seen.  The diff triggers drop the old
\* entries and copy the readiness of the unscoped ones.
WriteScanManifest(seen) ==
    /\ phase \in {"opened", "scanning"}
    /\ phase' = "analysing"
    /\ scope' = Diff
    /\ manifest' = {<<j, jobs[j].rev>> :
                       j \in {i \in Job : /\ i.file \in seen
                                          /\ jobs[i].state = "pending"
                                          /\ i.kind \in DOMAIN want
                                          /\ i.key = want[i.kind]}}
    /\ eligible' = {e \in eligible : e.scope = Everything}
                     \cup {[e EXCEPT !.scope = Diff] :
                             e \in {d \in eligible :
                                      /\ d.scope = Everything
                                      /\ <<d.job, jobs[d.job].rev>> \in manifest'}}
    /\ UNCHANGED <<want, files, jobs, results, partial, newest, held, exhausted>>

\* The analyze command goes straight to the analysis of every job.
StartAnalyze ==
    /\ phase = "opened"
    /\ phase' = "analysing"
    /\ scope' = Everything
    /\ UNCHANGED <<want, files, jobs, manifest, eligible, results, partial, newest, held,
                   exhausted>>

\* The workers are gone, the rows stay.
Stopped ==
    /\ phase' = "closed"
    /\ want' = NoCommand
    /\ scope' = Everything
    /\ held' = {}
    /\ exhausted' = {}
    /\ UNCHANGED <<files, jobs, manifest, eligible, results, partial, newest>>

\* Close, a cancelled run, or a crash.
End ==
    /\ phase # "closed"
    /\ Stopped

-----------------------------------------------------------------------------
(* Claiming and settling *)

\* Mutant of Claimable: the readiness bit is ignored.
ClaimableUnready(j) ==
    /\ jobs[j].state = "pending" \/ (jobs[j].state = "leased" /\ jobs[j].lapsed)
    /\ \E e \in eligible : e.scope = scope /\ e.job = j

\* Mutant of Claimable: a lease need not have lapsed.
ClaimableHeld(j) ==
    /\ jobs[j].state \in {"pending", "leased"}
    /\ \E e \in eligible : e.scope = scope /\ e.job = j /\ e.ready

Claimable(j) ==
    /\ jobs[j].state = "pending" \/ (jobs[j].state = "leased" /\ jobs[j].lapsed)
    /\ \E e \in eligible : e.scope = scope /\ e.job = j /\ e.ready

\* claimCandidates picks from a read snapshot, leaseCandidates rechecks it
\* all under the writer: a candidate that changed is skipped.
Claim(j) ==
    LET fence == jobs[j].attempt + 1 IN
    /\ phase = "analysing"
    /\ Claimable(j)
    /\ fence <= MaxAttempt
    /\ jobs' = [jobs EXCEPT ![j].state = "leased", ![j].attempt = fence,
                            ![j].fence = fence, ![j].lapsed = FALSE]
    /\ held' = held \cup {[job |-> j, fence |-> fence, rev |-> jobs[j].rev,
                           retries |-> jobs[j].retries]}
    /\ Triggers
    /\ UNCHANGED <<phase, want, scope, files, manifest, results, partial, newest, exhausted>>

\* Time passes lease_until.
Lapse(j) ==
    /\ phase = "analysing"
    /\ jobs[j].state = "leased"
    /\ ~jobs[j].lapsed
    /\ jobs' = [jobs EXCEPT ![j].lapsed = TRUE]
    /\ UNCHANGED <<phase, want, scope, files, manifest, eligible, results, partial,
                   newest, held, exhausted>>

\* Mutant of Fenced: the fence is not compared.
FencedByRevision(l) == jobs[l.job].rev = l.rev

\* WHERE id=? AND fence=? AND source_revision=?
Fenced(l) == jobs[l.job].fence = l.fence /\ jobs[l.job].rev = l.rev

Owns(l) == jobs[l.job].state = "leased" /\ Fenced(l)

Renew(l) ==
    /\ phase = "analysing"
    /\ Owns(l)
    /\ jobs' = [jobs EXCEPT ![l.job].lapsed = FALSE]
    /\ Triggers
    /\ UNCHANGED <<phase, want, scope, files, manifest, results, partial, newest, held, exhausted>>

\* A dependent's analysis starts from State.Metadata: the row with the
\* greatest rowid, whatever its contract.  Rows are upserted in place, so that
\* is the contract recorded last for the first time.
MetadataFound(l) ==
    \/ l.job.kind = "metadata"
    \/ newest[l.job.file] # NoJob /\ results[newest[l.job.file]] = l.rev

CommitJob(l) ==
    /\ phase = "analysing"
    /\ Owns(l)
    /\ MetadataFound(l)
    /\ files[l.job.file] = l.rev
    /\ newest' = IF l.job.kind = "metadata" /\ results[l.job] = None
                   THEN [newest EXCEPT ![l.job.file] = l.job] ELSE newest
    /\ results' = [results EXCEPT ![l.job] = l.rev]
    /\ partial' = IF l.job.kind = "audio" THEN [partial EXCEPT ![l.job] = l.rev]
                                          ELSE partial
    /\ jobs' = [jobs EXCEPT ![l.job].state = "completed", ![l.job].lapsed = FALSE]
    /\ held' = held \ {l}
    /\ Triggers
    /\ UNCHANGED <<phase, want, scope, files, manifest, exhausted>>

\* The job stays leased for the FailJob that follows.
CommitPartialDSP(l) ==
    /\ phase = "analysing"
    /\ l.job.kind = "audio"
    /\ Owns(l)
    /\ MetadataFound(l)
    /\ files[l.job.file] = l.rev
    /\ partial' = [partial EXCEPT ![l.job] = l.rev]
    /\ UNCHANGED <<phase, want, scope, files, jobs, manifest, eligible, results, newest,
                   held, exhausted>>

Failed(row, code, retry) ==
    [row EXCEPT !.state = IF retry THEN "pending" ELSE "failed",
                !.retries = IF retry THEN row.retries + 1 ELSE row.retries,
                !.code = code, !.fence = 0, !.lapsed = FALSE]

\* The statement does not ask for the leased state: the fence alone decides.
\* A retryable error is charged to the job while its lease had retries left.
FailJob(l, code, retry) ==
    /\ phase = "analysing"
    /\ Fenced(l)
    /\ retry => code = "transient" /\ l.retries < MaxRetry
    /\ jobs' = [jobs EXCEPT ![l.job] = Failed(@, code, retry)]
    /\ held' = held \ {l}
    /\ Triggers
    /\ UNCHANGED <<phase, want, scope, files, manifest, results, partial, newest, exhausted>>

\* A MERT outage, not the track, stopped the job: no retry is charged.
ReleaseJob(l) ==
    /\ phase = "analysing"
    /\ l.job.kind = "audio"
    /\ Owns(l)
    /\ jobs' = [jobs EXCEPT ![l.job] = Requeued(@)]
    /\ held' = held \ {l}
    /\ Triggers
    /\ UNCHANGED <<phase, want, scope, files, manifest, results, partial, newest, exhausted>>

\* The worker finds the file changed.  Outside a frozen run every job of the
\* file at the lease's revision moves to the new one.
RefreshFileRevision(l, r) ==
    /\ phase = "analysing"
    /\ scope = Everything
    /\ files[l.job.file] = l.rev
    /\ r # l.rev
    /\ files' = [files EXCEPT ![l.job.file] = r]
    /\ jobs' = [j \in Job |-> IF j.file = l.job.file /\ jobs[j].rev = l.rev
                                THEN [Requeued(jobs[j]) EXCEPT !.rev = r, !.code = ""]
                                ELSE jobs[j]]
    /\ held' = held \ {l}
    /\ Triggers
    /\ UNCHANGED <<phase, want, scope, manifest, results, partial, newest, exhausted>>

\* A settling call that finds the fence gone cancels the whole run.
Refused(l) ==
    /\ phase = "analysing"
    /\ ~Fenced(l)
    /\ Stopped

-----------------------------------------------------------------------------
(* Finalizing blocked dependents *)

Counted(k, states) ==
    {j \in Job : /\ j.kind = k
                 /\ jobs[j].state \in states
                 /\ scope = Diff => \E e \in eligible : e.scope = Diff /\ e.job = j}

\* Mutant of MetadataExhausted: leased metadata counts as exhausted.
MetadataExhaustedLeased(k) ==
    /\ Counted(k, {"pending"}) # {}
    /\ Counted("metadata", {"pending"}) = {}

MetadataExhausted(k) ==
    /\ Counted(k, {"pending"}) # {}
    /\ Counted("metadata", {"pending", "leased"}) = {}

\* dispatchJobs reads the counts first ...
ReadMetadataCounts(k) ==
    /\ phase = "analysing"
    /\ k \notin exhausted
    /\ MetadataExhausted(k)
    /\ exhausted' = exhausted \cup {k}
    /\ UNCHANGED <<phase, want, scope, files, jobs, manifest, eligible, results,
                   partial, newest, held>>

Blocked(j) ==
    /\ jobs[j].state = "pending"
    /\ IF scope = Everything
         THEN ~PrerequisiteDone(jobs, j)
         ELSE \E e \in eligible : /\ e.scope = Diff /\ e.job = j
                                  /\ ~e.ready /\ e.state = "pending"

\* ... and fails what is blocked in a later transaction.
FinalizeBlockedKind(k) ==
    /\ phase = "analysing"
    /\ k \in exhausted
    /\ exhausted' = exhausted \ {k}
    /\ jobs' = [j \in Job |-> IF j.kind = k /\ Blocked(j)
                                THEN [jobs[j] EXCEPT !.state = "failed",
                                                     !.code = "blocked"]
                                ELSE jobs[j]]
    /\ Triggers
    /\ UNCHANGED <<phase, want, scope, files, manifest, results, partial, newest, held>>

-----------------------------------------------------------------------------

Settle(l) ==
    \/ Renew(l)
    \/ CommitJob(l)
    \/ CommitPartialDSP(l)
    \/ \E code \in {"transient", "permanent"}, retry \in BOOLEAN : FailJob(l, code, retry)
    \/ ReleaseJob(l)
    \/ \E r \in Revs : RefreshFileRevision(l, r)
    \/ Refused(l)

Next ==
    \/ \E w \in Commands : Open(w)
    \/ RetryFailed
    \/ \E f \in Files, r \in Revs : Observe(f, r)
    \/ \E seen \in SUBSET Files : WriteScanManifest(seen)
    \/ StartAnalyze
    \/ End
    \/ \E j \in Job : Claim(j) \/ Lapse(j)
    \/ \E l \in held : Settle(l)
    \/ \E k \in Dependents : ReadMetadataCounts(k) \/ FinalizeBlockedKind(k)

Spec == Init /\ [][Next]_vars

-----------------------------------------------------------------------------
(* Properties *)

\* Every variable has its type; a row's revision and a result's are revisions
\* the file has shown, a lease is one a claim handed out.
TypeOK ==
    /\ phase \in {"closed", "opened", "scanning", "analysing"}
    /\ want \in Commands \cup {NoCommand}
    /\ scope \in Scopes
    /\ files \in [Files -> Revs \cup {None}]
    /\ jobs \in [Job -> Row]
    /\ manifest \subseteq Job \X Revs
    /\ eligible \subseteq Entry
    /\ results \in [Job -> Revs \cup {None}]
    /\ partial \in [Job -> Revs \cup {None}]
    /\ newest \in [Files -> Job \cup {NoJob}]
    /\ held \subseteq Lease
    /\ exhausted \subseteq Dependents

\* The incrementally maintained projection always equals the one a restart
\* would rebuild from the durable jobs and the current manifest.
EligibleExact == eligible = Rebuilt(jobs, manifest)

\* A lease whose fence still matches is on a leased row.  FailJob relies on
\* this: its statement checks the fence and the revision, never the state.
FenceMeansLeased ==
    \A l \in held : jobs[l.job].fence = l.fence => Owns(l)

\* A completed job has its own result, of the very revision it is completed at.
CompletedHasResult ==
    \A j \in Job : jobs[j].state = "completed" => results[j] = jobs[j].rev

\* Nothing analyses audio whose metadata is not complete at that revision.
LeasedAfterMetadata ==
    \A j \in Job : jobs[j].state = "leased" => Ready(jobs, j)

\* No worker, late or retried, undoes a completed job: only a changed source
\* or a new contract takes it out of completed.
CompletedIsFinal ==
    [][\A j \in Job : jobs[j].state = "completed" /\ jobs'[j].state # "completed"
         => jobs'[j].rev # jobs[j].rev \/ jobs'[j].state = "superseded"]_vars

\* A dependent that is ready finds the metadata it was made ready by, so that
\* the revision check of its analysis fails only for a file that changed.
ReadyFindsMetadata ==
    \A j \in Job : Live(jobs[j]) /\ j.kind # "metadata" /\ PrerequisiteDone(jobs, j)
        => results[newest[j.file]] = jobs[j].rev

=============================================================================
