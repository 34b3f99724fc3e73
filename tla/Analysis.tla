------------------------------ MODULE Analysis ------------------------------
(***************************************************************************)
(* One Analyzer.Run over the JobQueue.  For each kind of job a dispatcher  *)
(* claims jobs and sends them down a bounded channel, workers process and  *)
(* settle them, and a heartbeat renews the leases its tracker holds.  The  *)
(* run ends when every dispatcher has found nothing left, or is stopped,   *)
(* or canceled by its user or by the first kind that fails.                *)
(*                                                                         *)
(* The kinds of one Run work side by side: metadata and its dependents.    *)
(* QueueDepth is 1, so that one claim leases one job.                      *)
(***************************************************************************)
EXTENDS JobQueue, Sequences, FiniteSetsExt

CONSTANTS
    Workers,    \* of all kinds
    KindOf,     \* the kind each works on
    Frozen,     \* FreezeManifest: false in `analyze' only
    Beating,    \* bound: the kinds whose heartbeat ticks
    Pasts,      \* bound: what earlier runs may have left of each file's metadata
    MaxRepeats  \* bound: jobs are retried and released while fewer repeated
                \* claims than this have been made of all jobs together

ASSUME AnalysisAssumption ==
    /\ KindOf \in [Workers -> Kinds]
    /\ Frozen \in BOOLEAN
    /\ Beating \subseteq Kinds
    /\ Pasts \subseteq [Files -> {"new", "completed", "failed"}]
    /\ MaxRepeats \in Nat
    /\ 1 \in Revs /\ MaxAttempt >= 1  \* what earlier runs may have left

QueueDepth == 1

VARIABLES
    pc,        \* of each dispatcher: "claim", "send", "count", "finalize",
               \* "recount"; returned: "drained", "stopped", "failed"
    outbox,    \* what each dispatcher has claimed and not yet sent
    queue,     \* the channel of each kind
    work,      \* what each worker does
    tracked,   \* the jobLeaseTracker of each kind, by job
    beat,      \* the snapshot each heartbeat is about to renew
    canceled,  \* the kinds whose context is canceled
    stop,      \* StopAdmission is closed
    slipped    \* history: files to which one of two races of `analyze' happened:
               \* a worker refreshed the file without holding its job any more,
               \* or a dependent was failed while the file's metadata was live

run == <<pc, outbox, queue, work, tracked, beat, canceled, stop, slipped>>

avars == <<vars, run>>

Returned == {"drained", "stopped", "failed"}

\* A worker is idle, gone (its loop has returned), or has a lease: processing,
\* about to leave the tracker, or about to settle the job as `then' says.
Idle == [step |-> "idle"]
Gone == [step |-> "gone"]
Then == {"none", "retry", "fail", "release"}
Busy == [step : {"process", "remove", "settle"}, lease : Lease, then : Then]

-----------------------------------------------------------------------------
(* What a scan, and earlier runs, may have left of a file *)

Left(f, past) ==
    [j \in {i \in Job : i.file = f} |->
       IF j.kind # "metadata" \/ past = "new"
         THEN [NoRow EXCEPT !.rev = 1, !.state = "pending"]
         ELSE [NoRow EXCEPT !.rev = 1, !.state = past, !.attempt = 1,
                            !.fence = IF past = "completed" THEN 1 ELSE 0,
                            !.code = IF past = "failed" THEN "permanent" ELSE ""]]

AInit ==
    \E past \in Pasts, w \in Commands :
        /\ phase = "analysing"
        /\ want = w
        /\ scope = IF Frozen THEN Diff ELSE Everything
        /\ files = [f \in Files |-> 1]
        /\ jobs = [j \in Job |-> Left(j.file, past[j.file])[j]]
        /\ manifest = IF Frozen THEN {<<j, 1>> : j \in {i \in Job : jobs[i].state = "pending"}}
                                ELSE {}
        /\ eligible = Rebuilt(jobs, manifest)
        /\ results = [j \in Job |-> IF jobs[j].state = "completed" THEN 1 ELSE None]
        /\ partial = [j \in Job |-> None]
        /\ newest = [f \in Files |->
                       IF past[f] = "completed"
                         THEN CHOOSE j \in Job : j.file = f /\ j.kind = "metadata"
                         ELSE NoJob]
        /\ held = {}
        /\ exhausted = {}
        /\ pc = [k \in Kinds |-> "claim"]
        /\ outbox = [k \in Kinds |-> {}]
        /\ queue = [k \in Kinds |-> <<>>]
        /\ work = [w0 \in Workers |-> Idle]
        /\ tracked = [k \in Kinds |-> {}]
        /\ beat = [k \in Kinds |-> {}]
        /\ canceled = {}
        /\ stop = FALSE
        /\ slipped = {}

-----------------------------------------------------------------------------
(* dispatchJobs *)

Goto(k, label) == pc' = [pc EXCEPT ![k] = label]

StopDispatch(k) ==
    /\ pc[k] = "claim"
    /\ stop
    /\ Goto(k, "stopped")
    /\ UNCHANGED <<vars, outbox, queue, work, tracked, beat, canceled, stop, slipped>>

\* Claims, counts and waits all fail once the context is canceled.
FailDispatch(k) ==
    /\ pc[k] \in {"claim", "send", "count", "finalize", "recount"}
    /\ k \in canceled
    /\ Goto(k, "failed")
    /\ outbox' = [outbox EXCEPT ![k] = {}]
    /\ tracked' = [tracked EXCEPT ![k] = @ \ outbox[k]]
    /\ UNCHANGED <<vars, queue, work, beat, canceled, stop, slipped>>

\* leases.add replaces what the tracker has of the job.
ClaimJob(k) ==
    /\ pc[k] = "claim"
    /\ ~stop
    /\ k \notin canceled
    /\ \E j \in Job :
         /\ j.kind = k
         /\ Claim(j)
         /\ outbox' = [outbox EXCEPT ![k] = held' \ held]
         /\ tracked' = [tracked EXCEPT ![k] = {l \in @ : l.job # j} \cup (held' \ held)]
    /\ Goto(k, "send")
    /\ UNCHANGED <<queue, work, beat, canceled, stop, slipped>>

ClaimNothing(k) ==
    /\ pc[k] = "claim"
    /\ ~stop
    /\ k \notin canceled
    /\ ~\E j \in Job : j.kind = k /\ Claimable(j)
    /\ Goto(k, "count")
    /\ UNCHANGED <<vars, outbox, queue, work, tracked, beat, canceled, stop, slipped>>

\* Mutant of Send: the channel is unbounded.
SendUnbounded(k) ==
    /\ pc[k] = "send"
    /\ \E l \in outbox[k] : queue' = [queue EXCEPT ![k] = Append(@, l)]
    /\ outbox' = [outbox EXCEPT ![k] = {}]
    /\ Goto(k, "claim")
    /\ UNCHANGED <<vars, work, tracked, beat, canceled, stop, slipped>>

Send(k) ==
    /\ pc[k] = "send"
    /\ Len(queue[k]) < QueueDepth
    /\ \E l \in outbox[k] : queue' = [queue EXCEPT ![k] = Append(@, l)]
    /\ outbox' = [outbox EXCEPT ![k] = {}]
    /\ Goto(k, "claim")
    /\ UNCHANGED <<vars, work, tracked, beat, canceled, stop, slipped>>

\* Mutant of NothingLeft: leased jobs are not waited for.
NothingLeftPending(k) == Counted(k, {"pending"}) = {}

NothingLeft(k) == Counted(k, {"pending", "leased"}) = {}

\* After an empty claim the counts decide: go on polling, finish, or, when
\* metadata is exhausted, fail the dependents that are still pending.
Count(k) ==
    /\ pc[k] = "count"
    /\ k \notin canceled
    /\ \/ /\ k \in Dependents
          /\ ReadMetadataCounts(k)
          /\ Goto(k, "finalize")
       \/ /\ k \in Dependents => ~MetadataExhausted(k)
          /\ Goto(k, IF NothingLeft(k) THEN "drained" ELSE "claim")
          /\ UNCHANGED vars
    /\ UNCHANGED <<outbox, queue, work, tracked, beat, canceled, stop, slipped>>

\* The metadata of its file may be open: a refresh came after the counts.
FailedEarly(d) ==
    Blocked(d) /\ \E m \in Job : m.file = d.file /\ m.kind = "metadata" /\ Live(jobs[m])

Finalize(k) ==
    /\ pc[k] = "finalize"
    /\ k \notin canceled
    /\ FinalizeBlockedKind(k)
    /\ Goto(k, "recount")
    /\ slipped' = slipped \cup {d.file : d \in {i \in Job : i.kind = k /\ FailedEarly(i)}}
    /\ UNCHANGED <<outbox, queue, work, tracked, beat, canceled, stop>>

Recount(k) ==
    /\ pc[k] = "recount"
    /\ k \notin canceled
    /\ Goto(k, IF NothingLeft(k) THEN "drained" ELSE "claim")
    /\ UNCHANGED <<vars, outbox, queue, work, tracked, beat, canceled, stop, slipped>>

Dispatch(k) ==
    \/ StopDispatch(k) \/ FailDispatch(k)
    \/ ClaimJob(k) \/ ClaimNothing(k) \/ Send(k)
    \/ Count(k) \/ Finalize(k) \/ Recount(k)

-----------------------------------------------------------------------------
(* Workers *)

At(w, step) == work[w].step = step

Does(w, act) == work' = [work EXCEPT ![w] = act]

Take(w) ==
    LET k == KindOf[w] IN
    /\ At(w, "idle")
    /\ queue[k] # <<>>
    /\ Does(w, [step |-> "process", lease |-> Head(queue[k]), then |-> "none"])
    /\ queue' = [queue EXCEPT ![k] = Tail(@)]
    /\ UNCHANGED <<vars, pc, outbox, tracked, beat, canceled, stop, slipped>>

\* The processing is over, and this is what remains to be done.
Processed(w, then) ==
    /\ Does(w, [work[w] EXCEPT !.step = "remove", !.then = then])
    /\ UNCHANGED <<pc, outbox, queue, tracked, beat, canceled, stop>>

\* Under a canceled context every call fails, and so does the processing.
Complete(w) ==
    /\ At(w, "process")
    /\ KindOf[w] \notin canceled
    /\ CommitJob(work[w].lease)
    /\ Processed(w, "none")
    /\ UNCHANGED slipped

Repeats == MapThenSumSet(LAMBDA j : jobs[j].attempt - 1,
                         {j \in Job : jobs[j].attempt > 0})

\* What an error may ask for.  A canceled context allows no retry (and
\* no release: that call fails as well); a MERT outage, or a stop while it
\* lasts, releases the job.
MayAsk(w, then) ==
    LET l == work[w].lease IN
    \/ then = "fail"
    \/ /\ Repeats < MaxRepeats
       /\ KindOf[w] \notin canceled
       /\ \/ then = "retry" /\ l.retries < MaxRetry
          \/ then = "release" /\ l.job.kind = "audio"

\* Mutant of Fail: the job is settled first, and then leaves the tracker.
FailSettled(w) ==
    /\ At(w, "process")
    /\ \E retry \in BOOLEAN :
         /\ retry => MayAsk(w, "retry")
         /\ FailJob(work[w].lease, "transient", retry)
    /\ Processed(w, "none")
    /\ UNCHANGED slipped

\* Any failure, a commit that is refused included.  (The DSP that a failed
\* audio job may keep, CommitPartialDSP, concerns nothing here.)
Fail(w) ==
    /\ At(w, "process")
    /\ \E then \in {"retry", "fail", "release"} : MayAsk(w, then) /\ Processed(w, then)
    /\ UNCHANGED <<vars, slipped>>

\* verifySourceRevision outside a frozen run; a file shows its revisions in
\* order.  In a frozen run a changed source is a failure.
Refresh(w) ==
    /\ At(w, "process")
    /\ KindOf[w] \notin canceled
    /\ \E r \in Revs : r > work[w].lease.rev /\ RefreshFileRevision(work[w].lease, r)
    /\ Processed(w, "none")
    /\ slipped' = slipped \cup (IF Owns(work[w].lease) THEN {} ELSE {work[w].lease.job.file})

\* leases.remove: whatever the tracker has of the job goes.
Remove(w) ==
    LET k == KindOf[w] IN
    /\ At(w, "remove")
    /\ tracked' = [tracked EXCEPT ![k] = {l \in @ : l.job # work[w].lease.job}]
    /\ Does(w, IF work[w].then = "none" THEN Idle ELSE [work[w] EXCEPT !.step = "settle"])
    /\ UNCHANGED <<vars, pc, outbox, queue, beat, canceled, stop, slipped>>

SettleJob(w) ==
    /\ At(w, "settle")
    /\ KindOf[w] \notin canceled
    /\ LET l == work[w].lease IN
         CASE work[w].then = "retry"   -> FailJob(l, "transient", TRUE)
           [] work[w].then = "fail"    -> FailJob(l, "permanent", FALSE)
           [] work[w].then = "release" -> ReleaseJob(l)
    /\ Does(w, Idle)
    /\ UNCHANGED <<pc, outbox, queue, tracked, beat, canceled, stop, slipped>>

\* A settling call that is refused, or canceled itself, ends the worker, and
\* cancels its kind.
GiveUp(w) ==
    LET l == work[w].lease IN
    /\ At(w, "settle")
    /\ \/ KindOf[w] \in canceled
       \/ work[w].then = "release" /\ ~Owns(l)
       \/ work[w].then # "release" /\ ~Fenced(l)
    /\ canceled' = canceled \cup {KindOf[w]}
    /\ Does(w, Gone)
    /\ UNCHANGED <<vars, pc, outbox, queue, tracked, beat, stop, slipped>>

Work(w) ==
    \/ Take(w)
    \/ Complete(w) \/ Fail(w) \/ Refresh(w)
    \/ Remove(w) \/ SettleJob(w) \/ GiveUp(w)

-----------------------------------------------------------------------------
(* heartbeatJobs *)

\* A tick takes a snapshot of the tracker ...
Tick(k) ==
    /\ k \in Beating
    /\ beat[k] = {}
    /\ tracked[k] # {}
    /\ k \notin canceled
    /\ beat' = [beat EXCEPT ![k] = tracked[k]]
    /\ UNCHANGED <<vars, pc, outbox, queue, work, tracked, canceled, stop, slipped>>

\* A row that is leased, and not as the snapshot has it.
LostLease(l) == jobs[l.job].state = "leased" /\ ~Fenced(l)

\* ... and RenewJobs renews it in one transaction, or cancels the kind.
RenewJobs(k) ==
    /\ beat[k] # {}
    /\ beat' = [beat EXCEPT ![k] = {}]
    /\ IF k \notin canceled /\ \A l \in beat[k] : ~LostLease(l)
         THEN /\ jobs' = [j \in Job |-> IF \E l \in beat[k] : l.job = j /\ Owns(l)
                                         THEN [jobs[j] EXCEPT !.lapsed = FALSE] ELSE jobs[j]]
              /\ Triggers
              /\ UNCHANGED <<phase, want, scope, files, manifest, results, partial,
                             newest, held, exhausted, canceled>>
         ELSE /\ canceled' = canceled \cup {k}
              /\ UNCHANGED vars
    /\ UNCHANGED <<pc, outbox, queue, work, tracked, stop, slipped>>

\* Heartbeats are in time, and a job that has left the tracker is settled in
\* time: only a lease that nothing tracks lapses.
LapseUntracked(j) ==
    /\ ~\E l \in tracked[j.kind] : l.job = j /\ Fenced(l)
    /\ ~\E w \in Workers : /\ work[w].step \in {"remove", "settle"}
                           /\ work[w].lease.job = j
    /\ Lapse(j)
    /\ UNCHANGED run

-----------------------------------------------------------------------------
(* Run *)

KindOver(k) ==
    /\ pc[k] \in Returned
    /\ \A w \in Workers : KindOf[w] = k =>
         At(w, "gone") \/ (At(w, "idle") /\ queue[k] = <<>>)

\* The error of one kind cancels the others.
CancelRun(k) ==
    /\ KindOver(k)
    /\ k \in canceled
    /\ canceled # Kinds
    /\ canceled' = Kinds
    /\ UNCHANGED <<vars, pc, outbox, queue, work, tracked, beat, stop, slipped>>

\* A second signal, or the shutdown timeout, cancels the user's context.
Interrupt ==
    /\ phase = "analysing"
    /\ stop
    /\ canceled # Kinds
    /\ canceled' = Kinds
    /\ UNCHANGED <<vars, pc, outbox, queue, work, tracked, beat, stop, slipped>>

\* The first signal.
RequestStop ==
    /\ phase = "analysing"
    /\ ~stop
    /\ stop' = TRUE
    /\ UNCHANGED <<vars, pc, outbox, queue, work, tracked, beat, canceled, slipped>>

RunOver ==
    /\ \A k \in Kinds : KindOver(k)
    /\ End
    /\ UNCHANGED run

Over == phase = "closed" /\ UNCHANGED avars

ANext ==
    \/ /\ phase = "analysing"
       /\ \/ \E k \in Kinds : Dispatch(k) \/ Tick(k) \/ RenewJobs(k) \/ CancelRun(k)
          \/ \E w \in Workers : Work(w)
          \/ \E j \in Job : LapseUntracked(j)
          \/ Interrupt
          \/ RequestStop
          \/ RunOver
    \/ Over

\* Every goroutine runs: dispatchers, workers, and the end of the run.  Nothing
\* is assumed of ticks, lapses, stops and cancellations.
Fairness ==
    /\ \A k \in Kinds : WF_avars(phase = "analysing" /\ Dispatch(k))
    /\ \A w \in Workers : WF_avars(phase = "analysing" /\ Work(w))
    /\ WF_avars(phase = "analysing" /\ (RunOver \/ \E k \in Kinds : CancelRun(k)))

ASpec == AInit /\ [][ANext]_avars /\ Fairness

-----------------------------------------------------------------------------
(* Properties *)

\* The leases in a channel or in hands, that are yet to be settled.
Unsettled(w) == At(w, "process") \/ (work[w].step \in {"remove", "settle"} /\ work[w].then # "none")

InFlight(k) ==
    outbox[k] \cup {queue[k][i] : i \in DOMAIN queue[k]}
      \cup {work[w].lease : w \in {v \in Workers : KindOf[v] = k /\ Unsettled(v)}}

ATypeOK ==
    /\ TypeOK
    /\ pc \in [Kinds -> Returned \cup {"claim", "send", "count", "finalize", "recount"}]
    /\ outbox \in [Kinds -> SUBSET Lease]
    /\ \A k \in Kinds : queue[k] \in Seq(Lease) /\ Len(queue[k]) <= QueueDepth
    /\ \A w \in Workers : work[w] \in {Idle, Gone} \/ work[w] \in Busy
    /\ tracked \in [Kinds -> SUBSET Lease]
    /\ beat \in [Kinds -> SUBSET Lease]
    /\ canceled \subseteq Kinds
    /\ stop \in BOOLEAN
    /\ slipped \subseteq Files

\* No job is worked on twice at once: two leases of one job are never in flight
\* together, whatever was retried, released or lapsed in between.
OneHolder ==
    \A k \in Kinds : \A l, m \in InFlight(k) : l.job = m.job => l = m

\* A lease that waits or is processed is tracked, so that the heartbeat keeps
\* it, however often its job has been settled and claimed again.
InFlightIsTracked ==
    \A k \in Kinds \ canceled : \A l \in InFlight(k) :
        l \in tracked[k] \/ \E w \in Workers : At(w, "settle") /\ work[w].lease = l

\* A dependent is failed for want of its metadata only when that metadata has
\* itself failed: not while it may still complete.  (So in frozen runs; in
\* `analyze' a refresh may come between the counts and the failing.)
BlockedByFailure ==
    \A j \in Job : jobs[j].state = "failed" /\ jobs[j].code = "blocked" =>
        \A m \in Job : m.file = j.file /\ m.kind = "metadata" => jobs[m].state = "failed"

\* A heartbeat never finds a lease lost that nobody has taken: the jobs of its
\* snapshot may have been settled since, and that cancels nothing.
HeartbeatLosesNothing ==
    \A k \in Kinds \ canceled : \A l \in beat[k] : ~LostLease(l)

\* A run settles its jobs once, ends, and when it ends well leaves none open.
Run == INSTANCE DiffRun WITH
    Tasks <- Job,
    open <- {j \in Job : <<j, jobs[j].rev>> \in manifest /\ Live(jobs[j])},
    outcome <- IF phase = "analysing" THEN "running"
               ELSE IF canceled = {} /\ \A k \in Kinds : pc[k] = "drained" THEN "drained"
               ELSE "interrupted"

RunsDiff == Run!Spec

\* What two races of `analyze' leave behind: the jobs of a file that a worker
\* refreshed whose lease had lapsed, or been requeued by another refresh, so
\* that its own job kept no dispatcher from returning; and of a file whose
\* metadata was refreshed between a dispatcher's reading that metadata is
\* exhausted and its failing what is blocked.
LeftBehind(j) == ~Frozen /\ j.file \in slipped

\* A run that ends well leaves no job open, the jobs that a refresh has reopened
\* behind the dispatchers included.  With several kinds of dependents, or
\* contracts, that is so in frozen runs only: a dispatcher may have returned when
\* another's worker refreshes.
DrainedIsDone ==
    phase = "closed" /\ canceled = {} /\ (\A k \in Kinds : pc[k] = "drained") =>
        \A j \in Job : Live(jobs[j]) => LeftBehind(j)

\* An analysis that nobody interrupts ends.
AnalysisEnds == phase = "analysing" ~> phase = "closed"

=============================================================================
