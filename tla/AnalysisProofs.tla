--------------------------- MODULE AnalysisProofs ---------------------------
(* What one run of the analysis guarantees, whatever its files, kinds and    *)
(* workers are, and however they fail, stop and are canceled.  What it says  *)
(* of one holder of a job is so while the file has not been refreshed, which *)
(* is all of a frozen run.                                                   *)
EXTENDS Analysis, JobQueueProofs

-----------------------------------------------------------------------------
(* The inductive invariant *)

\* The job's file is still as the scan found it.
Fresh(j) == files[j.file] = 1

\* A row follows its file.  In a frozen run nothing is refreshed, and the jobs
\* that are left are the diff's.
RunRows ==
    /\ phase \in {"analysing", "closed"}
    /\ phase = "analysing" => scope = (IF Frozen THEN Diff ELSE Everything)
    /\ files \in [Files -> Revs]
    /\ \A j \in Job :
        /\ jobs[j].rev = files[j.file]
        /\ jobs[j].state \in {"pending", "leased", "completed", "failed"}
        /\ Frozen => Fresh(j) /\ (Live(jobs[j]) => <<j, 1>> \in manifest)

\* The types of what the goroutines share.
RunTypes ==
    /\ pc \in [Kinds -> Returned \cup {"claim", "send", "count", "finalize", "recount"}]
    /\ outbox \in [Kinds -> SUBSET Lease]
    /\ queue \in [Kinds -> Seq(Lease)]
    /\ \A k \in Kinds : Len(queue[k]) <= QueueDepth
    /\ work \in [Workers -> {Idle, Gone} \cup Busy]
    /\ tracked \in [Kinds -> SUBSET Lease]
    /\ beat \in [Kinds -> SUBSET Lease]
    /\ canceled \subseteq Kinds
    /\ stop \in BOOLEAN
    /\ slipped \subseteq Files

\* A lease on its way is held, and holds the row of a fresh file, in time.
Flies(l) ==
    /\ phase = "analysing" => l \in held
    /\ Fresh(l.job) => Owns(l) /\ ~jobs[l.job].lapsed

Tracked(l, k) == Fresh(l.job) => l \in tracked[k]

\* Wherever a lease is, it is of that kind, and tracked until it is settled.
FlightHolds ==
    /\ \A k \in Kinds : \A l \in outbox[k] : Flies(l) /\ l.job.kind = k /\ Tracked(l, k)
    /\ \A k \in Kinds : \A i \in DOMAIN queue[k] :
        Flies(queue[k][i]) /\ queue[k][i].job.kind = k /\ Tracked(queue[k][i], k)
    /\ \A w \in Workers : Unsettled(w) =>
        /\ Flies(work[w].lease) /\ work[w].lease.job.kind = KindOf[w]
        /\ At(w, "settle") \/ Tracked(work[w].lease, KindOf[w])

\* Two leases; and, of a fresh file, of two jobs.
Apart(l, m) == l # m /\ (Fresh(l.job) => l.job # m.job)

\* A lease is in one place only.
PlacesDiffer ==
    /\ \A k \in Kinds : \A l, m \in outbox[k] : l = m
    /\ \A k \in Kinds : \A l \in outbox[k] : \A i \in DOMAIN queue[k] : Apart(queue[k][i], l)
    /\ \A w \in Workers : Unsettled(w) =>
        /\ \A l \in outbox[KindOf[w]] : Apart(work[w].lease, l)
        /\ \A i \in DOMAIN queue[KindOf[w]] : Apart(work[w].lease, queue[KindOf[w]][i])
    /\ \A v, w \in Workers : Unsettled(v) /\ Unsettled(w) /\ v # w =>
        Apart(work[v].lease, work[w].lease)

\* What the places of dispatchers and workers say.
PlacesMean ==
    /\ \A k \in Kinds : outbox[k] # {} => pc[k] = "send"
    /\ \A w \in Workers :
        /\ At(w, "settle") => work[w].then # "none"
        /\ At(w, "remove") /\ work[w].then = "none" /\ Fresh(work[w].lease.job)
             => jobs[work[w].lease.job].state = "completed"

\* A file has one job of metadata, and one that depends on it, at most.
OneOfEach ==
    \A i, j \in Job : i.file = j.file /\ (i.kind = "metadata" <=> j.kind = "metadata") => i = j

\* A dispatcher that has returned leaves nothing live of a fresh file; and of one
\* that was refreshed, without either race, at most metadata that its dependent's
\* worker refreshed.
DrainedMeans ==
    \A j \in Job : pc[j.kind] = "drained" /\ Live(jobs[j]) =>
        /\ ~Fresh(j)
        /\ OneOfEach => \/ j.file \in slipped
                        \/ j.kind = "metadata" /\ \E d \in Job : d.file = j.file /\ d.kind # "metadata"

\* Once metadata was found exhausted, none is live of a fresh file.
MetadataIsOver ==
    exhausted # {} => \A m \in Job : m.kind = "metadata" /\ Live(jobs[m]) => ~Fresh(m)

\* BlockedByFailure, of fresh files.
BlockedFresh ==
    \A j \in Job : Fresh(j) /\ jobs[j].state = "failed" /\ jobs[j].code = "blocked" =>
        \A m \in Job : m.file = j.file /\ m.kind = "metadata" => jobs[m].state = "failed"

\* While metadata is live its dependent is pending, unless it was failed too early.
DependentsWait ==
    OneOfEach => \A m, d \in Job :
        m.file = d.file /\ m.kind = "metadata" /\ d.kind # "metadata" /\ Live(jobs[m]) =>
            jobs[d].state = "pending" \/ d.file \in slipped

AInv ==
    /\ TypeOK /\ Seen /\ Fences /\ EligibleExact
    /\ RunRows /\ RunTypes /\ FlightHolds /\ PlacesDiffer /\ PlacesMean
    /\ DrainedMeans /\ MetadataIsOver /\ BlockedFresh /\ DependentsWait

USE AnalysisAssumption
USE DEF QueueDepth, avars, run

\* A worker that is busy has a lease.
LEMMA BusyHasLease ==
    ASSUME AInv, NEW w \in Workers, work[w].step \in {"process", "remove", "settle"}
    PROVE  /\ work[w] \in Busy /\ work[w].lease \in Lease /\ work[w].lease.job \in Job
           /\ KindOf[w] \in Kinds
  BY DEF AInv, RunTypes, Busy, Idle, Gone, Lease

\* A lease on its way is held.
LEMMA UnsettledIsHeld ==
    ASSUME AInv, phase = "analysing", NEW w \in Workers, Unsettled(w)
    PROVE  work[w].lease \in held
  BY DEF AInv, FlightHolds, Flies

\* Everything a run does to the queue but renewing its leases is a step of the
\* queue.
LEMMA RunIsQueue ==
    ASSUME AInv, [ANext]_avars, \A k \in Kinds : ~RenewJobs(k)
    PROVE  [Next]_vars
  <1>2. ASSUME NEW k \in Kinds, Dispatch(k)
        PROVE  [Next]_vars
    <2>1. CASE StopDispatch(k) \/ FailDispatch(k) \/ ClaimNothing(k) \/ Send(k) \/ Recount(k)
      BY <2>1 DEF StopDispatch, FailDispatch, ClaimNothing, Send, Recount
    <2>2. CASE ClaimJob(k)
      BY <2>2 DEF ClaimJob, Next
    <2>3. CASE Count(k)
      BY <2>3 DEF Count, Next
    <2>4. CASE Finalize(k)
      <3>1. k \in Dependents
        BY <2>4 DEF Finalize, FinalizeBlockedKind, AInv, TypeOK
      <3> QED
        BY <2>4, <3>1 DEF Finalize, Next
    <2> QED
      BY <1>2, <2>1, <2>2, <2>3, <2>4 DEF Dispatch
  <1>3. ASSUME NEW l \in held, Settle(l)
        PROVE  Next
    BY <1>3 DEF Next
  <1>4. ASSUME NEW w \in Workers, Work(w), phase = "analysing"
        PROVE  [Next]_vars
    <2>1. CASE Take(w) \/ Fail(w) \/ Remove(w) \/ GiveUp(w)
      BY <2>1 DEF Take, Fail, Remove, GiveUp
    <2>2. CASE Complete(w)
      <3>1. work[w].lease \in held
        BY <1>4, <2>2, UnsettledIsHeld DEF Complete, Unsettled
      <3>2. CommitJob(work[w].lease)
        BY <2>2 DEF Complete
      <3> QED
        BY <1>3, <3>1, <3>2 DEF Settle
    <2>3. CASE SettleJob(w)
      <3>1. work[w].then # "none" /\ At(w, "settle")
        BY <2>3 DEF SettleJob, AInv, PlacesMean
      <3>2. work[w].lease \in held
        BY <1>4, <3>1, UnsettledIsHeld DEF Unsettled, At
      <3>3. work[w].then \in {"retry", "fail", "release"}
        BY <3>1, BusyHasLease DEF At, Busy, Then
      <3>4. \/ FailJob(work[w].lease, "transient", TRUE)
            \/ FailJob(work[w].lease, "permanent", FALSE)
            \/ ReleaseJob(work[w].lease)
        BY <2>3, <3>3 DEF SettleJob
      <3> QED
        BY <1>3, <3>2, <3>4 DEF Settle
    <2>4. CASE Refresh(w)
      <3>1. work[w].lease \in held
        BY <1>4, <2>4, UnsettledIsHeld DEF Refresh, Unsettled
      <3>2. \E r \in Revs : RefreshFileRevision(work[w].lease, r)
        BY <2>4 DEF Refresh
      <3> QED
        BY <1>3, <3>1, <3>2 DEF Settle
    <2> QED
      BY <1>4, <2>1, <2>2, <2>3, <2>4 DEF Work
  <1>5. ASSUME NEW j \in Job, LapseUntracked(j)
        PROVE  Next
    BY <1>5 DEF LapseUntracked, Next
  <1>6. ASSUME NEW k \in Kinds, Tick(k) \/ CancelRun(k)
        PROVE  UNCHANGED vars
    BY <1>6 DEF Tick, CancelRun
  <1>7. CASE Interrupt \/ RequestStop \/ UNCHANGED avars
    BY <1>7 DEF Interrupt, RequestStop
  <1>8. CASE RunOver
    BY <1>8 DEF RunOver, Next
  <1> QED
    BY <1>2, <1>4, <1>5, <1>6, <1>7, <1>8 DEF ANext, Over

\* Renewing changes no row but when its lease lapses.
LEMMA RenewRows ==
    ASSUME AInv, NEW k \in Kinds, RenewJobs(k)
    PROVE  /\ jobs' \in [Job -> Row]
           /\ \A j \in Job :
                /\ jobs'[j] = jobs[j] \/ jobs'[j] = [jobs[j] EXCEPT !.lapsed = FALSE]
                /\ jobs'[j].rev = jobs[j].rev /\ jobs'[j].state = jobs[j].state
                /\ jobs'[j].fence = jobs[j].fence /\ jobs'[j].code = jobs[j].code
                /\ jobs'[j].attempt = jobs[j].attempt
           /\ UNCHANGED <<phase, want, scope, files, manifest, results, partial, newest, held, exhausted>>
           /\ Triggers \/ UNCHANGED vars
           /\ UNCHANGED <<pc, outbox, queue, work, tracked, stop>>
  <1>1. jobs \in [Job -> Row]
    BY DEF AInv, TypeOK
  <1>2. \/ jobs' = [j \in Job |-> IF \E l \in beat[k] : l.job = j /\ Owns(l)
                                    THEN [jobs[j] EXCEPT !.lapsed = FALSE] ELSE jobs[j]]
        \/ jobs' = jobs
    BY DEF RenewJobs, vars
  <1>3. \A j \in Job : jobs'[j] = jobs[j] \/ jobs'[j] = [jobs[j] EXCEPT !.lapsed = FALSE]
    BY <1>2
  <1>4. jobs' = [j \in Job |-> jobs'[j]]
    BY <1>1, <1>2
  <1>5. \A row \in Row : /\ [row EXCEPT !.lapsed = FALSE] \in Row
                         /\ [row EXCEPT !.lapsed = FALSE].rev = row.rev
                         /\ [row EXCEPT !.lapsed = FALSE].state = row.state
                         /\ [row EXCEPT !.lapsed = FALSE].fence = row.fence
                         /\ [row EXCEPT !.lapsed = FALSE].code = row.code
                         /\ [row EXCEPT !.lapsed = FALSE].attempt = row.attempt
    BY DEF Row
  <1>6. jobs' \in [Job -> Row]
    BY <1>1, <1>3, <1>4, <1>5
  <1> QED
    BY <1>1, <1>3, <1>5, <1>6 DEF RenewJobs, vars

\* The queue's own invariants hold in a run.
LEMMA QueueKept ==
    ASSUME AInv, [ANext]_avars
    PROVE  TypeOK' /\ Seen' /\ Fences' /\ EligibleExact'
  <1>1. TypeOK /\ Seen /\ Fences /\ EligibleExact
    BY DEF AInv
  <1>2. CASE \A k \in Kinds : ~RenewJobs(k)
    BY <1>1, <1>2, RunIsQueue, TypeStep, RowStep, FencesStep, ExactStep
  <1>3. ASSUME NEW k \in Kinds, RenewJobs(k)
        PROVE  TypeOK' /\ Seen' /\ Fences' /\ EligibleExact'
    <2>1. CASE UNCHANGED vars
      BY <1>1, <2>1, TypeStep, RowStep, FencesStep, ExactStep
    <2>2. CASE Triggers
      <3>1. EligibleExact'
        BY <1>1, <1>3, <2>2, RenewRows, TriggersExact
      <3>2. eligible' \subseteq Entry
        BY <1>1, <2>2, TriggersTyped DEF TypeOK
      <3>3. TypeOK'
        BY <1>1, <1>3, <3>2, RenewRows DEF TypeOK
      <3>4. Seen'
        BY <1>1, <1>3, RenewRows DEF Seen
      <3>5. held' = held /\ \A l \in held : l.job \in Job
        BY <1>1, <1>3, RenewRows DEF TypeOK, Lease
      <3>6. Fences'
        BY <1>1, <1>3, <3>5, RenewRows, FencesKept
      <3> QED
        BY <3>1, <3>3, <3>4, <3>6
    <2> QED
      BY <1>3, <2>1, <2>2, RenewRows
  <1> QED
    BY <1>2, <1>3

-----------------------------------------------------------------------------
(* The first state *)

\* A run starts with nothing on its way.
LEMMA AInvInit == AInit => AInv
  <1> SUFFICES ASSUME AInit PROVE AInv
    OBVIOUS
  <1> PICK past \in Pasts, w \in Commands :
        /\ phase = "analysing"
        /\ want = w
        /\ scope = IF Frozen THEN Diff ELSE Everything
        /\ files = [f \in Files |-> 1]
        /\ jobs = [j \in Job |-> Left(j.file, past[j.file])[j]]
        /\ manifest = IF Frozen THEN {<<j, 1>> : j \in {i \in Job : jobs[i].state = "pending"}}
                                ELSE {}
        /\ eligible = Rebuilt(jobs, manifest)
        /\ results = [j \in Job |-> IF jobs[j].state = "completed" THEN 1 ELSE None]
        /\ partial = [j \in Job |-> None]
        /\ newest = [f \in Files |->
                       IF past[f] = "completed"
                         THEN CHOOSE j \in Job : j.file = f /\ j.kind = "metadata"
                         ELSE NoJob]
        /\ held = {}
        /\ exhausted = {}
        /\ pc = [k \in Kinds |-> "claim"]
        /\ outbox = [k \in Kinds |-> {}]
        /\ queue = [k \in Kinds |-> <<>>]
        /\ work = [w0 \in Workers |-> Idle]
        /\ tracked = [k \in Kinds |-> {}]
        /\ beat = [k \in Kinds |-> {}]
        /\ canceled = {}
        /\ stop = FALSE
        /\ slipped = {}
    BY DEF AInit
  <1>1. past \in [Files -> {"new", "completed", "failed"}]
    OBVIOUS
  <1>2. ASSUME NEW j \in Job
        PROVE  /\ jobs[j] \in Row /\ jobs[j].rev = 1 /\ jobs[j].code # "blocked"
               /\ jobs[j].state \in {"pending", "completed", "failed"}
               /\ j.kind # "metadata" => jobs[j].state = "pending"
    <2>1. j.file \in Files
      BY DEF Job
    <2>2. jobs[j] = IF j.kind # "metadata" \/ past[j.file] = "new"
                      THEN [NoRow EXCEPT !.rev = 1, !.state = "pending"]
                      ELSE [NoRow EXCEPT !.rev = 1, !.state = past[j.file], !.attempt = 1,
                              !.fence = IF past[j.file] = "completed" THEN 1 ELSE 0,
                              !.code = IF past[j.file] = "failed" THEN "permanent" ELSE ""]
      BY DEF Left
    <2>3. 0 \in 0..MaxAttempt /\ 1 \in 0..MaxAttempt /\ MaxAttempt \in Nat
      BY BoundAssumption
    <2>4. NoRow \in Row /\ NoRow.code = ""
      BY ZeroBound DEF NoRow, Row, JobState, Code, None
    <2>5. CASE j.kind # "metadata" \/ past[j.file] = "new"
      BY <2>2, <2>4, <2>5 DEF Row, JobState
    <2>6. CASE ~(j.kind # "metadata" \/ past[j.file] = "new")
      <3>1. past[j.file] \in {"completed", "failed"}
        BY <1>1, <2>1, <2>6
      <3>2. CASE past[j.file] = "completed"
        <4>1. jobs[j] = [NoRow EXCEPT !.rev = 1, !.state = "completed", !.attempt = 1,
                                      !.fence = 1, !.code = ""]
          BY <2>2, <2>6, <3>2
        <4> QED
          BY <2>3, <2>4, <2>6, <4>1 DEF Row, JobState, Code
      <3>3. CASE past[j.file] = "failed"
        <4>1. jobs[j] = [NoRow EXCEPT !.rev = 1, !.state = "failed", !.attempt = 1,
                                      !.fence = 0, !.code = "permanent"]
          BY <2>2, <2>6, <3>3
        <4> QED
          BY <2>3, <2>4, <2>6, <4>1 DEF Row, JobState, Code
      <3> QED
        BY <3>1, <3>2, <3>3
    <2> QED
      BY <2>5, <2>6
  <1>3. jobs \in [Job -> Row]
    BY <1>2
  <1>4. newest \in [Files -> Job \cup {NoJob}]
    <2> SUFFICES ASSUME NEW f \in Files
                 PROVE  \E j \in Job : j.file = f /\ j.kind = "metadata"
      BY Zenon
    <2>1. PICK u \in Commands : TRUE
      BY CommandsAssumption
    <2>2. PICK K \in SUBSET Kinds : "metadata" \in K /\ u \in [K -> Keys]
      BY CommandsAssumption
    <2> DEFINE m == [file |-> f, kind |-> "metadata", key |-> u["metadata"]]
    <2>3. m \in Job /\ m.file = f /\ m.kind = "metadata"
      BY <2>2 DEF Job
    <2> QED
      BY <2>3
  <1>5. manifest \subseteq Job \X Revs
    OBVIOUS
  <1>6. eligible \subseteq Entry
    <2>1. \A f \in Files : Project(jobs, manifest, f) \subseteq Entry
      BY ProjectEntries
    <2> QED
      BY <2>1 DEF Rebuilt
  <1>7. TypeOK
    BY <1>3, <1>4, <1>5, <1>6 DEF TypeOK, Scopes, Diff, None
  <1>8. Seen
    BY <1>2 DEF Seen, None
  <1>9. RunRows
    BY <1>2 DEF RunRows, Live, Fresh, Job
  <1>10. RunTypes
    <2>1. queue \in [Kinds -> Seq(Lease)] /\ \A k \in Kinds : Len(queue[k]) <= 1
      OBVIOUS
    <2>2. work \in [Workers -> {Idle, Gone} \cup Busy]
      OBVIOUS
    <2> QED
      BY <2>1, <2>2 DEF RunTypes, Returned
  <1>11. FlightHolds /\ PlacesDiffer /\ PlacesMean
    BY <1>2 DEF FlightHolds, PlacesDiffer, PlacesMean, Unsettled, At, Idle
  <1>12. DrainedMeans
    BY DEF DrainedMeans, Job
  <1>13. Fences
    BY DEF Fences, FenceMeansLeased
  <1>14. BlockedFresh /\ DependentsWait
    BY <1>2 DEF BlockedFresh, DependentsWait
  <1> QED
    BY <1>7, <1>8, <1>9, <1>10, <1>11, <1>12, <1>13, <1>14
       DEF AInv, EligibleExact, MetadataIsOver

-----------------------------------------------------------------------------
(* What a step does to the rows *)

\* A worker is done with its lease: the commit, the refresh of its file, or the
\* settling call.
Finishes(w) ==
    /\ At(w, "process") \/ At(w, "settle")
    /\ Unsettled(w)
    /\ work' = [work EXCEPT ![w] = work'[w]]
    /\ work'[w] \in {Idle} \cup Busy
    /\ ~Unsettled(w)'
    /\ UNCHANGED <<pc, outbox, queue, tracked, beat, canceled, stop>>
    /\ LET l == work[w].lease IN
         \/ /\ \/ CommitJob(l)
               \/ \E r \in Revs : r > l.rev /\ RefreshFileRevision(l, r)
                                /\ (Owns(l) \/ l.job.file \in slipped')
            /\ work'[w].step = "remove" /\ work'[w].lease = l /\ work'[w].then = "none"
         \/ /\ \/ FailJob(l, "transient", TRUE)
               \/ FailJob(l, "permanent", FALSE)
               \/ ReleaseJob(l)
            /\ work'[w] = Idle

\* A worker that completes, refreshes or settles its job is done with it.
LEMMA FinishesAll ==
    ASSUME AInv, NEW w \in Workers, Complete(w) \/ Refresh(w) \/ SettleJob(w)
    PROVE  Finishes(w)
  <1>1. CASE Complete(w) \/ Refresh(w)
    <2>1. work[w] \in Busy
      BY <1>1, BusyHasLease DEF Complete, Refresh, At
    <2>2. work'[w] = [work[w] EXCEPT !.step = "remove", !.then = "none"]
          /\ work' = [work EXCEPT ![w] = work'[w]]
      BY <1>1 DEF Complete, Refresh, Processed, Does, AInv, RunTypes
    <2>3. /\ work'[w].step = "remove" /\ work'[w].lease = work[w].lease
          /\ work'[w].then = "none" /\ work'[w] \in Busy
      BY <2>1, <2>2 DEF Busy, Then
    <2>4. At(w, "process") /\ UNCHANGED <<pc, outbox, queue, tracked, beat, canceled, stop>>
      BY <1>1 DEF Complete, Refresh, Processed
    <2>5. \/ CommitJob(work[w].lease)
          \/ \E r \in Revs : r > work[w].lease.rev /\ RefreshFileRevision(work[w].lease, r)
                           /\ (Owns(work[w].lease) \/ work[w].lease.job.file \in slipped')
      BY <1>1 DEF Complete, Refresh
    <2>6. Unsettled(w) /\ ~Unsettled(w)'
      BY <2>3, <2>4 DEF Unsettled, At
    <2> DEFINE l == work[w].lease
    <2>7. /\ \/ CommitJob(l)
             \/ \E r \in Revs : r > l.rev /\ RefreshFileRevision(l, r)
                              /\ (Owns(l) \/ l.job.file \in slipped')
          /\ work'[w].step = "remove" /\ work'[w].lease = l /\ work'[w].then = "none"
      BY <2>3, <2>5
    <2> HIDE DEF l
    <2> QED
      BY <2>2, <2>3, <2>4, <2>6, <2>7 DEF Finishes, l
  <1>2. CASE SettleJob(w)
    <2>1. work[w].then # "none" /\ At(w, "settle")
      BY <1>2 DEF SettleJob, AInv, PlacesMean
    <2>2. work[w].then \in {"retry", "fail", "release"}
      BY <2>1, BusyHasLease DEF At, Busy, Then
    <2>3. work'[w] = Idle /\ work' = [work EXCEPT ![w] = work'[w]]
      BY <1>2 DEF SettleJob, Does, AInv, RunTypes
    <2>4. \/ FailJob(work[w].lease, "transient", TRUE)
          \/ FailJob(work[w].lease, "permanent", FALSE)
          \/ ReleaseJob(work[w].lease)
      BY <1>2, <2>2 DEF SettleJob
    <2>5. UNCHANGED <<pc, outbox, queue, tracked, beat, canceled, stop>>
      BY <1>2 DEF SettleJob
    <2>6. ~Unsettled(w)' /\ Unsettled(w)
      BY <2>1, <2>3 DEF Unsettled, At, Idle
    <2> QED
      BY <2>1, <2>3, <2>4, <2>5, <2>6 DEF Finishes
  <1> QED
    BY <1>1, <1>2

\* The steps that touch the queue.
LEMMA QueueSteps ==
    ASSUME AInv, [ANext]_avars
    PROVE  \/ UNCHANGED vars
           \/ /\ phase = "analysing"
              /\ \/ \E k \in Kinds : ClaimJob(k)
                 \/ \E k \in Dependents : ReadMetadataCounts(k) /\ Count(k)
                 \/ \E k \in Kinds : Finalize(k)
                 \/ \E k \in Kinds : RenewJobs(k)
                 \/ \E w \in Workers : Finishes(w)
                 \/ \E j \in Job : LapseUntracked(j)
           \/ RunOver /\ Stopped
  <1>1. ASSUME NEW w \in Workers, phase = "analysing", Work(w)
        PROVE  UNCHANGED vars \/ Finishes(w)
    <2>1. CASE Take(w) \/ Fail(w) \/ Remove(w) \/ GiveUp(w)
      BY <2>1 DEF Take, Fail, Remove, GiveUp
    <2>2. CASE Complete(w) \/ Refresh(w) \/ SettleJob(w)
      BY <2>2, FinishesAll
    <2> QED
      BY <1>1, <2>1, <2>2 DEF Work
  <1>2. ASSUME NEW k \in Kinds, Dispatch(k)
        PROVE  \/ UNCHANGED vars \/ ClaimJob(k) \/ Finalize(k)
               \/ k \in Dependents /\ ReadMetadataCounts(k) /\ Count(k)
    <2>1. CASE StopDispatch(k) \/ FailDispatch(k) \/ ClaimNothing(k) \/ Send(k) \/ Recount(k)
      BY <2>1 DEF StopDispatch, FailDispatch, ClaimNothing, Send, Recount
    <2>2. CASE Count(k)
      BY <2>2 DEF Count
    <2> QED
      BY <1>2, <2>1, <2>2 DEF Dispatch
  <1>3. RunOver => Stopped
    BY DEF RunOver, End
  <1>4. \A k \in Kinds : Tick(k) \/ CancelRun(k) => UNCHANGED vars
    BY DEF Tick, CancelRun
  <1>5. Interrupt \/ RequestStop \/ Over \/ UNCHANGED avars => UNCHANGED vars
    BY DEF Interrupt, RequestStop, Over
  <1> QED
    BY <1>1, <1>2, <1>3, <1>4, <1>5 DEF ANext

\* Only a lease that holds its row settles it.
LEMMA SettlerOwns ==
    ASSUME AInv, NEW w \in Workers, Finishes(w), phase = "analysing",
           NEW l, l = work[w].lease
    PROVE  /\ l \in held /\ l \in Lease /\ l.job \in Job
           /\ l.job.kind = KindOf[w]
           /\ \/ Owns(l) /\ CommitJob(l)
              \/ Owns(l) /\ (FailJob(l, "transient", TRUE) \/ FailJob(l, "permanent", FALSE))
              \/ Owns(l) /\ ReleaseJob(l)
              \/ \E r \in Revs : r > l.rev /\ RefreshFileRevision(l, r)
                               /\ (Owns(l) \/ l.job.file \in slipped')
  <1>1. l \in held /\ l \in Lease /\ l.job \in Job /\ l.job.kind = KindOf[w]
    BY UnsettledIsHeld, BusyHasLease DEF Finishes, AInv, FlightHolds, At
  <1>2. Fenced(l) => Owns(l)
    BY <1>1 DEF AInv, Fences, FenceMeansLeased, Fenced
  <1> QED
    BY <1>1, <1>2 DEF Finishes, CommitJob, FailJob, ReleaseJob

\* A refresh moves a file on, with all its jobs, and touches no other.
LEMMA FileRefreshed ==
    ASSUME AInv, NEW l \in held, NEW r \in Revs, r > l.rev, RefreshFileRevision(l, r)
    PROVE  /\ ~Frozen /\ l.job.file \in Files
           /\ files[l.job.file] = l.rev /\ files[l.job.file] \in Nat \ {0}
           /\ files' = [files EXCEPT ![l.job.file] = r]
           /\ held' = held \ {l} /\ phase' = phase
           /\ \A j \in Job :
                IF j.file = l.job.file
                  THEN /\ jobs'[j].state = "pending" /\ jobs'[j].rev = r
                       /\ files'[j.file] = r /\ files'[j.file] > files[j.file] /\ r # 1
                  ELSE jobs'[j] = jobs[j] /\ files'[j.file] = files[j.file]
  <1>1. TypeOK /\ RunRows
    BY DEF AInv
  <1>2. l \in Lease /\ l.job \in Job /\ l.job.file \in Files
    BY <1>1 DEF TypeOK, Lease, Job
  <1>3. files[l.job.file] = l.rev /\ files \in [Files -> Revs]
    BY <1>1 DEF RefreshFileRevision, RunRows
  <1>4. l.rev \in Nat \ {0} /\ r \in Nat
    BY <1>2, <1>3, RevsAssumption DEF None
  <1>5. ~Frozen
    <2> SUFFICES ASSUME Frozen PROVE FALSE
      OBVIOUS
    <2>1. phase = "analysing" /\ scope = Everything
      BY DEF RefreshFileRevision
    <2>2. scope = Diff
      BY <1>1, <2>1 DEF RunRows
    <2> QED
      BY <2>1, <2>2 DEF Everything, Diff
  <1>6. files' = [files EXCEPT ![l.job.file] = r] /\ held' = held \ {l} /\ phase' = phase
    BY DEF RefreshFileRevision
  <1>7. ASSUME NEW j \in Job
        PROVE  IF j.file = l.job.file
                 THEN /\ jobs'[j].state = "pending" /\ jobs'[j].rev = r
                      /\ files'[j.file] = r /\ files'[j.file] > files[j.file] /\ r # 1
                 ELSE jobs'[j] = jobs[j] /\ files'[j.file] = files[j.file]
    <2>1. jobs[j].rev = files[j.file]
      BY <1>1 DEF RunRows
    <2>2. r # 1
      BY <1>4
    <2> QED
      BY <1>1, <1>2, <1>3, <1>6, <2>1, <2>2, RefreshRows
  <1> QED
    BY <1>2, <1>3, <1>4, <1>5, <1>6, <1>7

\* Without a refresh a row stays at its revision and, once settled, as it is;
\* pending, it waits to be claimable, and only the dispatcher fails it for the
\* want of metadata.
Kept(j) ==
    /\ files'[j.file] = files[j.file] /\ jobs'[j].rev = jobs[j].rev
    /\ jobs'[j].state \in {"pending", "leased", "completed", "failed"}
    /\ ~Live(jobs[j]) => jobs'[j].state = jobs[j].state /\ jobs'[j].code = jobs[j].code
    /\ jobs[j].state = "pending" /\ jobs'[j].state # "pending" =>
         Claimable(j) \/ (jobs'[j].state = "failed" /\ jobs'[j].code = "blocked")
    /\ Live(jobs[j]) /\ jobs'[j].state = "failed" /\ jobs'[j].code = "blocked" =>
         \E k \in Kinds : Finalize(k) /\ phase = "analysing" /\ j.kind = k /\ Blocked(j)

\* A refresh reopens it, at the new revision; a worker does that which holds a
\* job of the file, or the file slips.
Reopened(j) ==
    /\ ~Frozen
    /\ files[j.file] \in Nat \ {0} /\ files'[j.file] \in Nat /\ files'[j.file] > files[j.file]
    /\ jobs'[j].state = "pending" /\ jobs'[j].rev = files'[j.file]
    /\ UNCHANGED pc
    /\ \E w \in Workers : /\ work[w].lease.job \in Job /\ work[w].lease.job.file = j.file
                          /\ Owns(work[w].lease) \/ j.file \in slipped'

\* Nothing else happens to a row.
LEMMA RowsKept ==
    ASSUME AInv, [ANext]_avars, NEW j \in Job
    PROVE  Kept(j) \/ Reopened(j)
  <1>1. jobs \in [Job -> Row] /\ jobs[j] \in Row
        /\ jobs[j].state \in {"pending", "leased", "completed", "failed"}
    BY DEF AInv, TypeOK, RunRows
  <1>2. CASE UNCHANGED vars \/ (RunOver /\ Stopped)
    BY <1>1, <1>2 DEF vars, Stopped, Live, Kept
  <1>3. ASSUME NEW k \in Kinds, ClaimJob(k)
        PROVE  Kept(j)
    <2>1. PICK i \in Job : Claim(i)
      BY <1>3 DEF ClaimJob
    <2>2. CASE i = j
      <3>1. Claimable(j) /\ (jobs[j].state = "pending" \/ jobs[j].state = "leased")
        BY <2>1, <2>2 DEF Claim, Claimable
      <3>2. jobs'[j] = [jobs[j] EXCEPT !.state = "leased", !.attempt = jobs[j].attempt + 1,
                                       !.fence = jobs[j].attempt + 1, !.lapsed = FALSE]
        BY <1>1, <2>1, <2>2 DEF Claim
      <3>3. jobs'[j].state = "leased" /\ jobs'[j].rev = jobs[j].rev
        BY <1>1, <3>2 DEF Row
      <3> QED
        BY <2>1, <3>1, <3>3 DEF Claim, Kept, Live
    <2>3. CASE i # j
      <3>1. jobs'[j] = jobs[j] /\ files' = files
        BY <1>1, <2>1, <2>3 DEF Claim
      <3> QED
        BY <1>1, <3>1 DEF Kept, Live
    <2> QED
      BY <2>2, <2>3
  <1>4. ASSUME NEW k \in Kinds, Finalize(k), phase = "analysing"
        PROVE  Kept(j)
    <2>1. files' = files /\ jobs'[j] = IF j.kind = k /\ Blocked(j)
                                         THEN [jobs[j] EXCEPT !.state = "failed", !.code = "blocked"]
                                         ELSE jobs[j]
      BY <1>4 DEF Finalize, FinalizeBlockedKind
    <2>2. CASE j.kind = k /\ Blocked(j)
      <3>1. jobs[j].state = "pending"
        BY <2>2 DEF Blocked
      <3>2. jobs'[j].state = "failed" /\ jobs'[j].code = "blocked" /\ jobs'[j].rev = jobs[j].rev
        BY <1>1, <2>1, <2>2 DEF Row
      <3> QED
        BY <1>4, <2>1, <2>2, <3>1, <3>2 DEF Kept, Live
    <2>3. CASE ~(j.kind = k /\ Blocked(j))
      BY <1>1, <2>1, <2>3 DEF Kept, Live
    <2> QED
      BY <2>2, <2>3
  <1>5. ASSUME NEW k \in Kinds, RenewJobs(k)
        PROVE  Kept(j)
    BY <1>1, <1>5, RenewRows DEF Kept, Live
  <1>6. ASSUME NEW w \in Workers, Finishes(w), phase = "analysing"
        PROVE  Kept(j) \/ Reopened(j)
    <2> DEFINE l == work[w].lease
    <2>0. l \in held /\ l \in Lease /\ l.job \in Job
      BY <1>6, SettlerOwns
    <2>1. CASE Owns(l) /\ CommitJob(l)
      <3>1. files' = files /\ jobs' = [jobs EXCEPT ![l.job] = [jobs[l.job] EXCEPT
                                          !.state = "completed", !.lapsed = FALSE]]
        BY <2>1 DEF CommitJob
      <3>2. CASE j = l.job
        <4>1. jobs'[j].state = "completed" /\ jobs'[j].rev = jobs[j].rev /\ jobs[j].state = "leased"
          BY <1>1, <2>1, <3>1, <3>2 DEF Owns, Row
        <4> QED
          BY <3>1, <4>1 DEF Kept, Live
      <3>3. CASE j # l.job
        BY <1>1, <3>1, <3>3 DEF Kept, Live
      <3> QED
        BY <3>2, <3>3
    <2>2. CASE Owns(l) /\ (FailJob(l, "transient", TRUE) \/ FailJob(l, "permanent", FALSE))
      <3>1. PICK code \in {"transient", "permanent"}, retry \in BOOLEAN :
              files' = files /\ jobs' = [jobs EXCEPT ![l.job] = Failed(jobs[l.job], code, retry)]
        BY <2>2 DEF FailJob
      <3>2. CASE j = l.job
        <4>1. jobs'[j] = Failed(jobs[j], code, retry) /\ jobs[j].state = "leased"
          BY <1>1, <2>2, <3>1, <3>2 DEF Owns
        <4>2. jobs'[j].rev = jobs[j].rev /\ jobs'[j].code = code
              /\ jobs'[j].state \in {"pending", "failed"}
          BY <1>1, <4>1 DEF Failed, Row
        <4> QED
          BY <3>1, <4>1, <4>2 DEF Kept, Live
      <3>3. CASE j # l.job
        BY <1>1, <3>1, <3>3 DEF Kept, Live
      <3> QED
        BY <3>2, <3>3
    <2>3. CASE Owns(l) /\ ReleaseJob(l)
      <3>1. files' = files /\ jobs' = [jobs EXCEPT ![l.job] = Requeued(jobs[l.job])]
        BY <2>3 DEF ReleaseJob
      <3>2. CASE j = l.job
        <4>1. jobs'[j] = Requeued(jobs[j]) /\ jobs[j].state = "leased"
          BY <1>1, <2>3, <3>1, <3>2 DEF Owns
        <4>2. jobs'[j].rev = jobs[j].rev /\ jobs'[j].state = "pending"
          BY <1>1, <4>1, RequeuedRow
        <4> QED
          BY <3>1, <4>1, <4>2 DEF Kept, Live
      <3>3. CASE j # l.job
        BY <1>1, <3>1, <3>3 DEF Kept, Live
      <3> QED
        BY <3>2, <3>3
    <2>4. ASSUME NEW r \in Revs, r > l.rev, RefreshFileRevision(l, r),
                 Owns(l) \/ l.job.file \in slipped'
          PROVE  Kept(j) \/ Reopened(j)
      <3> HIDE DEF l
      <3>1. /\ ~Frozen /\ files[l.job.file] \in Nat \ {0}
            /\ IF j.file = l.job.file
                 THEN /\ jobs'[j].state = "pending" /\ jobs'[j].rev = r
                      /\ files'[j.file] = r /\ files'[j.file] > files[j.file]
                 ELSE jobs'[j] = jobs[j] /\ files'[j.file] = files[j.file]
        BY <2>0, <2>4, FileRefreshed
      <3>2. CASE j.file # l.job.file
        BY <1>1, <3>1, <3>2 DEF Kept, Live
      <3>3. CASE j.file = l.job.file
        <4>1. UNCHANGED pc
          BY <1>6 DEF Finishes
        <4>2. r \in Nat
          BY RevsAssumption
        <4> QED
          BY <2>0, <2>4, <3>1, <3>3, <4>1, <4>2 DEF Reopened, l
      <3> QED
        BY <3>2, <3>3
    <2> QED
      BY <1>6, <2>1, <2>2, <2>3, <2>4, SettlerOwns
  <1>7. ASSUME NEW i \in Job, LapseUntracked(i)
        PROVE  Kept(j)
    <2>1. files' = files /\ jobs'[j].rev = jobs[j].rev /\ jobs'[j].state = jobs[j].state
          /\ jobs'[j].code = jobs[j].code
      BY <1>1, <1>7 DEF LapseUntracked, Lapse, Row
    <2> QED
      BY <1>1, <2>1 DEF Kept, Live
  <1>8. ASSUME NEW k \in Kinds, ReadMetadataCounts(k)
        PROVE  Kept(j)
    BY <1>1, <1>8 DEF ReadMetadataCounts, Kept, Live
  <1> QED
    BY <1>2, <1>3, <1>4, <1>5, <1>6, <1>7, <1>8, QueueSteps DEF Dependents

\* A file that is fresh after a step was so before, and its rows are kept.
LEMMA FreshKept ==
    ASSUME AInv, [ANext]_avars, NEW j \in Job, Fresh(j)'
    PROVE  Fresh(j) /\ Kept(j)
  BY RowsKept DEF Fresh, Kept, Reopened

\* The counts see every live job: all of them, or in a frozen run those that are
\* in the projection, which is exact, and so all that are in the manifest.
LEMMA CountsSeeLive ==
    ASSUME AInv, phase = "analysing", NEW k \in Kinds,
           Counted(k, {"pending", "leased"}) = {}
    PROVE  \A j \in Job : j.kind = k => ~Live(jobs[j])
  <1> SUFFICES ASSUME NEW j \in Job, j.kind = k, Live(jobs[j])
               PROVE  FALSE
    OBVIOUS
  <1>1. jobs[j].state \in {"pending", "leased"}
    BY DEF Live
  <1>2. CASE scope # Diff
    <2>1. j \in Counted(k, {"pending", "leased"})
      BY <1>1, <1>2 DEF Counted
    <2> QED
      BY <2>1
  <1>3. CASE scope = Diff
    <2> DEFINE e == [scope |-> Diff, job |-> j, ready |-> Ready(jobs, j), state |-> jobs[j].state]
    <2>1. Frozen
      BY <1>3 DEF AInv, RunRows, Everything, Diff
    <2>2. jobs[j].rev = 1 /\ <<j, 1>> \in manifest
      BY <2>1 DEF AInv, RunRows, Fresh
    <2>3. Ready(jobs, j) \in BOOLEAN
      BY DEF Ready, PrerequisiteDone
    <2>4. e \in Entry /\ e.job = j /\ e.scope = Diff
      BY <1>1, <2>3 DEF Entry, Scopes
    <2>5. e \in Rebuilt(jobs, manifest)
      BY <1>1, <2>2, <2>3, <2>4, RebuiltSays DEF Says, InScope, Live
    <2>6. j \in Counted(k, {"pending", "leased"})
      BY <1>1, <2>4, <2>5 DEF Counted, AInv, EligibleExact
    <2> QED
      BY <2>6
  <1> QED
    BY <1>2, <1>3

\* A frozen run stays one, and rows follow their files.
LEMMA RunRowsStep ==
    ASSUME AInv, [ANext]_avars
    PROVE  RunRows'
  <1>0. RunRows /\ files \in [Files -> Revs]
    BY DEF AInv, RunRows
  <1>1. /\ UNCHANGED <<phase, scope, manifest>> \/ (phase' = "closed" /\ manifest' = manifest)
        /\ files' \in [Files -> Revs]
    <2>1. CASE UNCHANGED vars \/ (RunOver /\ Stopped)
      BY <1>0, <2>1 DEF vars, Stopped
    <2>2. ASSUME NEW k \in Kinds, ClaimJob(k) \/ Finalize(k)
          PROVE  UNCHANGED <<phase, scope, manifest, files>>
      BY <2>2 DEF ClaimJob, Claim, Finalize, FinalizeBlockedKind
    <2>3. ASSUME NEW k \in Kinds, RenewJobs(k) \/ ReadMetadataCounts(k)
          PROVE  UNCHANGED <<phase, scope, manifest, files>>
      BY <2>3, RenewRows DEF ReadMetadataCounts
    <2>4. ASSUME NEW w \in Workers, Finishes(w)
          PROVE  UNCHANGED <<phase, scope, manifest>> /\ files' \in [Files -> Revs]
      <3>1. \A l : \/ CommitJob(l) \/ ReleaseJob(l)
                   \/ FailJob(l, "transient", TRUE) \/ FailJob(l, "permanent", FALSE)
                   => UNCHANGED <<phase, scope, manifest, files>>
        BY DEF CommitJob, FailJob, ReleaseJob
      <3>2. \A l : \A r \in Revs : RefreshFileRevision(l, r) =>
                UNCHANGED <<phase, scope, manifest>> /\ files' \in [Files -> Revs]
        BY <1>0 DEF RefreshFileRevision
      <3> QED
        BY <1>0, <2>4, <3>1, <3>2 DEF Finishes
    <2>5. ASSUME NEW j \in Job, LapseUntracked(j)
          PROVE  UNCHANGED <<phase, scope, manifest, files>>
      BY <2>5 DEF LapseUntracked, Lapse
    <2> QED
      BY <1>0, <2>1, <2>2, <2>3, <2>4, <2>5, QueueSteps DEF Dependents
  <1>2. ASSUME NEW j \in Job
        PROVE  /\ jobs'[j].rev = files'[j.file]
               /\ jobs'[j].state \in {"pending", "leased", "completed", "failed"}
               /\ Frozen => Fresh(j)' /\ (Live(jobs'[j]) => Live(jobs[j]))
    <2>1. jobs[j].rev = files[j.file] /\ (Frozen => Fresh(j))
      BY <1>0 DEF RunRows
    <2>2. CASE Kept(j)
      BY <2>1, <2>2 DEF Kept, Live, Fresh
    <2>3. CASE Reopened(j)
      BY <2>3 DEF Reopened
    <2> QED
      BY <2>2, <2>3, RowsKept
  <1>3. \A j \in Job : Frozen => (Live(jobs'[j]) => <<j, 1>> \in manifest')
    BY <1>0, <1>1, <1>2 DEF RunRows
  <1>4. phase' \in {"analysing", "closed"}
        /\ (phase' = "analysing" => scope' = (IF Frozen THEN Diff ELSE Everything))
    BY <1>0, <1>1 DEF RunRows
  <1> QED
    BY <1>1, <1>2, <1>3, <1>4 DEF RunRows, Live, Fresh

\* Metadata is found exhausted when none is live, and none of fresh files
\* becomes so again.
LEMMA MetadataStep ==
    ASSUME AInv, [ANext]_avars
    PROVE  MetadataIsOver'
  <1>1. \A m \in Job : Live(jobs[m])' /\ Fresh(m)' => Live(jobs[m]) /\ Fresh(m)
    BY FreshKept DEF Kept, Live
  <1>2. CASE exhausted' \subseteq exhausted
    BY <1>1, <1>2 DEF AInv, MetadataIsOver
  <1>3. ASSUME NEW k \in Dependents, ReadMetadataCounts(k)
        PROVE  MetadataIsOver'
    BY <1>1, <1>3, CountsSeeLive, KindsAssumption
       DEF MetadataIsOver, ReadMetadataCounts, MetadataExhausted
  <1>4. UNCHANGED vars \/ (RunOver /\ Stopped) => exhausted' \subseteq exhausted
    BY DEF vars, Stopped
  <1>5. \A k \in Kinds : ClaimJob(k) \/ Finalize(k) \/ RenewJobs(k) => exhausted' \subseteq exhausted
    BY RenewRows DEF ClaimJob, Claim, Finalize, FinalizeBlockedKind
  <1>6. \A w \in Workers : Finishes(w) => exhausted' \subseteq exhausted
    BY DEF Finishes, CommitJob, FailJob, ReleaseJob, RefreshFileRevision
  <1>7. \A j \in Job : LapseUntracked(j) => exhausted' \subseteq exhausted
    BY DEF LapseUntracked, Lapse
  <1> QED
    BY <1>2, <1>3, <1>4, <1>5, <1>6, <1>7, QueueSteps

\* What finalizing fails, of a fresh file, has its metadata failed: none of it is
\* completed at the row's revision, and none is live.
LEMMA BlockedStep ==
    ASSUME AInv, [ANext]_avars
    PROVE  BlockedFresh'
  <1> SUFFICES ASSUME NEW j \in Job, Fresh(j)', jobs'[j].state = "failed", jobs'[j].code = "blocked",
                      NEW m \in Job, m.file = j.file, m.kind = "metadata"
               PROVE  jobs'[m].state = "failed"
    BY DEF BlockedFresh, Fresh
  <1>0. Fresh(j) /\ Kept(j) /\ Fresh(m) /\ Kept(m)
    BY FreshKept DEF Fresh
  <1>1. jobs[m].state = "failed" => jobs'[m].state = "failed"
    BY <1>0 DEF Kept, Live
  <1>2. CASE ~Live(jobs[j])
    BY <1>0, <1>1, <1>2 DEF Kept, AInv, BlockedFresh
  <1>3. CASE Live(jobs[j])
    <2>1. PICK k \in Kinds : Finalize(k) /\ phase = "analysing" /\ Blocked(j)
      BY <1>0, <1>3 DEF Kept
    <2>2. exhausted # {} /\ jobs[m].rev = jobs[j].rev
      BY <2>1 DEF Finalize, FinalizeBlockedKind, AInv, RunRows
    <2>3. ~PrerequisiteDone(jobs, j)
      <3>1. CASE scope = Everything
        BY <2>1, <3>1 DEF Blocked
      <3>2. CASE scope # Everything
        <4>1. PICK e \in eligible : e.job = j /\ ~e.ready
          BY <2>1, <3>2 DEF Blocked
        <4>2. ~Ready(jobs, j)
          BY <4>1, RebuiltSays DEF AInv, EligibleExact, Says
        <4> QED
          BY <4>2 DEF Ready
      <3> QED
        BY <3>1, <3>2
    <2>4. ~Live(jobs[m])
      BY <1>0, <2>2 DEF AInv, MetadataIsOver
    <2>5. jobs[m].state = "failed"
      BY <2>2, <2>3, <2>4 DEF PrerequisiteDone, AInv, RunRows, Live
    <2> QED
      BY <1>1, <2>5
  <1> QED
    BY <1>2, <1>3

\* What has slipped stays so.
LEMMA SlippedStays ==
    ASSUME [ANext]_avars
    PROVE  slipped \subseteq slipped'
  <1>1. \A k \in Kinds : Dispatch(k) => slipped \subseteq slipped'
    BY DEF Dispatch, StopDispatch, FailDispatch, ClaimJob, ClaimNothing, Send, Count, Finalize, Recount
  <1>2. \A w \in Workers : Work(w) => slipped \subseteq slipped'
    BY DEF Work, Take, Complete, Fail, Refresh, Remove, SettleJob, GiveUp
  <1>3. \A k \in Kinds : Tick(k) \/ RenewJobs(k) \/ CancelRun(k) => UNCHANGED slipped
    BY DEF Tick, RenewJobs, CancelRun
  <1>4. (\E j \in Job : LapseUntracked(j)) \/ Interrupt \/ RequestStop \/ RunOver \/ Over
          \/ UNCHANGED avars => UNCHANGED slipped
    BY DEF LapseUntracked, Interrupt, RequestStop, RunOver, Over
  <1> QED
    BY <1>1, <1>2, <1>3, <1>4 DEF ANext

\* A dependent is not claimable while its metadata is live, and failing it for the
\* want of it is what makes the file slip.
LEMMA WaitStep ==
    ASSUME AInv, [ANext]_avars
    PROVE  DependentsWait'
  <1> SUFFICES ASSUME OneOfEach, NEW m \in Job, NEW d \in Job, m.file = d.file,
                      m.kind = "metadata", d.kind # "metadata", Live(jobs'[m])
               PROVE  jobs'[d].state = "pending" \/ d.file \in slipped'
    BY DEF DependentsWait, OneOfEach, Live
  <1>1. CASE Reopened(d)
    BY <1>1 DEF Reopened
  <1>2. CASE Kept(d)
    <2>1. Kept(m)
      <3>1. files'[m.file] = files[m.file]
        BY <1>2 DEF Kept
      <3>2. ~Reopened(m)
        BY <3>1 DEF Reopened
      <3> QED
        BY <3>2, RowsKept
    <2>2. Live(jobs[m])
      BY <2>1 DEF Kept, Live
    <2>4. CASE jobs[d].state # "pending"
      <3>1. d.file \in slipped
        BY <2>2, <2>4 DEF AInv, DependentsWait
      <3> QED
        BY <3>1, SlippedStays
    <2>5. CASE jobs[d].state = "pending"
      <3>1. ~Claimable(d)
        <4> SUFFICES ASSUME Claimable(d) PROVE FALSE
          OBVIOUS
        <4>1. PICK e \in eligible : e.job = d /\ e.ready
          BY DEF Claimable
        <4>2. Ready(jobs, d)
          BY <4>1, RebuiltSays DEF AInv, EligibleExact, Says
        <4>3. PICK i \in Job : i.file = d.file /\ i.kind = "metadata" /\ jobs[i].state = "completed"
          BY <4>2 DEF Ready, PrerequisiteDone
        <4>4. i = m
          BY <4>3 DEF OneOfEach
        <4> QED
          BY <2>2, <4>3, <4>4 DEF Live
      <3>2. CASE jobs'[d].state # "pending"
        <4>1. jobs'[d].state = "failed" /\ jobs'[d].code = "blocked" /\ Live(jobs[d])
          BY <1>2, <2>5, <3>1, <3>2 DEF Kept, Live
        <4>2. PICK k \in Kinds : Finalize(k) /\ d.kind = k /\ Blocked(d)
          BY <1>2, <4>1 DEF Kept
        <4>3. FailedEarly(d)
          BY <2>2, <4>2 DEF FailedEarly
        <4> QED
          BY <4>2, <4>3 DEF Finalize
      <3> QED
        BY <3>2
    <2> QED
      BY <2>4, <2>5
  <1> QED
    BY <1>1, <1>2, RowsKept

-----------------------------------------------------------------------------
(* Where the leases go *)

\* A send puts the dispatcher's lease into a channel that was empty.
LEMMA SendMoves ==
    ASSUME AInv, NEW k \in Kinds, Send(k)
    PROVE  \E l \in outbox[k] :
             /\ l \in Lease
             /\ queue[k] = <<>>
             /\ queue' = [queue EXCEPT ![k] = <<l>>]
  <1>1. PICK l \in outbox[k] : queue' = [queue EXCEPT ![k] = Append(queue[k], l)]
    BY DEF Send
  <1>2. queue[k] \in Seq(Lease) /\ Len(queue[k]) \in Nat /\ Len(queue[k]) < 1 /\ l \in Lease
    BY DEF Send, AInv, RunTypes
  <1>3. queue[k] = <<>>
    BY <1>2
  <1>4. Append(queue[k], l) = <<l>>
    BY <1>2, <1>3
  <1> QED
    BY <1>1, <1>2, <1>3, <1>4

\* A channel holds one item at most.
LEMMA OneItem ==
    ASSUME NEW S, NEW q \in Seq(S), Len(q) <= 1, q # <<>>
    PROVE  /\ DOMAIN q = {1} /\ q[1] \in S /\ Head(q) = q[1]
           /\ Tail(q) = <<>>
  <1>1. Len(q) \in Nat /\ Len(q) # 0
    OBVIOUS
  <1>2. Len(q) = 1
    <2>1. \A n \in Nat : n # 0 /\ n <= 1 => n = 1
      OBVIOUS
    <2> QED
      BY <1>1, <2>1
  <1>3. Tail(q) \in Seq(S) /\ Len(Tail(q)) = 0
    BY <1>2
  <1>4. Tail(q) = <<>>
    BY <1>3
  <1> QED
    BY <1>2, <1>4

\* A worker takes the only lease of its channel.
LEMMA TakeMoves ==
    ASSUME AInv, NEW w \in Workers, Take(w)
    PROVE  LET l == queue[KindOf[w]][1] IN
             /\ l \in Lease
             /\ DOMAIN queue[KindOf[w]] = {1}
             /\ queue' = [queue EXCEPT ![KindOf[w]] = <<>>]
             /\ work' = [work EXCEPT ![w] = [step |-> "process", lease |-> l, then |-> "none"]]
  <1>1. queue[KindOf[w]] \in Seq(Lease) /\ Len(queue[KindOf[w]]) <= 1 /\ queue[KindOf[w]] # <<>>
    BY DEF Take, AInv, RunTypes
  <1> QED
    BY <1>1, OneItem DEF Take, Does

\* A claim hands out one lease, of a job whose row no lease holds in time.
LEMMA ClaimGives ==
    ASSUME AInv, NEW k \in Kinds, ClaimJob(k)
    PROVE  \E l \in Lease :
             /\ l.job \in Job /\ l.job.kind = k /\ Claimable(l.job)
             /\ outbox' = [outbox EXCEPT ![k] = held' \ held]
             /\ tracked' = [tracked EXCEPT ![k] = {m \in tracked[k] : m.job # l.job} \cup (held' \ held)]
             /\ held' = held \cup {l}
             /\ jobs'[l.job].state = "leased" /\ jobs'[l.job].fence = l.fence
             /\ jobs'[l.job].rev = l.rev /\ jobs'[l.job].lapsed = FALSE
             /\ \A j \in Job \ {l.job} : jobs'[j] = jobs[j]
             /\ phase' = phase /\ files' = files
  <1>1. PICK j \in Job :
          /\ j.kind = k
          /\ Claim(j)
          /\ outbox' = [outbox EXCEPT ![k] = held' \ held]
          /\ tracked' = [tracked EXCEPT ![k] = {m \in tracked[k] : m.job # j} \cup (held' \ held)]
    BY DEF ClaimJob
  <1> DEFINE l == [job |-> j, fence |-> jobs[j].attempt + 1, rev |-> jobs[j].rev,
                   retries |-> jobs[j].retries]
  <1>2. jobs \in [Job -> Row] /\ jobs[j] \in Row /\ jobs[j].rev \in Revs
    BY DEF AInv, TypeOK, RunRows, Job
  <1>3. jobs[j].attempt \in Nat /\ jobs[j].attempt + 1 \in 1..MaxAttempt
    BY <1>1, <1>2, BoundAssumption DEF Claim, Row
  <1>4. l \in Lease /\ l.job = j
    BY <1>2, <1>3 DEF Lease, Row
  <1>5. held' = held \cup {l} /\ phase' = phase /\ files' = files /\ Claimable(j)
    BY <1>1 DEF Claim
  <1>6. jobs'[j] = [jobs[j] EXCEPT !.state = "leased", !.attempt = l.fence, !.fence = l.fence,
                                   !.lapsed = FALSE]
    BY <1>1, <1>2 DEF Claim
  <1>7. \A i \in Job \ {j} : jobs'[i] = jobs[i]
    BY <1>1, <1>2 DEF Claim
  <1>8. /\ jobs'[j].state = "leased" /\ jobs'[j].fence = l.fence
        /\ jobs'[j].rev = l.rev /\ jobs'[j].lapsed = FALSE
    BY <1>2, <1>6 DEF Row
  <1> HIDE DEF l
  <1> QED
    BY <1>1, <1>4, <1>5, <1>7, <1>8

\* A lease on its way stays held until its worker is done with it.
LEMMA HeldKept ==
    ASSUME AInv, [ANext]_avars, NEW l \in Lease, Flies(l), phase' = "analysing",
           \A w \in Workers : Finishes(w) => work[w].lease # l
    PROVE  l \in held'
  <1>1. CASE UNCHANGED vars \/ (RunOver /\ Stopped)
    BY <1>1 DEF vars, Stopped, Flies
  <1>2. ASSUME NEW k \in Kinds, ClaimJob(k)
        PROVE  l \in held'
    BY <1>2, ClaimGives DEF Flies
  <1>3. ASSUME NEW k \in Kinds, Finalize(k)
        PROVE  l \in held'
    BY <1>3 DEF Finalize, FinalizeBlockedKind, Flies
  <1>4. ASSUME NEW k \in Kinds, RenewJobs(k) \/ ReadMetadataCounts(k)
        PROVE  l \in held'
    BY <1>4, RenewRows DEF ReadMetadataCounts, Flies
  <1>5. ASSUME NEW w \in Workers, Finishes(w)
        PROVE  l \in held'
    <2>1. held' = held \ {work[w].lease} /\ phase' = phase
      BY <1>5 DEF Finishes, CommitJob, FailJob, ReleaseJob, RefreshFileRevision
    <2> QED
      BY <1>5, <2>1 DEF Flies
  <1>6. ASSUME NEW j \in Job, LapseUntracked(j)
        PROVE  l \in held'
    BY <1>6 DEF LapseUntracked, Lapse, Flies
  <1> QED
    BY <1>1, <1>2, <1>3, <1>4, <1>5, <1>6, QueueSteps DEF Dependents

\* What keeps it through the steps of others.
LEMMA FliesKept ==
    ASSUME AInv, [ANext]_avars, NEW l \in Lease, Flies(l),
           \/ Tracked(l, l.job.kind)
           \/ \E w \in Workers : At(w, "settle") /\ work[w].lease = l,
           \A w \in Workers : Finishes(w) => Apart(work[w].lease, l)
    PROVE  Flies(l)'
  <1>0. l.job \in Job
    BY DEF Lease
  <1>a. phase' = "analysing" => l \in held'
    BY HeldKept DEF Apart
  <1> SUFFICES ASSUME Fresh(l.job)' PROVE (Owns(l) /\ ~jobs[l.job].lapsed)'
    BY <1>a DEF Flies
  <1>b. Fresh(l.job) /\ Kept(l.job)
    BY <1>0, FreshKept
  <1>1. jobs \in [Job -> Row] /\ jobs[l.job] \in Row
    BY <1>0 DEF AInv, TypeOK
  <1>2. jobs[l.job].state = "leased" /\ Fenced(l) /\ ~jobs[l.job].lapsed
    BY <1>b DEF Flies, Owns
  <1> DEFINE Fine == (Owns(l) /\ ~jobs[l.job].lapsed)'
  <1>c. jobs'[l.job] = jobs[l.job] => Fine
    BY <1>2 DEF Owns, Fenced
  <1>3. CASE UNCHANGED vars \/ (RunOver /\ Stopped)
    BY <1>3, <1>c DEF vars, Stopped
  <1>4. ASSUME NEW k \in Kinds, ClaimJob(k)
        PROVE  Fine
    <2>1. PICK m \in Lease :
            /\ Claimable(m.job)
            /\ \A j \in Job \ {m.job} : jobs'[j] = jobs[j]
      BY <1>4, ClaimGives
    <2>2. l.job # m.job
      BY <1>2, <2>1 DEF Claimable
    <2> QED
      BY <1>0, <1>c, <2>1, <2>2
  <1>5. ASSUME NEW k \in Kinds, Finalize(k)
        PROVE  Fine
    <2>1. jobs'[l.job] = jobs[l.job]
      BY <1>0, <1>2, <1>5 DEF Finalize, FinalizeBlockedKind, Blocked
    <2> QED
      BY <1>c, <2>1
  <1>6. ASSUME NEW k \in Kinds, RenewJobs(k)
        PROVE  Fine
    <2>1. jobs'[l.job] = jobs[l.job] \/ jobs'[l.job] = [jobs[l.job] EXCEPT !.lapsed = FALSE]
      BY <1>0, <1>6, RenewRows
    <2>2. jobs'[l.job].lapsed = FALSE
      BY <1>1, <1>2, <2>1 DEF Row
    <2> QED
      BY <1>0, <1>2, <1>6, <2>2, RenewRows DEF Owns, Fenced
  <1>7. ASSUME NEW w \in Workers, Finishes(w), phase = "analysing"
        PROVE  Fine
    <2>1. work[w].lease.job # l.job
      BY <1>7, <1>b DEF Apart
    <2>2. jobs'[l.job] = jobs[l.job]
      <3>1. CASE \E r \in Revs : r > work[w].lease.rev /\ RefreshFileRevision(work[w].lease, r)
        <4>1. work[w].lease \in held
          BY <1>7, SettlerOwns
        <4> QED
          BY <1>0, <1>b, <3>1, <4>1, FileRefreshed DEF Kept
      <3>2. CASE ~\E r \in Revs : r > work[w].lease.rev /\ RefreshFileRevision(work[w].lease, r)
        BY <1>0, <1>1, <1>7, <2>1, <3>2 DEF Finishes, CommitJob, FailJob, ReleaseJob
      <3> QED
        BY <3>1, <3>2
    <2> QED
      BY <1>c, <2>2
  <1>8. ASSUME NEW j \in Job, LapseUntracked(j)
        PROVE  Fine
    <2>1. j # l.job
      BY <1>2, <1>8, <1>b DEF LapseUntracked, At, Tracked
    <2>2. jobs'[l.job] = jobs[l.job]
      BY <1>0, <1>1, <1>8, <2>1 DEF LapseUntracked, Lapse
    <2> QED
      BY <1>c, <2>2
  <1>9. ASSUME NEW k \in Dependents, ReadMetadataCounts(k)
        PROVE  Fine
    BY <1>9, <1>c DEF ReadMetadataCounts
  <1> QED
    BY <1>3, <1>4, <1>5, <1>6, <1>7, <1>8, <1>9, QueueSteps

\* The steps that move a lease, or let go of one.
Moves ==
    \/ \E k \in Kinds : FailDispatch(k) \/ ClaimJob(k) \/ Send(k)
    \/ \E w \in Workers : Take(w) \/ Finishes(w) \/ Fail(w) \/ Remove(w) \/ GiveUp(w)

\* All others leave every lease where it is.
LEMMA PlaceSteps ==
    ASSUME AInv, [ANext]_avars
    PROVE  \/ UNCHANGED <<outbox, queue, work, tracked>>
           \/ phase = "analysing" /\ Moves
  <1>1. ASSUME NEW k \in Kinds, Dispatch(k), phase = "analysing"
        PROVE  UNCHANGED <<outbox, queue, work, tracked>> \/ Moves
    <2>1. CASE FailDispatch(k) \/ ClaimJob(k) \/ Send(k)
      BY <2>1 DEF Moves
    <2>2. CASE StopDispatch(k) \/ ClaimNothing(k) \/ Count(k) \/ Finalize(k) \/ Recount(k)
      BY <2>2 DEF StopDispatch, ClaimNothing, Count, Finalize, Recount
    <2> QED
      BY <1>1, <2>1, <2>2 DEF Dispatch
  <1>2. ASSUME NEW w \in Workers, Work(w), phase = "analysing"
        PROVE  Moves
    <2>1. CASE Complete(w) \/ Refresh(w) \/ SettleJob(w)
      BY <1>2, <2>1, FinishesAll DEF Moves
    <2> QED
      BY <1>2, <2>1 DEF Work, Moves
  <1>3. \A k \in Kinds : Tick(k) \/ RenewJobs(k) \/ CancelRun(k)
            => UNCHANGED <<outbox, queue, work, tracked>>
    BY DEF Tick, RenewJobs, CancelRun
  <1>4. \A j \in Job : LapseUntracked(j) => UNCHANGED <<outbox, queue, work, tracked>>
    BY DEF LapseUntracked
  <1>5. Interrupt \/ RequestStop \/ RunOver \/ Over \/ UNCHANGED avars
            => UNCHANGED <<outbox, queue, work, tracked>>
    BY DEF Interrupt, RequestStop, RunOver, Over
  <1> QED
    BY <1>1, <1>2, <1>3, <1>4, <1>5 DEF ANext

\* Only files slip.
LEMMA SlippedInFiles ==
    ASSUME AInv, [ANext]_avars
    PROVE  slipped' \subseteq Files
  <1>0. slipped \subseteq Files /\ \A j \in Job : j.file \in Files
    BY DEF AInv, RunTypes, Job
  <1>1. ASSUME NEW k \in Kinds, Dispatch(k)
        PROVE  slipped' \subseteq Files
    <2>1. CASE Finalize(k)
      BY <1>0, <2>1 DEF Finalize
    <2>2. ~Finalize(k) => UNCHANGED slipped
      BY <1>1 DEF Dispatch, StopDispatch, FailDispatch, ClaimJob, ClaimNothing, Send, Count, Recount
    <2> QED
      BY <1>0, <2>1, <2>2
  <1>2. ASSUME NEW w \in Workers, Work(w)
        PROVE  slipped' \subseteq Files
    <2>1. CASE Refresh(w)
      BY <1>0, <2>1, BusyHasLease DEF Refresh, At
    <2>2. ~Refresh(w) => UNCHANGED slipped
      BY <1>2 DEF Work, Take, Complete, Fail, Remove, SettleJob, GiveUp
    <2> QED
      BY <1>0, <2>1, <2>2
  <1>3. \A k \in Kinds : Tick(k) \/ RenewJobs(k) \/ CancelRun(k) => UNCHANGED slipped
    BY DEF Tick, RenewJobs, CancelRun
  <1>4. (\E j \in Job : LapseUntracked(j)) \/ Interrupt \/ RequestStop \/ RunOver \/ Over
          \/ UNCHANGED avars => UNCHANGED slipped
    BY DEF LapseUntracked, Interrupt, RequestStop, RunOver, Over
  <1> QED
    BY <1>0, <1>1, <1>2, <1>3, <1>4 DEF ANext

\* The types of the run.
LEMMA RunTypesStep ==
    ASSUME AInv, [ANext]_avars
    PROVE  RunTypes'
  <1> USE DEF AInv
  <1>1. /\ pc' \in [Kinds -> Returned \cup {"claim", "send", "count", "finalize", "recount"}]
        /\ beat' \in [Kinds -> SUBSET Lease]
        /\ canceled' \subseteq Kinds
        /\ stop' \in BOOLEAN
        /\ slipped' \subseteq Files
    <2>0. slipped' \subseteq Files
      BY SlippedInFiles
    <2>1. ASSUME NEW k \in Kinds, Dispatch(k)
          PROVE  /\ UNCHANGED <<beat, canceled, stop>>
                 /\ \E label \in Returned \cup {"claim", "send", "count", "finalize", "recount"} : Goto(k, label)
      <3>1. CASE StopDispatch(k) \/ FailDispatch(k) \/ ClaimJob(k) \/ ClaimNothing(k) \/ Send(k)
        BY <3>1 DEF StopDispatch, FailDispatch, ClaimJob, ClaimNothing, Send, Returned
      <3>2. CASE Count(k) \/ Finalize(k) \/ Recount(k)
        BY <3>2 DEF Count, Finalize, Recount, Returned
      <3> QED
        BY <2>1, <3>1, <3>2 DEF Dispatch
    <2>2. ASSUME NEW w \in Workers, Work(w)
          PROVE  UNCHANGED <<pc, beat, stop>> /\ canceled' \subseteq Kinds
      BY <2>2 DEF Work, Take, Complete, Fail, Refresh, Processed, Remove, SettleJob, GiveUp, RunTypes
    <2>3. ASSUME NEW k \in Kinds, Tick(k) \/ RenewJobs(k) \/ CancelRun(k)
          PROVE  UNCHANGED <<pc, stop>> /\ beat' \in [Kinds -> SUBSET Lease] /\ canceled' \subseteq Kinds
      <3>1. CASE Tick(k)
        BY <3>1 DEF Tick, RunTypes
      <3>2. CASE RenewJobs(k)
        BY <3>2 DEF RenewJobs, RunTypes
      <3>3. CASE CancelRun(k)
        BY <3>3 DEF CancelRun, RunTypes
      <3> QED
        BY <2>3, <3>1, <3>2, <3>3
    <2>4. ASSUME NEW j \in Job, LapseUntracked(j)
          PROVE  UNCHANGED run
      BY <2>4 DEF LapseUntracked
    <2>5. Interrupt \/ RequestStop \/ RunOver \/ Over \/ UNCHANGED avars =>
            UNCHANGED <<pc, beat>> /\ canceled' \subseteq Kinds /\ stop' \in BOOLEAN
      BY DEF Interrupt, RequestStop, RunOver, Over, RunTypes
    <2> QED
      <3>1. UNCHANGED pc \/ \E k \in Kinds :
              \E label \in Returned \cup {"claim", "send", "count", "finalize", "recount"} : Goto(k, label)
        BY <2>1, <2>2, <2>3, <2>4, <2>5 DEF ANext
      <3>2. pc' \in [Kinds -> Returned \cup {"claim", "send", "count", "finalize", "recount"}]
        BY <3>1 DEF Goto, RunTypes
      <3>3. beat' \in [Kinds -> SUBSET Lease] /\ canceled' \subseteq Kinds /\ stop' \in BOOLEAN
        BY <2>1, <2>2, <2>3, <2>4, <2>5 DEF ANext, RunTypes
      <3> QED
        BY <2>0, <3>2, <3>3
  <1>2. /\ outbox' \in [Kinds -> SUBSET Lease]
        /\ queue' \in [Kinds -> Seq(Lease)]
        /\ \A k \in Kinds : Len(queue'[k]) <= 1
        /\ work' \in [Workers -> {Idle, Gone} \cup Busy]
        /\ tracked' \in [Kinds -> SUBSET Lease]
    <2>0. RunTypes /\ held \subseteq Lease
      BY DEF TypeOK
    <2>1. CASE UNCHANGED <<outbox, queue, work, tracked>>
      BY <2>0, <2>1 DEF RunTypes
    <2>2. ASSUME NEW k \in Kinds, FailDispatch(k)
          PROVE  /\ UNCHANGED <<queue, work>> /\ outbox' \in [Kinds -> SUBSET Lease]
                 /\ tracked' \in [Kinds -> SUBSET Lease]
      BY <2>0, <2>2 DEF FailDispatch, RunTypes
    <2>3. ASSUME NEW k \in Kinds, ClaimJob(k)
          PROVE  /\ UNCHANGED <<queue, work>> /\ outbox' \in [Kinds -> SUBSET Lease]
                 /\ tracked' \in [Kinds -> SUBSET Lease]
      <3>1. PICK l \in Lease :
              /\ outbox' = [outbox EXCEPT ![k] = held' \ held]
              /\ tracked' = [tracked EXCEPT ![k] = {m \in tracked[k] : m.job # l.job} \cup (held' \ held)]
              /\ held' = held \cup {l}
        BY <2>3, ClaimGives
      <3>2. held' \ held \subseteq Lease
        BY <3>1
      <3>3. {m \in tracked[k] : m.job # l.job} \cup (held' \ held) \subseteq Lease
        BY <2>0, <3>2 DEF RunTypes
      <3> QED
        BY <2>0, <2>3, <3>1, <3>2, <3>3 DEF ClaimJob, RunTypes
    <2>4. ASSUME NEW k \in Kinds, Send(k)
          PROVE  /\ UNCHANGED <<work, tracked>> /\ outbox' \in [Kinds -> SUBSET Lease]
                 /\ queue' \in [Kinds -> Seq(Lease)]
                 /\ \A i \in Kinds : Len(queue'[i]) <= 1
      <3>1. PICK l \in Lease : queue' = [queue EXCEPT ![k] = <<l>>]
        BY <2>4, SendMoves
      <3>2. <<l>> \in Seq(Lease) /\ Len(<<l>>) <= 1
        OBVIOUS
      <3> QED
        BY <2>0, <2>4, <3>1, <3>2 DEF Send, RunTypes
    <2>5. ASSUME NEW w \in Workers, Take(w)
          PROVE  /\ UNCHANGED <<outbox, tracked>> /\ work' \in [Workers -> {Idle, Gone} \cup Busy]
                 /\ queue' \in [Kinds -> Seq(Lease)]
                 /\ \A i \in Kinds : Len(queue'[i]) <= 1
      <3>1. <<>> \in Seq(Lease) /\ Len(<<>>) <= 1
        OBVIOUS
      <3>2. \A l \in Lease : [step |-> "process", lease |-> l, then |-> "none"] \in Busy
        BY DEF Busy, Then
      <3>3. PICK l \in Lease :
              /\ queue' = [queue EXCEPT ![KindOf[w]] = <<>>]
              /\ work' = [work EXCEPT ![w] = [step |-> "process", lease |-> l, then |-> "none"]]
        BY <2>5, TakeMoves
      <3>4. work' \in [Workers -> {Idle, Gone} \cup Busy]
        BY <2>0, <3>2, <3>3 DEF RunTypes
      <3>5. queue' \in [Kinds -> Seq(Lease)] /\ \A i \in Kinds : Len(queue'[i]) <= 1
        BY <2>0, <3>1, <3>3 DEF RunTypes
      <3> QED
        BY <2>5, <3>4, <3>5 DEF Take
    <2>6. ASSUME NEW w \in Workers, Finishes(w)
          PROVE  /\ UNCHANGED <<outbox, queue, tracked>>
                 /\ work' \in [Workers -> {Idle, Gone} \cup Busy]
      BY <2>0, <2>6 DEF Finishes, RunTypes
    <2>7. ASSUME NEW w \in Workers, Fail(w) \/ Remove(w) \/ GiveUp(w)
          PROVE  /\ UNCHANGED <<outbox, queue>>
                 /\ work' \in [Workers -> {Idle, Gone} \cup Busy]
                 /\ tracked' \in [Kinds -> SUBSET Lease]
      <3>1. work[w] \in Busy
        BY <2>7, BusyHasLease DEF Fail, Remove, GiveUp, At
      <3>2. \A then \in Then : [work[w] EXCEPT !.step = "remove", !.then = then] \in Busy
        BY <3>1 DEF Busy
      <3>3. [work[w] EXCEPT !.step = "settle"] \in Busy
        BY <3>1 DEF Busy
      <3>4. CASE Fail(w)
        <4>1. PICK then \in Then : Processed(w, then)
          BY <3>4 DEF Fail, Then
        <4>2. work' = [work EXCEPT ![w] = [work[w] EXCEPT !.step = "remove", !.then = then]]
          BY <4>1 DEF Processed, Does
        <4> QED
          BY <2>0, <3>2, <4>1, <4>2 DEF Processed, RunTypes
      <3>5. CASE Remove(w)
        BY <2>0, <3>3, <3>5 DEF Remove, Does, RunTypes
      <3>6. CASE GiveUp(w)
        BY <2>0, <3>6 DEF GiveUp, Does, RunTypes
      <3> QED
        BY <2>7, <3>4, <3>5, <3>6
    <2> QED
      BY <2>0, <2>1, <2>2, <2>3, <2>4, <2>5, <2>6, <2>7, PlaceSteps DEF Moves, RunTypes
  <1> QED
    BY <1>1, <1>2 DEF RunTypes

\* The leases on their way, place by place.
LEMMA FlightShape ==
    ASSUME \A k \in Kinds : \A l \in outbox'[k] : Flies(l)' /\ l.job.kind = k /\ Tracked(l, k)',
           ASSUME NEW k \in Kinds, NEW i \in DOMAIN queue'[k], NEW l, l = queue'[k][i]
           PROVE  Flies(l)' /\ l.job.kind = k /\ Tracked(l, k)',
           ASSUME NEW w \in Workers, Unsettled(w)', NEW l, l = work'[w].lease
           PROVE  /\ Flies(l)' /\ l.job.kind = KindOf[w]
                  /\ At(w, "settle")' \/ Tracked(l, KindOf[w])'
    PROVE  FlightHolds'
  BY DEF FlightHolds, Flies, Owns, Fenced, Fresh, Tracked, At

\* What a dispatcher has claimed, or a channel holds, nobody settles.
LEMMA WaitingFlies ==
    ASSUME AInv, [ANext]_avars, NEW k \in Kinds, NEW l,
           l \in outbox[k] \/ \E i \in DOMAIN queue[k] : l = queue[k][i]
    PROVE  /\ l \in Lease /\ l.job \in Job /\ Flies(l)' /\ l.job.kind = k /\ Tracked(l, k)
           /\ Fresh(l.job)' => Fresh(l.job)
           /\ tracked'[k] = tracked[k] => Tracked(l, k)'
           /\ \A w \in Workers : Finishes(w) => Apart(work[w].lease, l)
  <1>1. l \in Lease /\ l.job \in Job
    <2>1. l \in Lease
      BY DEF AInv, RunTypes
    <2> QED
      BY <2>1 DEF Lease
  <1>2. Flies(l) /\ l.job.kind = k /\ Tracked(l, k)
    BY DEF AInv, FlightHolds
  <1>3. ASSUME NEW w \in Workers, Finishes(w)
        PROVE  Apart(work[w].lease, l)
    <2>1. Unsettled(w)
      BY <1>3 DEF Finishes
    <2>2. KindOf[w] = k => Apart(work[w].lease, l)
      BY <2>1 DEF AInv, PlacesDiffer
    <2>3. work[w].lease.job.kind = KindOf[w]
      BY <2>1 DEF AInv, FlightHolds
    <2> QED
      BY <1>2, <2>2, <2>3 DEF Apart
  <1>4. Fresh(l.job)' => Fresh(l.job)
    BY <1>1, FreshKept
  <1>5. tracked'[k] = tracked[k] => Tracked(l, k)'
    BY <1>2, <1>4 DEF Tracked
  <1> QED
    BY <1>1, <1>2, <1>3, <1>4, <1>5, FliesKept

\* Nor does anybody settle what another worker has.
LEMMA WorkedFlies ==
    ASSUME AInv, [ANext]_avars, NEW w \in Workers, Unsettled(w), ~Finishes(w),
           NEW l, l = work[w].lease
    PROVE  /\ l \in Lease /\ l.job \in Job /\ Flies(l)' /\ l.job.kind = KindOf[w] /\ KindOf[w] \in Kinds
           /\ At(w, "settle") \/ Tracked(l, KindOf[w])
           /\ Fresh(l.job)' => Fresh(l.job)
           /\ tracked'[KindOf[w]] = tracked[KindOf[w]] => At(w, "settle") \/ Tracked(l, KindOf[w])'
  <1>1. l \in Lease /\ l.job \in Job /\ KindOf[w] \in Kinds
    BY BusyHasLease DEF Unsettled, At
  <1>2. Flies(l) /\ l.job.kind = KindOf[w] /\ (At(w, "settle") \/ Tracked(l, KindOf[w]))
    BY DEF AInv, FlightHolds
  <1>3. \A v \in Workers : Finishes(v) => Apart(work[v].lease, l)
    BY DEF AInv, PlacesDiffer, Finishes
  <1>4. Fresh(l.job)' => Fresh(l.job)
    BY <1>1, FreshKept
  <1>5. tracked'[KindOf[w]] = tracked[KindOf[w]] => At(w, "settle") \/ Tracked(l, KindOf[w])'
    BY <1>2, <1>4 DEF Tracked
  <1> QED
    BY <1>1, <1>2, <1>3, <1>4, <1>5, FliesKept

\* A lease on its way holds its row in every step.
LEMMA FlightStep ==
    ASSUME AInv, [ANext]_avars
    PROVE  FlightHolds'
  <1>0. RunTypes /\ FlightHolds /\ PlacesDiffer /\ PlacesMean
    BY DEF AInv
  <1>1. CASE UNCHANGED <<outbox, queue, work, tracked>>
    <2>1. \A w \in Workers : ~Finishes(w)
      BY <1>1 DEF Finishes, Unsettled, At
    <2>2. \A w \in Workers : Unsettled(w)' <=> Unsettled(w)
      BY <1>1 DEF Unsettled, At
    <2>3. \A k \in Kinds : \A l \in outbox'[k] : Flies(l)' /\ l.job.kind = k /\ Tracked(l, k)'
      BY <1>1, WaitingFlies
    <2>4. ASSUME NEW k \in Kinds, NEW i \in DOMAIN queue'[k], NEW l, l = queue'[k][i]
          PROVE  Flies(l)' /\ l.job.kind = k /\ Tracked(l, k)'
      BY <1>1, <2>4, WaitingFlies
    <2>5. ASSUME NEW w \in Workers, Unsettled(w)', NEW l, l = work'[w].lease
          PROVE  /\ Flies(l)' /\ l.job.kind = KindOf[w]
                 /\ At(w, "settle")' \/ Tracked(l, KindOf[w])'
      BY <1>0, <1>1, <2>1, <2>2, <2>5, WorkedFlies DEF FlightHolds, At
    <2> QED
      BY <2>3, <2>4, <2>5, FlightShape
  <1>2. ASSUME NEW k \in Kinds, FailDispatch(k)
        PROVE  FlightHolds'
    <2>1. /\ outbox' = [outbox EXCEPT ![k] = {}] /\ UNCHANGED <<queue, work>>
          /\ tracked' = [tracked EXCEPT ![k] = tracked[k] \ outbox[k]]
      BY <1>2 DEF FailDispatch
    <2>2. \A w \in Workers : ~Finishes(w) /\ (Unsettled(w)' <=> Unsettled(w))
      BY <2>1 DEF Finishes, Unsettled, At
    <2>3. ASSUME NEW i \in Kinds, NEW l, Tracked(l, i), Fresh(l.job)' => Fresh(l.job),
                 i = k => l \notin outbox[k] \/ ~Fresh(l.job)
          PROVE  Tracked(l, i)'
      BY <1>0, <2>1, <2>3 DEF Tracked, RunTypes
    <2>4. \A i \in Kinds : \A l \in outbox'[i] : Flies(l)' /\ l.job.kind = i /\ Tracked(l, i)'
      BY <1>0, <2>1, <2>3, WaitingFlies DEF RunTypes
    <2>5. ASSUME NEW i \in Kinds, NEW n \in DOMAIN queue'[i], NEW l, l = queue'[i][n]
          PROVE  Flies(l)' /\ l.job.kind = i /\ Tracked(l, i)'
      <3>1. l = queue[i][n] /\ n \in DOMAIN queue[i]
        BY <2>1, <2>5
      <3>2. i = k => l \notin outbox[k] \/ ~Fresh(l.job)
        BY <1>0, <3>1 DEF PlacesDiffer, Apart
      <3> QED
        BY <2>3, <3>1, <3>2, WaitingFlies
    <2>6. ASSUME NEW w \in Workers, Unsettled(w)', NEW l, l = work'[w].lease
          PROVE  /\ Flies(l)' /\ l.job.kind = KindOf[w]
                 /\ At(w, "settle")' \/ Tracked(l, KindOf[w])'
      <3>1. Unsettled(w) /\ l = work[w].lease /\ (At(w, "settle")' <=> At(w, "settle"))
        BY <2>1, <2>2, <2>6 DEF At
      <3>2. KindOf[w] = k => l \notin outbox[k] \/ ~Fresh(l.job)
        BY <1>0, <3>1 DEF PlacesDiffer, Apart
      <3> QED
        BY <2>2, <2>3, <3>1, <3>2, WorkedFlies
    <2> QED
      BY <2>4, <2>5, <2>6, FlightShape
  <1>3. ASSUME NEW k \in Kinds, ClaimJob(k)
        PROVE  FlightHolds'
    <2>1. PICK m \in Lease :
            /\ m.job \in Job /\ m.job.kind = k /\ Claimable(m.job)
            /\ outbox' = [outbox EXCEPT ![k] = held' \ held]
            /\ tracked' = [tracked EXCEPT ![k] = {l \in tracked[k] : l.job # m.job} \cup (held' \ held)]
            /\ held' = held \cup {m}
            /\ jobs'[m.job].state = "leased" /\ jobs'[m.job].fence = m.fence
            /\ jobs'[m.job].rev = m.rev /\ jobs'[m.job].lapsed = FALSE
      BY <1>3, ClaimGives
    <2>2. UNCHANGED <<queue, work>>
      BY <1>3 DEF ClaimJob
    <2>3. \A w \in Workers : ~Finishes(w) /\ (Unsettled(w)' <=> Unsettled(w))
      BY <2>2 DEF Finishes, Unsettled, At
    <2>4. Flies(m)'
      BY <2>1 DEF Flies, Owns, Fenced
    <2>5. \A l : Flies(l) /\ Fresh(l.job) => l.job # m.job
      BY <2>1 DEF Flies, Owns, Claimable
    <2>6. ASSUME NEW i \in Kinds, NEW l, Flies(l), Tracked(l, i), Fresh(l.job)' => Fresh(l.job)
          PROVE  Tracked(l, i)'
      <3> SUFFICES ASSUME Fresh(l.job)' PROVE l \in tracked'[i]
        BY DEF Tracked
      <3>1. l \in tracked[i] /\ l.job # m.job
        BY <2>5, <2>6 DEF Tracked
      <3> QED
        BY <1>0, <2>1, <3>1 DEF RunTypes
    <2>7. ASSUME NEW i \in Kinds, NEW l \in outbox'[i]
          PROVE  Flies(l)' /\ l.job.kind = i /\ Tracked(l, i)'
      <3>1. CASE i = k
        <4>1. l = m /\ l \in tracked'[i]
          BY <1>0, <2>1, <2>7, <3>1 DEF RunTypes
        <4> QED
          BY <2>1, <2>4, <3>1, <4>1 DEF Tracked
      <3>2. CASE i # k
        <4>1. l \in outbox[i] /\ tracked'[i] = tracked[i]
          BY <1>0, <2>1, <2>7, <3>2 DEF RunTypes
        <4> QED
          BY <4>1, WaitingFlies
      <3> QED
        BY <3>1, <3>2
    <2>8. ASSUME NEW i \in Kinds, NEW n \in DOMAIN queue'[i], NEW l, l = queue'[i][n]
          PROVE  Flies(l)' /\ l.job.kind = i /\ Tracked(l, i)'
      <3>1. l = queue[i][n] /\ n \in DOMAIN queue[i]
        BY <2>2, <2>8
      <3>2. Flies(l)
        BY <1>0, <3>1 DEF FlightHolds
      <3> QED
        BY <2>6, <3>1, <3>2, WaitingFlies
    <2>9. ASSUME NEW w \in Workers, Unsettled(w)', NEW l, l = work'[w].lease
          PROVE  /\ Flies(l)' /\ l.job.kind = KindOf[w]
                 /\ At(w, "settle")' \/ Tracked(l, KindOf[w])'
      <3>1. Unsettled(w) /\ l = work[w].lease /\ (At(w, "settle")' <=> At(w, "settle"))
        BY <2>2, <2>3, <2>9 DEF At
      <3>2. Flies(l)
        BY <1>0, <3>1 DEF FlightHolds
      <3> QED
        BY <2>3, <2>6, <3>1, <3>2, WorkedFlies
    <2> QED
      BY <2>7, <2>8, <2>9, FlightShape
  <1>4. ASSUME NEW k \in Kinds, Send(k)
        PROVE  FlightHolds'
    <2>1. PICK m \in outbox[k] : queue' = [queue EXCEPT ![k] = <<m>>]
      BY <1>4, SendMoves
    <2>2. outbox' = [outbox EXCEPT ![k] = {}] /\ UNCHANGED <<work, tracked>>
      BY <1>4 DEF Send
    <2>3. \A w \in Workers : ~Finishes(w) /\ (Unsettled(w)' <=> Unsettled(w))
      BY <2>2 DEF Finishes, Unsettled, At
    <2>4. \A i \in Kinds : \A l \in outbox'[i] : Flies(l)' /\ l.job.kind = i /\ Tracked(l, i)'
      BY <1>0, <2>2, WaitingFlies DEF RunTypes
    <2>5. ASSUME NEW i \in Kinds, NEW n \in DOMAIN queue'[i], NEW l, l = queue'[i][n]
          PROVE  Flies(l)' /\ l.job.kind = i /\ Tracked(l, i)'
      <3>1. CASE i = k
        <4>1. queue'[k] = <<m>>
          BY <1>0, <2>1 DEF RunTypes
        <4>2. l = m
          BY <2>5, <3>1, <4>1
        <4> QED
          BY <2>2, <3>1, <4>2, WaitingFlies
      <3>2. CASE i # k
        <4>1. queue'[i] = queue[i]
          BY <1>0, <2>1, <3>2 DEF RunTypes
        <4> QED
          BY <2>2, <2>5, <4>1, WaitingFlies
      <3> QED
        BY <3>1, <3>2
    <2>6. ASSUME NEW w \in Workers, Unsettled(w)', NEW l, l = work'[w].lease
          PROVE  /\ Flies(l)' /\ l.job.kind = KindOf[w]
                 /\ At(w, "settle")' \/ Tracked(l, KindOf[w])'
      BY <1>0, <2>2, <2>3, <2>6, WorkedFlies DEF FlightHolds, At
    <2> QED
      BY <2>4, <2>5, <2>6, FlightShape
  <1>5. ASSUME NEW w \in Workers, Take(w)
        PROVE  FlightHolds'
    <2> DEFINE k == KindOf[w]
               m == queue[k][1]
    <2>1. /\ m \in Lease /\ DOMAIN queue[k] = {1}
          /\ queue' = [queue EXCEPT ![k] = <<>>]
          /\ work' = [work EXCEPT ![w] = [step |-> "process", lease |-> m, then |-> "none"]]
      BY <1>5, TakeMoves
    <2>2. UNCHANGED <<outbox, tracked>> /\ At(w, "idle")
      BY <1>5 DEF Take
    <2>3. \A v \in Workers : ~Finishes(v)
      <3>1. ~Unsettled(w)
        BY <2>2 DEF Unsettled, At
      <3>2. \A v \in Workers \ {w} : work'[v] = work[v]
        BY <1>0, <2>1 DEF RunTypes
      <3> QED
        BY <3>1, <3>2 DEF Finishes, Unsettled, At
    <2>4. \A i \in Kinds : \A l \in outbox'[i] : Flies(l)' /\ l.job.kind = i /\ Tracked(l, i)'
      BY <2>2, WaitingFlies
    <2>5. ASSUME NEW i \in Kinds, NEW n \in DOMAIN queue'[i], NEW l, l = queue'[i][n]
          PROVE  Flies(l)' /\ l.job.kind = i /\ Tracked(l, i)'
      <3>1. i # k /\ queue'[i] = queue[i]
        BY <1>0, <2>1, <2>5 DEF RunTypes
      <3> QED
        BY <2>2, <2>5, <3>1, WaitingFlies
    <2>6. ASSUME NEW v \in Workers, Unsettled(v)', NEW l, l = work'[v].lease
          PROVE  /\ Flies(l)' /\ l.job.kind = KindOf[v]
                 /\ At(v, "settle")' \/ Tracked(l, KindOf[v])'
      <3>1. CASE v = w
        <4>1. l = m
          BY <1>0, <2>1, <2>6, <3>1 DEF RunTypes
        <4> QED
          BY <2>1, <2>2, <3>1, <4>1, WaitingFlies
      <3>2. CASE v # w
        <4>1. work'[v] = work[v]
          BY <1>0, <2>1, <3>2 DEF RunTypes
        <4> QED
          BY <1>0, <2>2, <2>3, <2>6, <4>1, WorkedFlies DEF FlightHolds, Unsettled, At
      <3> QED
        BY <3>1, <3>2
    <2> QED
      BY <2>4, <2>5, <2>6, FlightShape
  <1>6. ASSUME NEW w \in Workers, Finishes(w)
        PROVE  FlightHolds'
    <2>1. UNCHANGED <<outbox, queue, tracked>> /\ work' = [work EXCEPT ![w] = work'[w]] /\ ~Unsettled(w)'
      BY <1>6 DEF Finishes
    <2>2. \A i \in Kinds : \A l \in outbox'[i] : Flies(l)' /\ l.job.kind = i /\ Tracked(l, i)'
      BY <2>1, WaitingFlies
    <2>3. ASSUME NEW i \in Kinds, NEW n \in DOMAIN queue'[i], NEW l, l = queue'[i][n]
          PROVE  Flies(l)' /\ l.job.kind = i /\ Tracked(l, i)'
      BY <2>1, <2>3, WaitingFlies
    <2>4. ASSUME NEW v \in Workers, Unsettled(v)', NEW l, l = work'[v].lease
          PROVE  /\ Flies(l)' /\ l.job.kind = KindOf[v]
                 /\ At(v, "settle")' \/ Tracked(l, KindOf[v])'
      <3>1. v # w
        BY <2>1, <2>4
      <3>2. work'[v] = work[v]
        BY <1>0, <2>1, <3>1 DEF RunTypes
      <3>3. Unsettled(v) /\ ~Finishes(v)
        BY <2>4, <3>2 DEF Unsettled, At, Finishes
      <3> QED
        BY <1>0, <2>1, <2>4, <3>2, <3>3, WorkedFlies DEF FlightHolds, At
    <2> QED
      BY <2>2, <2>3, <2>4, FlightShape
  <1>7. ASSUME NEW w \in Workers, Fail(w) \/ Remove(w) \/ GiveUp(w)
        PROVE  FlightHolds'
    <2>1. work[w] \in Busy /\ KindOf[w] \in Kinds
      BY <1>7, BusyHasLease DEF Fail, Remove, GiveUp, At
    <2>2. UNCHANGED <<outbox, queue>> /\ \A v \in Workers \ {w} : work'[v] = work[v]
      BY <1>0, <1>7 DEF Fail, Processed, Remove, GiveUp, Does, RunTypes
    <2>3. Unsettled(w)' => /\ Unsettled(w) /\ work'[w].lease = work[w].lease
                           /\ \/ Fail(w) /\ At(w, "process")
                              \/ Remove(w) /\ At(w, "settle")'
      <3>1. CASE Fail(w)
        <4>1. PICK then \in Then : Processed(w, then)
          BY <3>1 DEF Fail, Then
        <4>2. work'[w] = [work[w] EXCEPT !.step = "remove", !.then = then]
          BY <1>0, <4>1 DEF Processed, Does, RunTypes
        <4> QED
          BY <2>1, <3>1, <4>2 DEF Fail, Unsettled, At, Busy
      <3>2. CASE Remove(w) /\ work[w].then = "none"
        BY <1>0, <3>2 DEF Remove, Does, RunTypes, Unsettled, At, Idle
      <3>3. CASE Remove(w) /\ work[w].then # "none"
        <4>1. work'[w] = [work[w] EXCEPT !.step = "settle"]
          BY <1>0, <3>3 DEF Remove, Does, RunTypes
        <4> QED
          BY <2>1, <3>3, <4>1 DEF Remove, Unsettled, At, Busy
      <3>4. CASE GiveUp(w)
        BY <1>0, <3>4 DEF GiveUp, Does, RunTypes, Unsettled, At, Gone
      <3> QED
        BY <1>7, <3>1, <3>2, <3>3, <3>4
    <2>4. \A v \in Workers : Unsettled(v)' => Unsettled(v) /\ work'[v].lease = work[v].lease
      BY <2>2, <2>3 DEF Unsettled, At
    <2>5. \A v \in Workers : Unsettled(v)' => ~Finishes(v)
      BY DEF Finishes
    <2>6. ASSUME NEW i \in Kinds, NEW l, Flies(l), Tracked(l, i), Fresh(l.job)' => Fresh(l.job),
                 Unsettled(w) => Apart(work[w].lease, l)
          PROVE  Tracked(l, i)'
      <3> SUFFICES ASSUME Fresh(l.job)' PROVE l \in tracked'[i]
        BY DEF Tracked
      <3>0. Fresh(l.job) /\ l \in tracked[i]
        BY <2>6 DEF Tracked
      <3>1. CASE Fail(w) \/ GiveUp(w)
        BY <3>0, <3>1 DEF Fail, Processed, GiveUp
      <3>2. CASE Remove(w)
        <4>1. ~Unsettled(w) /\ Fresh(work[w].lease.job) => jobs[work[w].lease.job].state = "completed"
          BY <1>0, <2>1, <3>2 DEF Remove, PlacesMean, Unsettled, At, Busy
        <4>2. l.job # work[w].lease.job
          BY <2>6, <3>0, <4>1 DEF Flies, Owns, Apart
        <4>3. tracked' = [tracked EXCEPT ![KindOf[w]] =
                            {m \in tracked[KindOf[w]] : m.job # work[w].lease.job}]
          BY <3>2 DEF Remove
        <4> QED
          BY <1>0, <3>0, <4>2, <4>3 DEF RunTypes
      <3> QED
        BY <1>7, <3>1, <3>2
    <2>7. \A i \in Kinds : \A l \in outbox[i] : Unsettled(w) => Apart(work[w].lease, l)
      BY <1>0 DEF FlightHolds, PlacesDiffer, Apart
    <2>8. \A i \in Kinds : \A n \in DOMAIN queue[i] : Unsettled(w) => Apart(work[w].lease, queue[i][n])
      BY <1>0 DEF FlightHolds, PlacesDiffer, Apart
    <2>9. ASSUME NEW i \in Kinds, NEW l \in outbox'[i]
          PROVE  Flies(l)' /\ l.job.kind = i /\ Tracked(l, i)'
      <3>1. l \in outbox[i] /\ Flies(l) /\ (Unsettled(w) => Apart(work[w].lease, l))
        BY <1>0, <2>2, <2>7, <2>9 DEF FlightHolds
      <3> QED
        BY <2>6, <3>1, WaitingFlies
    <2>10. ASSUME NEW i \in Kinds, NEW n \in DOMAIN queue'[i], NEW l, l = queue'[i][n]
           PROVE  Flies(l)' /\ l.job.kind = i /\ Tracked(l, i)'
      <3>1. l = queue[i][n] /\ n \in DOMAIN queue[i] /\ Flies(l)
            /\ (Unsettled(w) => Apart(work[w].lease, l))
        BY <1>0, <2>2, <2>8, <2>10 DEF FlightHolds
      <3> QED
        BY <2>6, <3>1, WaitingFlies
    <2>11. ASSUME NEW v \in Workers, Unsettled(v)', NEW l, l = work'[v].lease
           PROVE  /\ Flies(l)' /\ l.job.kind = KindOf[v]
                  /\ At(v, "settle")' \/ Tracked(l, KindOf[v])'
      <3>1. Unsettled(v) /\ l = work[v].lease /\ ~Finishes(v) /\ Flies(l)
        BY <1>0, <2>4, <2>5, <2>11 DEF FlightHolds
      <3>2. /\ l \in Lease /\ l.job \in Job /\ Flies(l)' /\ l.job.kind = KindOf[v] /\ KindOf[v] \in Kinds
            /\ At(v, "settle") \/ Tracked(l, KindOf[v])
            /\ Fresh(l.job)' => Fresh(l.job)
            /\ tracked'[KindOf[v]] = tracked[KindOf[v]] => At(v, "settle") \/ Tracked(l, KindOf[v])'
        BY <3>1, WorkedFlies
      <3>3. CASE v = w
        <4>1. CASE Fail(w) /\ At(w, "process")
          <5>1. UNCHANGED tracked /\ ~At(v, "settle")
            BY <3>3, <4>1 DEF At, Fail, Processed
          <5> QED
            BY <3>2, <5>1
        <4>2. CASE Remove(w) /\ At(w, "settle")'
          BY <3>2, <3>3, <4>2
        <4> QED
          BY <2>3, <2>11, <3>3, <4>1, <4>2
      <3>4. CASE v # w
        <4>1. Unsettled(w) => Apart(work[w].lease, l)
          BY <1>0, <3>1, <3>4 DEF PlacesDiffer
        <4>2. At(v, "settle")' <=> At(v, "settle")
          BY <2>2, <3>4 DEF At
        <4> QED
          BY <2>6, <3>1, <3>2, <4>1, <4>2
      <3> QED
        BY <3>3, <3>4
    <2> QED
      BY <2>9, <2>10, <2>11, FlightShape
  <1> QED
    BY <1>1, <1>2, <1>3, <1>4, <1>5, <1>6, <1>7, PlaceSteps DEF Moves

\* It does not matter which of two leases comes first, nor what happens elsewhere.
LEMMA ApartEitherWay ==
    ASSUME NEW l, NEW m, Apart(l, m)
    PROVE  Apart(m, l)
  BY DEF Apart

LEMMA ApartKept ==
    ASSUME AInv, [ANext]_avars, NEW l \in Lease, NEW m, Apart(l, m)
    PROVE  Apart(l, m)'
  <1>1. Fresh(l.job)' => Fresh(l.job)
    BY FreshKept DEF Lease
  <1> QED
    BY <1>1 DEF Apart

\* The leases in their places, pair by pair.
LEMMA PlacesShape ==
    ASSUME \A k \in Kinds : \A l, m \in outbox'[k] : l = m,
           ASSUME NEW k \in Kinds, NEW l \in outbox'[k], NEW i \in DOMAIN queue'[k], NEW m, m = queue'[k][i]
           PROVE  Apart(m, l)',
           ASSUME NEW w \in Workers, Unsettled(w)', NEW l, l = work'[w].lease, NEW m \in outbox'[KindOf[w]]
           PROVE  Apart(l, m)',
           ASSUME NEW w \in Workers, Unsettled(w)', NEW l, l = work'[w].lease,
                  NEW i \in DOMAIN queue'[KindOf[w]], NEW m, m = queue'[KindOf[w]][i]
           PROVE  Apart(l, m)',
           ASSUME NEW v \in Workers, NEW w \in Workers, Unsettled(v)', Unsettled(w)', v # w,
                  NEW l, l = work'[v].lease, NEW m, m = work'[w].lease
           PROVE  Apart(l, m)'
    PROVE  PlacesDiffer'
  BY DEF PlacesDiffer, Apart, Fresh

\* A lease in some place is one.
LEMMA PlacedLease ==
    ASSUME AInv
    PROVE  /\ \A k \in Kinds : \A l \in outbox[k] : l \in Lease /\ Flies(l)
           /\ \A k \in Kinds : \A i \in DOMAIN queue[k] : queue[k][i] \in Lease /\ Flies(queue[k][i])
           /\ \A w \in Workers : Unsettled(w) =>
                work[w].lease \in Lease /\ Flies(work[w].lease) /\ KindOf[w] \in Kinds
  <1>1. RunTypes /\ FlightHolds
    BY DEF AInv
  <1>2. \A w \in Workers : Unsettled(w) => work[w].lease \in Lease /\ KindOf[w] \in Kinds
    BY BusyHasLease DEF Unsettled, At
  <1> QED
    BY <1>1, <1>2 DEF RunTypes, FlightHolds

\* What only leaves its place meets nothing new.
LEMMA FewerPlaces ==
    ASSUME AInv, [ANext]_avars,
           \A k \in Kinds : outbox'[k] \subseteq outbox[k] /\ queue'[k] = queue[k],
           \A w \in Workers : Unsettled(w)' => Unsettled(w) /\ work'[w].lease = work[w].lease
    PROVE  PlacesDiffer'
  <1>0. PlacesDiffer
    BY DEF AInv
  <1>1. \A k \in Kinds : \A l, m \in outbox'[k] : l = m
    BY <1>0 DEF PlacesDiffer
  <1>2. ASSUME NEW k \in Kinds, NEW l \in outbox'[k], NEW i \in DOMAIN queue'[k], NEW m, m = queue'[k][i]
        PROVE  Apart(m, l)'
    BY <1>0, <1>2, PlacedLease, ApartKept DEF PlacesDiffer
  <1>3. ASSUME NEW w \in Workers, Unsettled(w)', NEW l, l = work'[w].lease, NEW m \in outbox'[KindOf[w]]
        PROVE  Apart(l, m)'
    BY <1>0, <1>3, PlacedLease, ApartKept DEF PlacesDiffer
  <1>4. ASSUME NEW w \in Workers, Unsettled(w)', NEW l, l = work'[w].lease,
               NEW i \in DOMAIN queue'[KindOf[w]], NEW m, m = queue'[KindOf[w]][i]
        PROVE  Apart(l, m)'
    BY <1>0, <1>4, PlacedLease, ApartKept DEF PlacesDiffer
  <1>5. ASSUME NEW v \in Workers, NEW w \in Workers, Unsettled(v)', Unsettled(w)', v # w,
               NEW l, l = work'[v].lease, NEW m, m = work'[w].lease
        PROVE  Apart(l, m)'
    BY <1>0, <1>5, PlacedLease, ApartKept DEF PlacesDiffer
  <1> QED
    BY <1>1, <1>2, <1>3, <1>4, <1>5, PlacesShape

\* A worker that fails, leaves the tracker or gives up takes no lease.
LEMMA StepsAside ==
    ASSUME AInv, NEW w \in Workers, Fail(w) \/ Remove(w) \/ GiveUp(w) \/ Finishes(w)
    PROVE  /\ UNCHANGED <<outbox, queue>>
           /\ \A v \in Workers \ {w} : work'[v] = work[v]
           /\ Unsettled(w)' => Unsettled(w) /\ work'[w].lease = work[w].lease
  <1>0. RunTypes
    BY DEF AInv
  <1>1. CASE Fail(w)
    <2>1. work[w] \in Busy
      BY <1>1, BusyHasLease DEF Fail, At
    <2>2. PICK then \in Then : Processed(w, then)
      BY <1>1 DEF Fail, Then
    <2>3. work' = [work EXCEPT ![w] = [work[w] EXCEPT !.step = "remove", !.then = then]]
      BY <2>2 DEF Processed, Does
    <2> QED
      BY <1>0, <1>1, <2>1, <2>2, <2>3 DEF Fail, Processed, RunTypes, Unsettled, At, Busy
  <1>2. CASE Remove(w)
    <2>1. work[w] \in Busy
      BY <1>2, BusyHasLease DEF Remove, At
    <2>2. work' = [work EXCEPT ![w] = IF work[w].then = "none" THEN Idle
                                      ELSE [work[w] EXCEPT !.step = "settle"]]
      BY <1>2 DEF Remove, Does
    <2>3. CASE work[w].then = "none"
      BY <1>0, <1>2, <2>2, <2>3 DEF Remove, RunTypes, Unsettled, At, Idle
    <2>4. CASE work[w].then # "none"
      BY <1>0, <1>2, <2>1, <2>2, <2>4 DEF Remove, RunTypes, Unsettled, At, Busy
    <2> QED
      BY <2>3, <2>4
  <1>3. CASE GiveUp(w)
    BY <1>0, <1>3 DEF GiveUp, Does, RunTypes, Unsettled, At, Gone
  <1>4. CASE Finishes(w)
    BY <1>0, <1>4 DEF Finishes, RunTypes
  <1> QED
    BY <1>1, <1>2, <1>3, <1>4

\* No step puts a lease in a second place.
LEMMA PlacesDifferStep ==
    ASSUME AInv, [ANext]_avars
    PROVE  PlacesDiffer'
  <1>0. RunTypes /\ PlacesDiffer
    BY DEF AInv
  <1>1. CASE UNCHANGED <<outbox, queue, work, tracked>>
    BY <1>1, FewerPlaces DEF Unsettled, At
  <1>2. ASSUME NEW k \in Kinds, FailDispatch(k)
        PROVE  PlacesDiffer'
    BY <1>0, <1>2, FewerPlaces DEF FailDispatch, RunTypes, Unsettled, At
  <1>3. ASSUME NEW w \in Workers, Fail(w) \/ Remove(w) \/ GiveUp(w) \/ Finishes(w)
        PROVE  PlacesDiffer'
    <2>1. \A v \in Workers : Unsettled(v)' => Unsettled(v) /\ work'[v].lease = work[v].lease
      BY <1>3, StepsAside DEF Unsettled, At
    <2> QED
      BY <1>3, <2>1, StepsAside, FewerPlaces
  <1>4. ASSUME NEW k \in Kinds, ClaimJob(k), phase = "analysing"
        PROVE  PlacesDiffer'
    <2>1. PICK m \in Lease :
            /\ Claimable(m.job)
            /\ outbox' = [outbox EXCEPT ![k] = held' \ held]
            /\ held' = held \cup {m}
      BY <1>4, ClaimGives
    <2>2. UNCHANGED <<queue, work>>
      BY <1>4 DEF ClaimJob
    <2>3. \A l \in outbox'[k] : l = m /\ m \notin held
      BY <1>0, <2>1 DEF RunTypes
    <2>4. \A i \in Kinds \ {k} : outbox'[i] = outbox[i]
      BY <1>0, <2>1 DEF RunTypes
    <2>5. \A w \in Workers : (Unsettled(w)' <=> Unsettled(w)) /\ work'[w] = work[w]
      BY <2>2 DEF Unsettled, At
    <2>6. ASSUME m \notin held, NEW l \in Lease, Flies(l)
          PROVE  Apart(l, m)'
      <3>1. Apart(l, m)
        BY <1>4, <2>1, <2>6 DEF Apart, Flies, Owns, Claimable
      <3> QED
        BY <3>1, ApartKept
    <2>7. \A i \in Kinds : \A l, n \in outbox'[i] : l = n
      BY <1>0, <2>3, <2>4 DEF PlacesDiffer
    <2>8. ASSUME NEW i \in Kinds, NEW l \in outbox'[i], NEW n \in DOMAIN queue'[i], NEW x, x = queue'[i][n]
          PROVE  Apart(x, l)'
      <3>1. x \in Lease /\ Flies(x) /\ x = queue[i][n] /\ n \in DOMAIN queue[i]
        BY <2>2, <2>8, PlacedLease
      <3>2. CASE i = k
        BY <2>3, <2>6, <2>8, <3>1, <3>2
      <3>3. CASE i # k
        BY <1>0, <2>4, <2>8, <3>1, <3>3, ApartKept DEF PlacesDiffer
      <3> QED
        BY <3>2, <3>3
    <2>9. ASSUME NEW w \in Workers, Unsettled(w)', NEW l, l = work'[w].lease, NEW x \in outbox'[KindOf[w]]
          PROVE  Apart(l, x)'
      <3>1. l \in Lease /\ Flies(l) /\ l = work[w].lease /\ Unsettled(w) /\ KindOf[w] \in Kinds
        BY <2>5, <2>9, PlacedLease
      <3>2. CASE KindOf[w] = k
        BY <2>3, <2>6, <2>9, <3>1, <3>2
      <3>3. CASE KindOf[w] # k
        BY <1>0, <2>4, <2>9, <3>1, <3>3, ApartKept DEF PlacesDiffer
      <3> QED
        BY <3>2, <3>3
    <2>10. ASSUME NEW w \in Workers, Unsettled(w)', NEW l, l = work'[w].lease,
                  NEW i \in DOMAIN queue'[KindOf[w]], NEW x, x = queue'[KindOf[w]][i]
           PROVE  Apart(l, x)'
      BY <1>0, <2>2, <2>5, <2>10, PlacedLease, ApartKept DEF PlacesDiffer
    <2>11. ASSUME NEW v \in Workers, NEW w \in Workers, Unsettled(v)', Unsettled(w)', v # w,
                  NEW l, l = work'[v].lease, NEW x, x = work'[w].lease
           PROVE  Apart(l, x)'
      BY <1>0, <2>5, <2>11, PlacedLease, ApartKept DEF PlacesDiffer
    <2> QED
      BY <2>7, <2>8, <2>9, <2>10, <2>11, PlacesShape
  <1>5. ASSUME NEW k \in Kinds, Send(k)
        PROVE  PlacesDiffer'
    <2>1. PICK m \in outbox[k] : queue' = [queue EXCEPT ![k] = <<m>>]
      BY <1>5, SendMoves
    <2>2. outbox' = [outbox EXCEPT ![k] = {}] /\ UNCHANGED work
      BY <1>5 DEF Send
    <2>3. outbox'[k] = {} /\ queue'[k] = <<m>>
          /\ \A i \in Kinds \ {k} : outbox'[i] = outbox[i] /\ queue'[i] = queue[i]
      BY <1>0, <2>1, <2>2 DEF RunTypes
    <2>4. \A i \in DOMAIN queue'[k] : queue'[k][i] = m
      BY <2>3
    <2>5. \A w \in Workers : (Unsettled(w)' <=> Unsettled(w)) /\ work'[w] = work[w]
      BY <2>2 DEF Unsettled, At
    <2>6. \A i \in Kinds : \A l, n \in outbox'[i] : l = n
      BY <1>0, <2>3 DEF PlacesDiffer
    <2>7. ASSUME NEW i \in Kinds, NEW l \in outbox'[i], NEW n \in DOMAIN queue'[i], NEW x, x = queue'[i][n]
          PROVE  Apart(x, l)'
      <3>1. i # k
        BY <2>3, <2>7
      <3> QED
        BY <1>0, <2>3, <2>7, <3>1, PlacedLease, ApartKept DEF PlacesDiffer
    <2>8. ASSUME NEW w \in Workers, Unsettled(w)', NEW l, l = work'[w].lease, NEW x \in outbox'[KindOf[w]]
          PROVE  Apart(l, x)'
      <3>1. l \in Lease /\ l = work[w].lease /\ Unsettled(w) /\ KindOf[w] \in Kinds
        BY <2>5, <2>8, PlacedLease
      <3>2. KindOf[w] # k
        BY <2>3, <2>8
      <3> QED
        BY <1>0, <2>3, <2>8, <3>1, <3>2, ApartKept DEF PlacesDiffer
    <2>9. ASSUME NEW w \in Workers, Unsettled(w)', NEW l, l = work'[w].lease,
                 NEW i \in DOMAIN queue'[KindOf[w]], NEW x, x = queue'[KindOf[w]][i]
          PROVE  Apart(l, x)'
      <3>1. l \in Lease /\ l = work[w].lease /\ Unsettled(w) /\ KindOf[w] \in Kinds
        BY <2>5, <2>9, PlacedLease
      <3>2. Apart(l, x)
        <4>1. CASE KindOf[w] = k
          BY <1>0, <2>4, <2>9, <3>1, <4>1 DEF PlacesDiffer
        <4>2. CASE KindOf[w] # k
          BY <1>0, <2>3, <2>9, <3>1, <4>2 DEF PlacesDiffer
        <4> QED
          BY <4>1, <4>2
      <3> QED
        BY <3>1, <3>2, ApartKept
    <2>10. ASSUME NEW v \in Workers, NEW w \in Workers, Unsettled(v)', Unsettled(w)', v # w,
                  NEW l, l = work'[v].lease, NEW x, x = work'[w].lease
           PROVE  Apart(l, x)'
      BY <1>0, <2>5, <2>10, PlacedLease, ApartKept DEF PlacesDiffer
    <2> QED
      BY <2>6, <2>7, <2>8, <2>9, <2>10, PlacesShape
  <1>6. ASSUME NEW w \in Workers, Take(w)
        PROVE  PlacesDiffer'
    <2> DEFINE k == KindOf[w]
    <2>1. PICK m \in Lease :
          /\ m = queue[k][1] /\ DOMAIN queue[k] = {1} /\ k \in Kinds
          /\ queue' = [queue EXCEPT ![k] = <<>>]
          /\ work' = [work EXCEPT ![w] = [step |-> "process", lease |-> m, then |-> "none"]]
      BY <1>6, TakeMoves
    <2>2. outbox' = outbox
      BY <1>6 DEF Take
    <2>3. work'[w].lease = m /\ DOMAIN queue'[k] = {}
          /\ \A i \in Kinds \ {k} : queue'[i] = queue[i]
      BY <1>0, <2>1 DEF RunTypes
    <2>4. \A v \in Workers \ {w} : work'[v] = work[v] /\ (Unsettled(v)' <=> Unsettled(v))
      BY <1>0, <2>1 DEF RunTypes, Unsettled, At
    <2>5. \A l \in outbox[k] : Apart(m, l)
      BY <1>0, <2>1 DEF PlacesDiffer
    <2>6. ASSUME NEW v \in Workers, Unsettled(v)
          PROVE  Apart(work[v].lease, m) /\ Apart(m, work[v].lease)
      <3>1. Apart(work[v].lease, m)
        <4>1. CASE KindOf[v] = k
          BY <1>0, <2>1, <2>6, <4>1 DEF PlacesDiffer
        <4>2. CASE KindOf[v] # k
          BY <2>1, <2>6, <4>2 DEF AInv, FlightHolds, Apart
        <4> QED
          BY <4>1, <4>2
      <3> QED
        BY <3>1, ApartEitherWay
    <2>7. \A i \in Kinds : \A l, n \in outbox'[i] : l = n
      BY <1>0, <2>2 DEF PlacesDiffer
    <2>8. ASSUME NEW i \in Kinds, NEW l \in outbox'[i], NEW n \in DOMAIN queue'[i], NEW x, x = queue'[i][n]
          PROVE  Apart(x, l)'
      BY <1>0, <2>2, <2>3, <2>8, PlacedLease, ApartKept DEF PlacesDiffer
    <2>9. ASSUME NEW v \in Workers, Unsettled(v)', NEW l, l = work'[v].lease, NEW x \in outbox'[KindOf[v]]
          PROVE  Apart(l, x)'
      <3>1. CASE v = w
        BY <2>1, <2>2, <2>3, <2>5, <2>9, <3>1, ApartKept
      <3>2. CASE v # w
        BY <1>0, <2>2, <2>4, <2>9, <3>2, PlacedLease, ApartKept DEF PlacesDiffer
      <3> QED
        BY <3>1, <3>2
    <2>10. ASSUME NEW v \in Workers, Unsettled(v)', NEW l, l = work'[v].lease,
                  NEW i \in DOMAIN queue'[KindOf[v]], NEW x, x = queue'[KindOf[v]][i]
           PROVE  Apart(l, x)'
      <3>1. KindOf[v] # k /\ v # w
        BY <2>3, <2>10
      <3>2. l = work[v].lease /\ Unsettled(v) /\ KindOf[v] \in Kinds /\ queue'[KindOf[v]] = queue[KindOf[v]]
        BY <2>3, <2>4, <2>10, <3>1, PlacedLease
      <3> QED
        BY <1>0, <2>10, <3>2, PlacedLease, ApartKept DEF PlacesDiffer
    <2>11. ASSUME NEW u \in Workers, NEW v \in Workers, Unsettled(u)', Unsettled(v)', u # v,
                  NEW l, l = work'[u].lease, NEW x, x = work'[v].lease
           PROVE  Apart(l, x)'
      <3>1. CASE u = w
        <4>1. l = m /\ x = work[v].lease /\ Unsettled(v)
          BY <2>3, <2>4, <2>11, <3>1
        <4> QED
          BY <2>1, <2>6, <4>1, ApartKept
      <3>2. CASE v = w
        <4>1. l = work[u].lease /\ x = m /\ Unsettled(u) /\ l \in Lease
          BY <2>3, <2>4, <2>11, <3>2, PlacedLease
        <4> QED
          BY <2>6, <4>1, ApartKept
      <3>3. CASE u # w /\ v # w
        <4>1. l = work[u].lease /\ x = work[v].lease /\ Unsettled(u) /\ Unsettled(v) /\ l \in Lease
          BY <2>4, <2>11, <3>3, PlacedLease
        <4> QED
          BY <1>0, <2>11, <4>1, ApartKept DEF PlacesDiffer
      <3> QED
        BY <3>1, <3>2, <3>3
    <2> QED
      BY <2>7, <2>8, <2>9, <2>10, <2>11, PlacesShape
  <1> QED
    BY <1>1, <1>2, <1>3, <1>4, <1>5, <1>6, PlaceSteps DEF Moves

\* Only dispatchers move themselves, and only what they have claimed.
LEMMA DispatchOnly ==
    ASSUME [ANext]_avars
    PROVE  \/ UNCHANGED <<pc, outbox>>
           \/ \E k \in Kinds : Dispatch(k) /\ phase = "analysing"
  <1>1. \A w \in Workers : Work(w) => UNCHANGED <<pc, outbox>>
    BY DEF Work, Take, Complete, Fail, Refresh, Processed, Remove, SettleJob, GiveUp
  <1>2. \A k \in Kinds : Tick(k) \/ RenewJobs(k) \/ CancelRun(k) => UNCHANGED <<pc, outbox>>
    BY DEF Tick, RenewJobs, CancelRun
  <1>3. \A j \in Job : LapseUntracked(j) => UNCHANGED <<pc, outbox>>
    BY DEF LapseUntracked
  <1>4. Interrupt \/ RequestStop \/ RunOver \/ Over \/ UNCHANGED avars => UNCHANGED <<pc, outbox>>
    BY DEF Interrupt, RequestStop, RunOver, Over
  <1> QED
    BY <1>1, <1>2, <1>3, <1>4 DEF ANext

\* Nor does a place come to mean something else.
LEMMA PlacesMeanStep ==
    ASSUME AInv, [ANext]_avars
    PROVE  PlacesMean'
  <1>0. RunTypes /\ FlightHolds /\ PlacesDiffer /\ PlacesMean
    BY DEF AInv
  <1>1. ASSUME NEW k \in Kinds, outbox'[k] # {}
        PROVE  pc'[k] = "send"
    <2>1. ASSUME NEW i \in Kinds, Dispatch(i)
          PROVE  pc'[k] = "send"
      <3>1. CASE i = k
        <4>1. CASE ClaimJob(k)
          BY <1>0, <4>1 DEF ClaimJob, Goto, RunTypes
        <4>2. CASE FailDispatch(k) \/ Send(k)
          BY <1>0, <1>1, <4>2 DEF FailDispatch, Send, RunTypes
        <4>3. CASE StopDispatch(k) \/ ClaimNothing(k) \/ Count(k) \/ Finalize(k) \/ Recount(k)
          BY <1>0, <1>1, <4>3 DEF StopDispatch, ClaimNothing, Count, Finalize, Recount, PlacesMean
        <4> QED
          BY <2>1, <3>1, <4>1, <4>2, <4>3 DEF Dispatch
      <3>2. CASE i # k
        <4>1. \E label : Goto(i, label)
          BY <2>1 DEF Dispatch, StopDispatch, FailDispatch, ClaimJob, ClaimNothing, Send, Count,
                      Finalize, Recount
        <4>2. outbox'[k] = outbox[k]
          BY <1>0, <2>1, <3>2 DEF Dispatch, StopDispatch, FailDispatch, ClaimJob, ClaimNothing, Send,
                      Count, Finalize, Recount, RunTypes
        <4> QED
          BY <1>0, <1>1, <3>2, <4>1, <4>2 DEF Goto, PlacesMean, RunTypes
      <3> QED
        BY <3>1, <3>2
    <2>2. CASE UNCHANGED <<pc, outbox>>
      BY <1>0, <1>1, <2>2 DEF PlacesMean
    <2> QED
      BY <2>1, <2>2, DispatchOnly
  <1>2. ASSUME NEW w \in Workers
        PROVE  /\ At(w, "settle")' => work'[w].then # "none"
               /\ At(w, "remove")' /\ work'[w].then = "none" /\ files'[work'[w].lease.job.file] = 1 =>
                    jobs'[work'[w].lease.job].state = "completed"
    <2>1. CASE work'[w] = work[w]
      <3>1. At(w, "remove") => work[w].lease.job \in Job
        BY BusyHasLease DEF At
      <3>2. \A j \in Job : files'[j.file] = 1 =>
              Fresh(j) /\ (jobs[j].state = "completed" => jobs'[j].state = "completed")
        BY FreshKept DEF Kept, Live, Fresh
      <3> QED
        BY <1>0, <2>1, <3>1, <3>2 DEF PlacesMean, At
    <2>2. CASE Take(w)
      <3>1. work'[w].step = "process"
        BY <1>0, <2>2, TakeMoves DEF RunTypes
      <3> QED
        BY <3>1 DEF At
    <2>3. CASE Finishes(w) /\ phase = "analysing"
      <3> DEFINE l == work[w].lease
      <3>1. l.job \in Job /\ l \in held
        BY <2>3, SettlerOwns
      <3>2. \/ work'[w] = Idle
            \/ /\ work'[w].step = "remove" /\ work'[w].lease = l
               /\ CommitJob(l) \/ \E r \in Revs : r > l.rev /\ RefreshFileRevision(l, r)
        BY <2>3 DEF Finishes
      <3>3. CommitJob(l) => jobs'[l.job].state = "completed"
        BY <3>1 DEF CommitJob, AInv, TypeOK, Row
      <3> HIDE DEF l
      <3>4. ASSUME NEW r \in Revs, r > l.rev, RefreshFileRevision(l, r)
            PROVE  files'[l.job.file] # 1
        BY <3>1, <3>4, FileRefreshed
      <3> QED
        BY <3>2, <3>3, <3>4 DEF At, Idle
    <2>4. CASE Fail(w)
      <3>1. PICK then \in Then \ {"none"} : Processed(w, then)
        BY <2>4 DEF Fail, Then
      <3>2. work[w] \in Busy
        BY <2>4, BusyHasLease DEF Fail, At
      <3>3. work'[w] = [work[w] EXCEPT !.step = "remove", !.then = then]
        BY <1>0, <3>1 DEF Processed, Does, RunTypes
      <3> QED
        BY <3>1, <3>2, <3>3 DEF At, Busy
    <2>5. CASE Remove(w)
      <3>1. work[w] \in Busy
        BY <2>5, BusyHasLease DEF Remove, At
      <3>2. work'[w] = IF work[w].then = "none" THEN Idle ELSE [work[w] EXCEPT !.step = "settle"]
        BY <1>0, <2>5 DEF Remove, Does, RunTypes
      <3>3. CASE work[w].then = "none"
        BY <3>2, <3>3 DEF At, Idle
      <3>4. CASE work[w].then # "none"
        BY <3>1, <3>2, <3>4 DEF At, Busy
      <3> QED
        BY <3>3, <3>4
    <2>6. CASE GiveUp(w)
      BY <1>0, <2>6 DEF GiveUp, Does, RunTypes, At, Gone
    <2>7. \/ work'[w] = work[w]
          \/ Take(w) \/ (Finishes(w) /\ phase = "analysing") \/ Fail(w) \/ Remove(w) \/ GiveUp(w)
      <3>1. ASSUME NEW v \in Workers, v # w, Take(v) \/ Finishes(v) \/ Fail(v) \/ Remove(v) \/ GiveUp(v)
            PROVE  work'[w] = work[w]
        BY <1>0, <3>1, TakeMoves, StepsAside DEF RunTypes
      <3>2. ASSUME NEW k \in Kinds, FailDispatch(k) \/ ClaimJob(k) \/ Send(k)
            PROVE  work'[w] = work[w]
        BY <3>2 DEF FailDispatch, ClaimJob, Send
      <3> QED
        BY <3>1, <3>2, PlaceSteps DEF Moves
    <2> QED
      BY <2>1, <2>2, <2>3, <2>4, <2>5, <2>6, <2>7
  <1> QED
    BY <1>1, <1>2 DEF PlacesMean, At, Fresh

\* A dispatcher returns as drained when it counts nothing left.
LEMMA DrainsEmpty ==
    ASSUME AInv, [ANext]_avars, NEW k \in Kinds, pc'[k] = "drained", pc[k] # "drained"
    PROVE  \A j \in Job : j.kind = k => ~Live(jobs[j])
  <1>0. RunTypes
    BY DEF AInv
  <1>1. PICK i \in Kinds : Dispatch(i) /\ phase = "analysing"
    BY DispatchOnly
  <1>2. i = k
    <2>1. \E label : Goto(i, label)
      BY <1>1 DEF Dispatch, StopDispatch, FailDispatch, ClaimJob, ClaimNothing, Send, Count,
                  Finalize, Recount
    <2> QED
      BY <1>0, <2>1 DEF Goto, RunTypes
  <1>3. CASE Count(k) \/ Recount(k)
    <2>1. NothingLeft(k)
      BY <1>0, <1>3 DEF Count, Recount, Goto, RunTypes
    <2> QED
      BY <1>1, <2>1, CountsSeeLive DEF NothingLeft
  <1>4. ~(StopDispatch(k) \/ FailDispatch(k) \/ ClaimJob(k) \/ ClaimNothing(k) \/ Send(k) \/ Finalize(k))
    BY <1>0 DEF StopDispatch, FailDispatch, ClaimJob, ClaimNothing, Send, Finalize, Goto, RunTypes
  <1> QED
    BY <1>1, <1>2, <1>3, <1>4 DEF Dispatch

\* What a refresh reopens, it reopens before the dispatcher of it has returned:
\* the refreshing worker's own job was live, and so was the dependent of
\* metadata; or it reopens metadata, which leaves that worker's job pending; or
\* the file slips.
LEMMA DrainedStep ==
    ASSUME AInv, [ANext]_avars
    PROVE  DrainedMeans'
  <1>0. DrainedMeans /\ slipped \subseteq slipped'
    BY SlippedStays DEF AInv
  <1> SUFFICES ASSUME NEW j \in Job, pc'[j.kind] = "drained", Live(jobs'[j])
               PROVE  /\ ~Fresh(j)'
                      /\ OneOfEach => \/ j.file \in slipped'
                                      \/ /\ j.kind = "metadata"
                                         /\ \E d \in Job : d.file = j.file /\ d.kind # "metadata"
    BY DEF DrainedMeans, Live, OneOfEach, Fresh
  <1>1. j.kind \in Kinds
    BY DEF Job
  <1>2. CASE Kept(j)
    <2>1. Live(jobs[j])
      BY <1>2 DEF Kept, Live
    <2>2. pc[j.kind] = "drained"
      BY <1>1, <2>1, DrainsEmpty
    <2>3. files'[j.file] = files[j.file]
      BY <1>2 DEF Kept
    <2> QED
      BY <1>0, <2>1, <2>2, <2>3 DEF DrainedMeans, Fresh
  <1>3. CASE Reopened(j)
    <2>1. /\ files[j.file] \in Nat \ {0} /\ files'[j.file] \in Nat /\ files'[j.file] > files[j.file]
          /\ pc[j.kind] = "drained"
      BY <1>3 DEF Reopened
    <2>2. ~Fresh(j)'
      BY <2>1 DEF Fresh
    <2>3. ASSUME OneOfEach, j.file \notin slipped'
          PROVE  j.kind = "metadata" /\ \E d \in Job : d.file = j.file /\ d.kind # "metadata"
      <3>1. PICK w \in Workers : /\ work[w].lease.job \in Job /\ work[w].lease.job.file = j.file
                                 /\ Owns(work[w].lease)
        BY <1>3, <2>3 DEF Reopened
      <3>2. j.file \notin slipped
        BY <1>0, <2>3
      <3>3. CASE Live(jobs[j])
        BY <1>0, <2>1, <2>3, <3>2, <3>3 DEF DrainedMeans
      <3>4. CASE ~Live(jobs[j])
        <4> DEFINE i == work[w].lease.job
        <4>1. i \in Job /\ i.file = j.file /\ Live(jobs[i])
          BY <3>1 DEF Owns, Live
        <4> HIDE DEF i
        <4>2. i # j
          BY <3>4, <4>1
        <4>3. CASE j.kind # "metadata"
          <5>1. i.kind = "metadata"
            BY <2>3, <4>1, <4>2, <4>3 DEF OneOfEach
          <5>2. jobs[j].state = "pending"
            BY <2>3, <3>2, <4>1, <4>3, <5>1 DEF AInv, DependentsWait
          <5> QED
            BY <3>4, <5>2 DEF Live
        <4>4. CASE j.kind = "metadata"
          <5>1. i.kind # "metadata"
            BY <2>3, <4>1, <4>2, <4>4 DEF OneOfEach
          <5> QED
            BY <4>1, <4>4, <5>1
        <4> QED
          BY <4>3, <4>4
      <3> QED
        BY <3>3, <3>4
    <2> QED
      BY <2>2, <2>3
  <1> QED
    BY <1>2, <1>3, RowsKept

\* The invariant of every run.
LEMMA AInvHolds == ASpec => []AInv
  <1>1. AInv /\ [ANext]_avars => AInv'
    <2> SUFFICES ASSUME AInv, [ANext]_avars PROVE AInv'
      OBVIOUS
    <2>1. TypeOK' /\ Seen' /\ Fences' /\ EligibleExact'
      BY QueueKept
    <2>2. RunRows' /\ RunTypes' /\ MetadataIsOver' /\ BlockedFresh' /\ DependentsWait'
      BY RunRowsStep, RunTypesStep, MetadataStep, BlockedStep, WaitStep
    <2>3. FlightHolds' /\ PlacesDiffer' /\ PlacesMean' /\ DrainedMeans'
      BY FlightStep, PlacesDifferStep, PlacesMeanStep, DrainedStep
    <2> QED
      BY <2>1, <2>2, <2>3 DEF AInv
  <1> QED
    BY <1>1, AInvInit, PTL DEF ASpec

-----------------------------------------------------------------------------
(* What follows *)

\* In a frozen run every file stays fresh.
LEMMA FrozenIsFresh ==
    ASSUME Frozen, AInv, NEW j \in Job
    PROVE  Fresh(j) /\ jobs[j].rev = 1 /\ (Live(jobs[j]) => <<j, 1>> \in manifest)
  BY DEF AInv, RunRows, Fresh

\* No two workers of a frozen run ever hold leases of one job, whatever is
\* retried, released, failed or lapses in between.
THEOREM JobsHaveOneHolder ==
    ASSUME Frozen
    PROVE  ASpec => []OneHolder
  <1>1. AInv => OneHolder
    <2> SUFFICES ASSUME AInv, NEW k \in Kinds, NEW l \in InFlight(k), NEW m \in InFlight(k), l.job = m.job
                 PROVE  l = m
      BY DEF OneHolder
    <2>0. PlacesDiffer /\ RunTypes
      BY DEF AInv
    <2>1. queue[k] \in Seq(Lease) /\ Len(queue[k]) \in Nat /\ Len(queue[k]) <= 1
      BY <2>0 DEF RunTypes
    <2>2. \A i, n \in DOMAIN queue[k] : i = n
      BY <2>1
    <2>3. l \in Lease /\ m \in Lease
      BY PlacedLease DEF InFlight
    <2>4. Fresh(l.job) /\ Fresh(m.job)
      BY <2>3, FrozenIsFresh DEF Lease
    <2> QED
      BY <2>0, <2>2, <2>4 DEF InFlight, PlacesDiffer, Apart
  <1> QED
    BY <1>1, AInvHolds, PTL

\* The heartbeat of a frozen run knows every lease that waits or is processed:
\* no removal of an older lease of the job takes it along.
THEOREM FlightsAreTracked ==
    ASSUME Frozen
    PROVE  ASpec => []InFlightIsTracked
  <1>1. AInv => InFlightIsTracked
    <2> SUFFICES ASSUME AInv, NEW k \in Kinds, NEW l \in InFlight(k)
                 PROVE  l \in tracked[k] \/ \E w \in Workers : At(w, "settle") /\ work[w].lease = l
      BY DEF InFlightIsTracked
    <2>1. Fresh(l.job)
      BY PlacedLease, FrozenIsFresh DEF InFlight, Lease
    <2> QED
      BY <2>1 DEF AInv, InFlight, FlightHolds, Tracked
  <1> QED
    BY <1>1, AInvHolds, PTL

\* A dependent is only failed as blocked once every metadata job of its file
\* has failed, although the counts are read before the jobs are failed.
THEOREM BlockedHaveFailed ==
    ASSUME Frozen
    PROVE  ASpec => []BlockedByFailure
  <1>1. AInv => BlockedByFailure
    BY FrozenIsFresh DEF AInv, BlockedFresh, BlockedByFailure
  <1> QED
    BY <1>1, AInvHolds, PTL

\* A run that ends well has left no job open: nothing at all when it is frozen;
\* and in `analyze', of files with one job of metadata and one that depends on it
\* at most, nothing but what two races leave behind.
THEOREM DrainedRunsAreDone ==
    ASSUME Frozen \/ OneOfEach
    PROVE  ASpec => []DrainedIsDone
  <1>1. AInv => DrainedIsDone
    <2> SUFFICES ASSUME AInv, \A k \in Kinds : pc[k] = "drained", NEW j \in Job, Live(jobs[j])
                 PROVE  LeftBehind(j)
      BY DEF DrainedIsDone
    <2>1. \A i \in Job : i.kind \in Kinds
      BY DEF Job
    <2>2. DrainedMeans /\ DependentsWait
      BY DEF AInv
    <2>3. ~Fresh(j)
      BY <2>1, <2>2 DEF DrainedMeans
    <2>4. ~Frozen /\ OneOfEach
      BY <2>3, FrozenIsFresh
    <2>5. CASE j.file \in slipped
      BY <2>4, <2>5 DEF LeftBehind
    <2>6. CASE j.file \notin slipped
      <3>1. PICK d \in Job : j.kind = "metadata" /\ d.file = j.file /\ d.kind # "metadata"
        BY <2>1, <2>2, <2>4, <2>6 DEF DrainedMeans
      <3>2. jobs[d].state = "pending"
        BY <2>2, <2>4, <2>6, <3>1 DEF DependentsWait
      <3>3. d.file \in slipped
        BY <2>1, <2>2, <2>4, <3>1, <3>2 DEF DrainedMeans, Live
      <3> QED
        BY <2>6, <3>1, <3>3
    <2> QED
      BY <2>5, <2>6
  <1> QED
    BY <1>1, AInvHolds, PTL

\* Everything a run shares keeps its type, its channels their bound.
THEOREM RunTyped == ASpec => []ATypeOK
  <1>1. AInv => ATypeOK
    BY DEF AInv, RunTypes, ATypeOK
  <1> QED
    BY <1>1, AInvHolds, PTL

\* Only the end of the run ends it, and nothing touches the manifest.
LEMMA RunEnds ==
    ASSUME AInv, [ANext]_avars
    PROVE  manifest' = manifest /\ (phase' = phase \/ RunOver)
  <1>1. UNCHANGED vars => UNCHANGED <<phase, manifest>>
    BY DEF vars
  <1>2. RunOver => manifest' = manifest
    BY DEF RunOver, End, Stopped
  <1>3. \A k \in Kinds : ClaimJob(k) \/ Finalize(k) \/ RenewJobs(k) => UNCHANGED <<phase, manifest>>
    BY RenewRows DEF ClaimJob, Claim, Finalize, FinalizeBlockedKind
  <1>4. \A k \in Dependents : ReadMetadataCounts(k) => UNCHANGED <<phase, manifest>>
    BY DEF ReadMetadataCounts
  <1>5. \A w \in Workers : Finishes(w) => UNCHANGED <<phase, manifest>>
    BY DEF Finishes, CommitJob, FailJob, ReleaseJob, RefreshFileRevision
  <1>6. \A j \in Job : LapseUntracked(j) => UNCHANGED <<phase, manifest>>
    BY DEF LapseUntracked, Lapse
  <1> QED
    BY <1>1, <1>2, <1>3, <1>4, <1>5, <1>6, QueueSteps

\* A frozen run settles each job of its diff at most once, reopens none, and
\* ends as drained only when none is left: every step is one of DiffRun's.  That
\* it ends is left to TLC.
THEOREM RunIsDiffRun ==
    ASSUME Frozen
    PROVE  ASpec => Run!Init /\ [][Run!Next]_(Run!vars)
  <1> DEFINE Undone == {j \in Job : <<j, jobs[j].rev>> \in manifest /\ Live(jobs[j])}
             Drained == canceled = {} /\ \A k \in Kinds : pc[k] = "drained"
             Outcome == IF phase = "analysing" THEN "running"
                        ELSE IF Drained THEN "drained" ELSE "interrupted"
  <1>1. AInit => Run!Init
    BY DEF AInit, Run!Init
  <1>2. ASSUME AInv, [ANext]_avars
        PROVE  [Run!Next]_(Run!vars)
    <2>1. Undone' \subseteq Undone
      <3>1. manifest' = manifest
        BY <1>2, RunEnds
      <3>2. \A j \in Job : jobs'[j].rev = jobs[j].rev /\ (Live(jobs'[j]) => Live(jobs[j]))
        BY <1>2, RowsKept DEF Kept, Reopened, Live
      <3> QED
        BY <3>1, <3>2 DEF Live
    <2>2. CASE phase = "analysing" /\ phase' = "analysing"
      <3>1. Outcome = "running" /\ Outcome' = "running"
        BY <2>2
      <3> QED
        BY <2>1, <3>1 DEF Run!Next, Run!Settle, Run!vars
    <2>3. CASE phase = "analysing" /\ phase' # "analysing"
      <3>1. RunOver
        BY <1>2, <2>3, RunEnds
      <3>2. UNCHANGED <<jobs, manifest, canceled, pc>>
        BY <3>1 DEF RunOver, End, Stopped
      <3>3. Undone' = Undone /\ (Drained' <=> Drained)
        BY <3>2
      <3>4. Drained => Undone = {}
        <4>1. \A j \in Job : j.kind \in Kinds
          BY DEF Job
        <4> QED
          BY <1>2, <4>1, FrozenIsFresh DEF AInv, DrainedMeans
      <3>5. Outcome = "running" /\ Outcome' = IF Drained THEN "drained" ELSE "interrupted"
        BY <2>3, <3>3
      <3> QED
        BY <3>3, <3>4, <3>5 DEF Run!Next, Run!Drain, Run!Interrupt, Run!vars
    <2>4. CASE phase # "analysing"
      <3>1. UNCHANGED avars
        BY <1>2, <2>4 DEF ANext, Over
      <3>2. Undone' = Undone /\ Outcome' = Outcome
        BY <3>1 DEF vars
      <3> QED
        BY <3>2 DEF Run!vars
    <2> QED
      BY <2>2, <2>3, <2>4
  <1> QED
    BY <1>1, <1>2, AInvHolds, PTL DEF ASpec

=============================================================================
