--------------------------- MODULE JobQueueProofs ---------------------------
(* What the durable queue guarantees whatever the files, kinds, contracts,  *)
(* revisions and commands are, and however many claims are made.            *)
EXTENDS JobQueue, TLAPS

-----------------------------------------------------------------------------
(* Types *)

\* A row that exists was observed at some revision.
Seen == \A j \in Job : jobs[j].state # "none" => jobs[j].rev \in Revs

USE DEF None, Everything, Diff

\* No fence and no retry: a value a row may have.
LEMMA ZeroBound == 0 \in 0..MaxAttempt
  BY BoundAssumption

\* Requeuing keeps a row's type and clears its fence.
LEMMA RequeuedRow ==
    ASSUME NEW row \in Row
    PROVE  /\ Requeued(row) \in Row
           /\ Requeued(row).rev = row.rev
           /\ Requeued(row).state = "pending"
           /\ Requeued(row).fence = 0
  BY ZeroBound DEF Requeued, Row, JobState

\* Superseding keeps a row's type and clears its fence.
LEMMA SupersededRow ==
    ASSUME NEW row \in Row
    PROVE  /\ Superseded(row) \in Row
           /\ Superseded(row).rev = row.rev
           /\ Superseded(row).state = "superseded"
           /\ Superseded(row).fence = 0
  BY ZeroBound DEF Superseded, Row, JobState

\* An observation gives a row the revision it saw, clears its fence, and leaves
\* a job completed only at the revision it was completed at.
LEMMA UpsertedRow ==
    ASSUME NEW row \in Row, NEW r \in Revs
    PROVE  /\ Upserted(row, r) \in Row
           /\ Upserted(row, r).rev = r
           /\ Upserted(row, r).fence = 0
           /\ Upserted(row, r).state # "none"
           /\ Upserted(row, r).state \in {"pending", "completed", "failed"}
           /\ Upserted(row, r).state \in {"completed", "failed"}
                => row.rev = r /\ row.state = Upserted(row, r).state
           /\ row.state = "completed" /\ row.rev = r
                => Upserted(row, r).state = "completed"
  BY ZeroBound DEF Upserted, Settled, Row, JobState, Code

\* What a scan does to a row is one of three things.
LEMMA ObservedRow ==
    ASSUME NEW j \in Job, NEW row \in Row, NEW r \in Revs
    PROVE  /\ Observed(j, row, r) \in Row
           /\ \/ Observed(j, row, r) = row
              \/ Observed(j, row, r) = Upserted(row, r)
              \/ row.state # "none" /\ Observed(j, row, r) = Superseded(row)
  BY SupersededRow, UpsertedRow DEF Observed

\* Failing keeps a row's type and revision, clears its fence and leaves it
\* pending or failed.
LEMMA FailedRow ==
    ASSUME NEW row \in Row, NEW code \in Code, NEW retry \in BOOLEAN
    PROVE  /\ Failed(row, code, retry) \in Row
           /\ Failed(row, code, retry).rev = row.rev
           /\ Failed(row, code, retry).fence = 0
           /\ Failed(row, code, retry).state \in {"pending", "failed"}
  <1>1. row.retries \in Nat
    BY DEF Row
  <1>2. CASE retry = TRUE
    <2>1. Failed(row, code, retry)
            = [row EXCEPT !.state = "pending", !.retries = row.retries + 1,
                          !.code = code, !.fence = 0, !.lapsed = FALSE]
      BY <1>2, Zenon DEF Failed
    <2>2. row.retries + 1 \in Nat
      BY <1>1
    <2> QED
      BY <2>1, <2>2, ZeroBound DEF Row, JobState
  <1>3. CASE retry = FALSE
    <2>1. Failed(row, code, retry)
            = [row EXCEPT !.state = "failed", !.retries = row.retries,
                          !.code = code, !.fence = 0, !.lapsed = FALSE]
      BY <1>3, Zenon DEF Failed
    <2> QED
      BY <1>1, <2>1, ZeroBound DEF Row, JobState
  <1> QED
    BY <1>2, <1>3

\* The projection of a file consists of entries.
LEMMA ProjectEntries == \A js, mf, f : Project(js, mf, f) \subseteq Entry
  BY DEF Project

\* The types hold at first.
LEMMA InitTypes == Init => TypeOK /\ Seen
  <1> SUFFICES ASSUME Init PROVE TypeOK /\ Seen
    OBVIOUS
  <1>1. NoRow \in Row
    BY ZeroBound DEF NoRow, Row, JobState, Code
  <1>2. jobs \in [Job -> Row]
    BY <1>1 DEF Init
  <1>3. Seen
    BY DEF Init, Seen, NoRow
  <1> QED
    BY <1>2, <1>3 DEF Init, TypeOK, Scopes

\* The triggers keep the type of the projection.
LEMMA TriggersTyped ==
    ASSUME eligible \subseteq Entry, Triggers
    PROVE  eligible' \subseteq Entry
  BY ProjectEntries DEF Triggers

\* Every step leaves well typed rows, and rows that were seen.
LEMMA RowStep ==
    ASSUME TypeOK, Seen, [Next]_vars
    PROVE  jobs' \in [Job -> Row] /\ Seen'
  <1> DEFINE Good(row) == row \in Row /\ (row.state # "none" => row.rev \in Revs)
  <1>1. \A j \in Job : Good(jobs[j])
    BY DEF TypeOK, Seen
  <1> SUFFICES /\ jobs' = [j \in Job |-> jobs'[j]]
               /\ \A j \in Job : Good(jobs'[j])
    BY DEF Seen
  <1>2. ASSUME NEW row \in Row, Good(row), row.state # "none"
        PROVE  Good(Requeued(row))
    BY <1>2, RequeuedRow
  <1>3. jobs = [j \in Job |-> jobs[j]]
    BY DEF TypeOK
  <1>4. ASSUME NEW w \in Commands, Open(w)
        PROVE  /\ jobs' = [j \in Job |-> jobs'[j]]
               /\ \A j \in Job : Good(jobs'[j])
    BY <1>1, <1>2, <1>4 DEF Open
  <1>5. ASSUME RetryFailed
        PROVE  /\ jobs' = [j \in Job |-> jobs'[j]]
               /\ \A j \in Job : Good(jobs'[j])
    <2>1. ASSUME NEW row \in Row, Good(row), row.state # "none"
          PROVE  Good([Requeued(row) EXCEPT !.code = ""])
      <3>1. Good(Requeued(row))
        BY <2>1, <1>2
      <3> HIDE DEF Good
      <3>2. Requeued(row) \in Row
        BY <3>1 DEF Good
      <3> QED
        BY <3>1, <3>2 DEF Row, Code, Good
    <2> QED
      BY <1>1, <1>5, <2>1 DEF RetryFailed, MayRetryFailed
  <1>6. ASSUME NEW f \in Files, NEW r \in Revs, Observe(f, r)
        PROVE  /\ jobs' = [j \in Job |-> jobs'[j]]
               /\ \A j \in Job : Good(jobs'[j])
    <2>1. ASSUME NEW j \in Job PROVE Good(Observed(j, jobs[j], r))
      <3>0. Good(jobs[j]) /\ jobs[j] \in Row
        BY <1>1
      <3>1. Good(Upserted(jobs[j], r))
        BY <3>0, UpsertedRow
      <3>2. jobs[j].state # "none" => Good(Superseded(jobs[j]))
        BY <3>0, SupersededRow
      <3> HIDE DEF Good
      <3> QED
        BY <3>0, <3>1, <3>2, ObservedRow
    <2> QED
      BY <1>1, <1>6, <2>1 DEF Observe
  <1>7. ASSUME UNCHANGED jobs
        PROVE  /\ jobs' = [j \in Job |-> jobs'[j]]
               /\ \A j \in Job : Good(jobs'[j])
    BY <1>1, <1>3, <1>7
  <1>8. ASSUME NEW j \in Job, Claim(j)
        PROVE  /\ jobs' = [i \in Job |-> jobs'[i]]
               /\ \A i \in Job : Good(jobs'[i])
    <2>1. jobs[j].attempt + 1 \in 0..MaxAttempt
      BY <1>1, <1>8, BoundAssumption DEF Claim, Row
    <2>2. jobs[j] \in Row /\ jobs[j].rev \in Revs
      BY <1>1, <1>8 DEF Claim, Claimable
    <2> DEFINE n == jobs[j].attempt + 1
               new == [jobs[j] EXCEPT !.state = "leased", !.attempt = n,
                                      !.fence = n, !.lapsed = FALSE]
    <2>3. jobs' = [jobs EXCEPT ![j] = new]
      BY <1>8 DEF Claim, TypeOK
    <2> HIDE DEF n
    <2>4. new \in Row /\ new.rev \in Revs
      BY <2>1, <2>2 DEF Row, JobState, n
    <2> HIDE DEF new
    <2> QED
      BY <1>1, <1>3, <2>3, <2>4
  <1>9. ASSUME NEW j \in Job, Lapse(j)
        PROVE  /\ jobs' = [i \in Job |-> jobs'[i]]
               /\ \A i \in Job : Good(jobs'[i])
    <2> DEFINE new == [jobs[j] EXCEPT !.lapsed = TRUE]
    <2>1. jobs' = [jobs EXCEPT ![j] = new]
      BY <1>9 DEF Lapse, TypeOK
    <2>2. new \in Row /\ new.rev \in Revs
      BY <1>1, <1>9 DEF Lapse, Row
    <2> HIDE DEF new
    <2> QED
      BY <1>1, <1>3, <2>1, <2>2
  <1>10. ASSUME NEW l \in held, Settle(l)
         PROVE  /\ jobs' = [i \in Job |-> jobs'[i]]
                /\ \A i \in Job : Good(jobs'[i])
    <2>0. l.job \in Job /\ l.rev \in Revs /\ l.fence \in 1..MaxAttempt
      BY DEF TypeOK, Lease
    <2>1. CASE Renew(l)
      <3> DEFINE new == [jobs[l.job] EXCEPT !.lapsed = FALSE]
      <3>1. jobs' = [jobs EXCEPT ![l.job] = new]
        BY <2>1 DEF Renew, TypeOK
      <3>2. new \in Row /\ new.rev \in Revs
        BY <1>1, <2>0, <2>1 DEF Renew, Owns, Row
      <3> HIDE DEF new
      <3> QED
        BY <1>1, <1>3, <3>1, <3>2
    <2>2. CASE CommitJob(l)
      <3> DEFINE new == [jobs[l.job] EXCEPT !.state = "completed", !.lapsed = FALSE]
      <3>1. jobs' = [jobs EXCEPT ![l.job] = new]
        BY <2>2 DEF CommitJob, TypeOK
      <3>2. new \in Row /\ new.rev \in Revs
        BY <1>1, <2>0, <2>2 DEF CommitJob, Owns, Row, JobState
      <3> HIDE DEF new
      <3> QED
        BY <1>1, <1>3, <3>1, <3>2
    <2>3. CASE CommitPartialDSP(l)
      BY <1>7, <2>3 DEF CommitPartialDSP
    <2>4. ASSUME NEW code \in {"transient", "permanent"}, NEW retry \in BOOLEAN,
                 FailJob(l, code, retry)
          PROVE  /\ jobs' = [i \in Job |-> jobs'[i]]
                 /\ \A i \in Job : Good(jobs'[i])
      <3>1. jobs' = [jobs EXCEPT ![l.job] = Failed(jobs[l.job], code, retry)]
        BY <2>4 DEF FailJob, TypeOK
      <3>2. jobs[l.job] \in Row /\ jobs[l.job].rev \in Revs
        BY <1>1, <2>0, <2>4 DEF FailJob, Fenced
      <3>3. Good(Failed(jobs[l.job], code, retry))
        <4>1. code \in Code
          BY DEF Code
        <4> QED
          BY <3>2, <4>1, FailedRow
      <3> QED
        BY <1>1, <1>3, <3>1, <3>3
    <2>5. CASE ReleaseJob(l)
      <3>1. jobs' = [jobs EXCEPT ![l.job] = Requeued(jobs[l.job])]
        BY <2>5 DEF ReleaseJob, TypeOK
      <3>2. Good(Requeued(jobs[l.job]))
        BY <1>1, <1>2, <2>0, <2>5 DEF ReleaseJob, Owns
      <3> QED
        BY <1>1, <1>3, <3>1, <3>2
    <2>6. ASSUME NEW r \in Revs, RefreshFileRevision(l, r)
          PROVE  /\ jobs' = [i \in Job |-> jobs'[i]]
                 /\ \A i \in Job : Good(jobs'[i])
      <3>1. ASSUME NEW row \in Row
            PROVE  Good([Requeued(row) EXCEPT !.rev = r, !.code = ""])
        <4>1. Requeued(row) \in Row
          BY RequeuedRow
        <4> QED
          BY <4>1 DEF Row, Code
      <3> QED
        BY <1>1, <2>6, <3>1 DEF RefreshFileRevision
    <2>7. CASE Refused(l)
      BY <1>7, <2>7 DEF Refused, Stopped
    <2> QED
      BY <1>10, <2>1, <2>2, <2>3, <2>4, <2>5, <2>6, <2>7 DEF Settle
  <1>11. ASSUME NEW k \in Dependents, FinalizeBlockedKind(k)
         PROVE  /\ jobs' = [i \in Job |-> jobs'[i]]
                /\ \A i \in Job : Good(jobs'[i])
    <2>1. ASSUME NEW row \in Row, Good(row), row.state # "none"
          PROVE  Good([row EXCEPT !.state = "failed", !.code = "blocked"])
      BY <2>1 DEF Row, JobState, Code
    <2> QED
      BY <1>1, <1>11, <2>1 DEF FinalizeBlockedKind, Blocked
  <1> QED
    BY <1>4, <1>5, <1>6, <1>7, <1>8, <1>9, <1>10, <1>11
    DEF Next, vars, WriteScanManifest, StartAnalyze, End, Stopped, ReadMetadataCounts

\* Every step keeps the types.
LEMMA TypeStep ==
    ASSUME TypeOK, Seen, [Next]_vars
    PROVE  TypeOK'
  <1>1. jobs' \in [Job -> Row]
    BY RowStep
  <1>2. ASSUME NEW w \in Commands, Open(w)
        PROVE  TypeOK'
    BY <1>1, <1>2, ProjectEntries DEF Open, TypeOK, Rebuilt
  <1>3. CASE RetryFailed
    BY <1>1, <1>3, TriggersTyped DEF RetryFailed, TypeOK
  <1>4. ASSUME NEW f \in Files, NEW r \in Revs, Observe(f, r)
        PROVE  TypeOK'
    BY <1>1, <1>4, TriggersTyped DEF Observe, TypeOK
  <1>5. ASSUME NEW seen \in SUBSET Files, WriteScanManifest(seen)
        PROVE  TypeOK'
    <2>1. manifest' \subseteq Job \X Revs
      BY <1>5 DEF WriteScanManifest, TypeOK, Seen
    <2>2. \A e \in eligible : [e EXCEPT !.scope = Diff] \in Entry
      BY DEF TypeOK, Entry, Scopes
    <2>3. eligible' \subseteq Entry
      BY <1>5, <2>2 DEF WriteScanManifest, TypeOK
    <2> QED
      BY <1>1, <1>5, <2>1, <2>3 DEF WriteScanManifest, TypeOK, Scopes
  <1>6. CASE StartAnalyze
    BY <1>1, <1>6 DEF StartAnalyze, TypeOK, Scopes
  <1>7. ASSUME Stopped
        PROVE  TypeOK'
    BY <1>1, <1>7 DEF Stopped, TypeOK, Scopes
  <1>8. ASSUME NEW j \in Job, Claim(j)
        PROVE  TypeOK'
    <2> DEFINE l == [job |-> j, fence |-> jobs[j].attempt + 1, rev |-> jobs[j].rev,
                     retries |-> jobs[j].retries]
    <2>1. jobs[j].attempt \in Nat /\ jobs[j].retries \in Nat /\ jobs[j].rev \in Revs
      BY <1>8, BoundAssumption DEF Claim, Claimable, TypeOK, Seen, Row
    <2>2. jobs[j].attempt + 1 \in 1..MaxAttempt
      BY <1>8, <2>1, BoundAssumption DEF Claim
    <2>3. l \in Lease
      BY <2>1, <2>2 DEF Lease
    <2>4. held' = held \cup {l}
      BY <1>8 DEF Claim
    <2> HIDE DEF l
    <2> QED
      BY <1>1, <1>8, <2>3, <2>4, TriggersTyped DEF Claim, TypeOK
  <1>9. ASSUME NEW j \in Job, Lapse(j)
        PROVE  TypeOK'
    BY <1>1, <1>9 DEF Lapse, TypeOK
  <1>10. ASSUME NEW l \in held, Settle(l)
         PROVE  TypeOK'
    <2>0. l.job \in Job /\ l.rev \in Revs /\ l.job.file \in Files
      BY DEF TypeOK, Lease, Job
    <2>1. CASE Renew(l)
      BY <1>1, <2>1, TriggersTyped DEF Renew, TypeOK
    <2>2. CASE CommitJob(l)
      <3>1. newest' \in [Files -> Job \cup {NoJob}]
        BY <2>0, <2>2 DEF CommitJob, TypeOK
      <3>2. results' \in [Job -> Revs \cup {None}] /\ partial' \in [Job -> Revs \cup {None}]
        BY <2>0, <2>2 DEF CommitJob, TypeOK
      <3> QED
        BY <1>1, <2>2, <3>1, <3>2, TriggersTyped DEF CommitJob, TypeOK
    <2>3. CASE CommitPartialDSP(l)
      BY <1>1, <2>0, <2>3 DEF CommitPartialDSP, TypeOK
    <2>4. ASSUME NEW code \in {"transient", "permanent"}, NEW retry \in BOOLEAN,
                 FailJob(l, code, retry)
          PROVE  TypeOK'
      BY <1>1, <2>4, TriggersTyped DEF FailJob, TypeOK
    <2>5. CASE ReleaseJob(l)
      BY <1>1, <2>5, TriggersTyped DEF ReleaseJob, TypeOK
    <2>6. ASSUME NEW r \in Revs, RefreshFileRevision(l, r)
          PROVE  TypeOK'
      BY <1>1, <2>0, <2>6, TriggersTyped DEF RefreshFileRevision, TypeOK
    <2>7. CASE Refused(l)
      BY <1>7, <2>7 DEF Refused
    <2> QED
      BY <1>10, <2>1, <2>2, <2>3, <2>4, <2>5, <2>6, <2>7 DEF Settle
  <1>11. ASSUME NEW k \in Dependents, ReadMetadataCounts(k)
         PROVE  TypeOK'
    BY <1>1, <1>11 DEF ReadMetadataCounts, TypeOK
  <1>12. ASSUME NEW k \in Dependents, FinalizeBlockedKind(k)
         PROVE  TypeOK'
    BY <1>1, <1>12, TriggersTyped DEF FinalizeBlockedKind, TypeOK
  <1>13. CASE UNCHANGED vars
    BY <1>13 DEF vars, TypeOK
  <1> QED
    BY <1>2, <1>3, <1>4, <1>5, <1>6, <1>7, <1>8, <1>9, <1>10, <1>11, <1>12, <1>13
    DEF Next, End

\* Type correctness: whatever the scans, workers and crashes, every variable
\* has its type, and only rows of files that were observed exist.
THEOREM TypesHold == Spec => [](TypeOK /\ Seen)
  BY InitTypes, TypeStep, RowStep, PTL DEF Spec

-----------------------------------------------------------------------------
(* Fences *)

\* What keeps FenceMeansLeased: a claim's fence is newer than every lease in a
\* worker's hands, so no two leases share one.
Fences ==
    /\ FenceMeansLeased
    /\ \A l \in held : l.fence <= jobs[l.job].attempt
    /\ \A l, m \in held : l.job = m.job /\ l.fence = m.fence => l = m

\* A step that hands out no lease and, under each lease left, clears the
\* fence, had lost it before, or leaves fence, revision and state alone.
LEMMA FencesKept ==
    ASSUME TypeOK, Fences, held' \subseteq held,
           \A l \in held' :
               /\ jobs'[l.job].attempt = jobs[l.job].attempt
               /\ \/ jobs'[l.job].fence = 0
                  \/ jobs'[l.job].fence # l.fence
                  \/ /\ jobs'[l.job].fence = jobs[l.job].fence
                     /\ jobs'[l.job].rev = jobs[l.job].rev
                     /\ jobs'[l.job].state = jobs[l.job].state
    PROVE  Fences'
  <1>1. \A l \in held : l.fence # 0
    BY DEF TypeOK, Lease
  <1> QED
    BY <1>1 DEF Fences, FenceMeansLeased, Owns, Fenced

\* Only a claim counts an attempt.
LEMMA AttemptsKept ==
    ASSUME NEW row \in Row
    PROVE  /\ Requeued(row).attempt = row.attempt
           /\ Superseded(row).attempt = row.attempt
           /\ \A r \in Revs : Upserted(row, r).attempt = row.attempt
           /\ \A code \in Code, retry \in BOOLEAN :
                Failed(row, code, retry).attempt = row.attempt
  BY DEF Requeued, Superseded, Upserted, Failed, Row

\* Every step keeps the fences, the heart of FenceSafe.
LEMMA FencesStep ==
    ASSUME TypeOK, Seen, Fences, [Next]_vars
    PROVE  Fences'
  <1>1. \A j \in Job : jobs[j] \in Row
    BY DEF TypeOK
  <1>2. \A l \in held : l.job \in Job /\ l \in Lease
    BY DEF TypeOK, Lease
  <1>3. ASSUME NEW w \in Commands, Open(w)
        PROVE  Fences'
    BY <1>1, <1>2, <1>3, RequeuedRow, FencesKept, AttemptsKept DEF Open
  <1>4. CASE RetryFailed
    <2>1. \A row \in Row :
            /\ [Requeued(row) EXCEPT !.code = ""].fence = 0
            /\ [Requeued(row) EXCEPT !.code = ""].attempt = row.attempt
      BY RequeuedRow DEF Requeued, Row
    <2> QED
      BY <1>1, <1>2, <1>4, <2>1, FencesKept DEF RetryFailed
  <1>5. ASSUME NEW f \in Files, NEW r \in Revs, Observe(f, r)
        PROVE  Fences'
    <2>1. \A l \in held : \/ jobs'[l.job] = jobs[l.job]
                          \/ jobs'[l.job] = Upserted(jobs[l.job], r)
                          \/ jobs'[l.job] = Superseded(jobs[l.job])
      BY <1>1, <1>2, <1>5, ObservedRow DEF Observe
    <2> QED
      BY <1>1, <1>2, <1>5, <2>1, UpsertedRow, SupersededRow, AttemptsKept, FencesKept
      DEF Observe
  <1>6. ASSUME UNCHANGED <<jobs, held>>
        PROVE  Fences'
    BY <1>6, FencesKept
  <1>7. ASSUME Stopped
        PROVE  Fences'
    BY <1>7, FencesKept DEF Stopped
  <1>8. ASSUME NEW j \in Job, Claim(j)
        PROVE  Fences'
    <2> DEFINE new == [job |-> j, fence |-> jobs[j].attempt + 1, rev |-> jobs[j].rev,
                       retries |-> jobs[j].retries]
    <2>1. held' = held \cup {new}
      BY <1>8 DEF Claim
    <2>2. /\ jobs'[j].attempt = jobs[j].attempt + 1
          /\ jobs'[j].fence = jobs[j].attempt + 1
          /\ jobs'[j].rev = jobs[j].rev
          /\ jobs'[j].state = "leased"
      BY <1>1, <1>8 DEF Claim, TypeOK, Row
    <2>3. \A i \in Job : i # j => jobs'[i] = jobs[i]
      BY <1>8 DEF Claim, TypeOK
    <2>4. jobs[j].attempt \in Nat
      BY <1>1, BoundAssumption DEF Row
    <2>5. \A l \in held : l.fence \in Nat
      BY <1>2, BoundAssumption DEF Lease
    <2>6. \A l \in held : l.job = j => l.fence # jobs[j].attempt + 1
      BY <2>4, <2>5 DEF Fences
    <2>7. new.job = j /\ new.fence = jobs[j].attempt + 1 /\ new.rev = jobs[j].rev
      OBVIOUS
    <2> HIDE DEF new
    <2>8. \A l \in held' : jobs'[l.job].fence = l.fence =>
            jobs'[l.job].state = "leased" /\ jobs'[l.job].rev = l.rev
      BY <1>2, <2>1, <2>2, <2>3, <2>6, <2>7 DEF Fences, FenceMeansLeased, Owns, Fenced
    <2>9. \A l \in held' : l.fence <= jobs'[l.job].attempt
      BY <1>2, <2>1, <2>2, <2>3, <2>4, <2>5, <2>7 DEF Fences
    <2>10. \A l, m \in held' : l.job = m.job /\ l.fence = m.fence => l = m
      BY <2>1, <2>6, <2>7 DEF Fences
    <2> QED
      BY <2>8, <2>9, <2>10 DEF Fences, FenceMeansLeased, Owns, Fenced
  <1>9. ASSUME NEW j \in Job, Lapse(j)
        PROVE  Fences'
    <2>1. \A i \in Job : /\ jobs'[i].attempt = jobs[i].attempt
                         /\ jobs'[i].fence = jobs[i].fence
                         /\ jobs'[i].rev = jobs[i].rev
                         /\ jobs'[i].state = jobs[i].state
      BY <1>1, <1>9 DEF Lapse, TypeOK, Row
    <2> QED
      BY <1>2, <1>9, <2>1, FencesKept DEF Lapse
  <1>10. ASSUME NEW l \in held, Settle(l)
         PROVE  Fences'
    <2>0. l.job \in Job
      BY <1>2
    <2>1. CASE Renew(l)
      <3>1. \A i \in Job : /\ jobs'[i].attempt = jobs[i].attempt
                           /\ jobs'[i].fence = jobs[i].fence
                           /\ jobs'[i].rev = jobs[i].rev
                           /\ jobs'[i].state = jobs[i].state
        BY <1>1, <2>1 DEF Renew, TypeOK, Row
      <3> QED
        BY <1>2, <2>1, <3>1, FencesKept DEF Renew
    <2>2. CASE CommitJob(l)
      <3>1. \A i \in Job : /\ jobs'[i].attempt = jobs[i].attempt
                           /\ jobs'[i].fence = jobs[i].fence
                           /\ i # l.job => jobs'[i] = jobs[i]
        BY <1>1, <2>0, <2>2 DEF CommitJob, TypeOK, Row
      <3>2. held' = held \ {l} /\ jobs[l.job].fence = l.fence
        BY <2>2 DEF CommitJob, Owns, Fenced
      <3>3. \A m \in held' : m.job = l.job => m.fence # l.fence
        BY <3>2 DEF Fences
      <3> QED
        BY <1>2, <3>1, <3>2, <3>3, FencesKept
    <2>3. CASE CommitPartialDSP(l)
      BY <1>6, <2>3 DEF CommitPartialDSP
    <2>4. ASSUME NEW code \in {"transient", "permanent"}, NEW retry \in BOOLEAN,
                 FailJob(l, code, retry)
          PROVE  Fences'
      <3>0. code \in Code
        BY DEF Code
      <3>1. jobs' = [jobs EXCEPT ![l.job] = Failed(jobs[l.job], code, retry)]
        BY <2>4 DEF FailJob, TypeOK
      <3>2. \A i \in Job : /\ jobs'[i].attempt = jobs[i].attempt
                           /\ i = l.job => jobs'[i].fence = 0
                           /\ i # l.job => jobs'[i] = jobs[i]
        <4>1. \A i \in Job : i # l.job => jobs'[i] = jobs[i]
          BY <3>1 DEF TypeOK
        <4>2. jobs'[l.job] = Failed(jobs[l.job], code, retry)
          BY <2>0, <3>1 DEF TypeOK
        <4>3. /\ Failed(jobs[l.job], code, retry).fence = 0
              /\ Failed(jobs[l.job], code, retry).attempt = jobs[l.job].attempt
          BY <1>1, <2>0, <3>0, FailedRow, AttemptsKept
        <4> QED
          BY <4>1, <4>2, <4>3
      <3> QED
        BY <1>2, <2>4, <3>2, FencesKept DEF FailJob
    <2>5. CASE ReleaseJob(l)
      <3>1. jobs' = [jobs EXCEPT ![l.job] = Requeued(jobs[l.job])]
        BY <2>5 DEF ReleaseJob, TypeOK
      <3> QED
        BY <1>1, <1>2, <2>0, <2>5, <3>1, RequeuedRow, AttemptsKept, FencesKept
        DEF ReleaseJob, TypeOK
    <2>6. ASSUME NEW r \in Revs, RefreshFileRevision(l, r)
          PROVE  Fences'
      <3>1. \A row \in Row :
              /\ [Requeued(row) EXCEPT !.rev = r, !.code = ""].fence = 0
              /\ [Requeued(row) EXCEPT !.rev = r, !.code = ""].attempt = row.attempt
        BY DEF Requeued, Row
      <3> QED
        BY <1>1, <1>2, <2>6, <3>1, FencesKept DEF RefreshFileRevision
    <2>7. CASE Refused(l)
      BY <1>7, <2>7 DEF Refused
    <2> QED
      BY <1>10, <2>1, <2>2, <2>3, <2>4, <2>5, <2>6, <2>7 DEF Settle
  <1>11. ASSUME NEW k \in Dependents, FinalizeBlockedKind(k)
         PROVE  Fences'
    <2>1. \A i \in Job : /\ jobs'[i].attempt = jobs[i].attempt
                         /\ jobs'[i].fence = jobs[i].fence
                         /\ jobs'[i] = jobs[i] \/ jobs[i].state = "pending"
      BY <1>1, <1>11 DEF FinalizeBlockedKind, Blocked, Row
    <2>2. \A l \in held : jobs[l.job].state = "pending" => jobs[l.job].fence # l.fence
      BY DEF Fences, FenceMeansLeased, Owns
    <2> QED
      BY <1>2, <1>11, <2>1, <2>2, FencesKept DEF FinalizeBlockedKind
  <1> QED
    BY <1>3, <1>4, <1>5, <1>6, <1>7, <1>8, <1>9, <1>10, <1>11
    DEF Next, vars, WriteScanManifest, StartAnalyze, End, ReadMetadataCounts

-----------------------------------------------------------------------------
(* The projection *)

\* What an entry of the projection must say of the rows js and the manifest mf.
Says(js, mf, e) ==
    /\ e \in Entry
    /\ Live(js[e.job])
    /\ InScope(mf, js, e.job, e.scope)
    /\ e.ready = Ready(js, e.job)
    /\ e.state = js[e.job].state

\* Membership in a rebuilt projection, stated entry by entry.
LEMMA RebuiltSays == \A js, mf, e : e \in Rebuilt(js, mf) <=> Says(js, mf, e)
  <1> SUFFICES ASSUME NEW js, NEW mf, NEW e
               PROVE  e \in Rebuilt(js, mf) <=> Says(js, mf, e)
    OBVIOUS
  <1>1. \A f : e \in Project(js, mf, f) <=> Says(js, mf, e) /\ e.job.file = f
    BY Zenon DEF Project, Says
  <1>2. Says(js, mf, e) => e.job.file \in Files
    BY DEF Says, Entry, Job
  <1>3. e \in Rebuilt(js, mf) <=> \E f \in Files : e \in Project(js, mf, f)
    BY Zenon DEF Rebuilt
  <1> QED
    BY <1>1, <1>2, <1>3, Zenon

\* The rows of one file decide what its entries say.
LEMMA SaysByFile ==
    ASSUME NEW js, NEW ks, NEW mf, NEW e \in Entry,
           \A j \in Job : j.file = e.job.file => js[j] = ks[j]
    PROVE  Says(js, mf, e) <=> Says(ks, mf, e)
  <1>1. e.job \in Job /\ js[e.job] = ks[e.job]
    BY DEF Entry
  <1>2. PrerequisiteDone(js, e.job) <=> PrerequisiteDone(ks, e.job)
    BY <1>1 DEF PrerequisiteDone
  <1>3. Ready(js, e.job) = Ready(ks, e.job)
    BY <1>2 DEF Ready
  <1> QED
    BY <1>1, <1>3, Zenon DEF Says, InScope

\* The triggers carry an exact projection over a change of the rows.
LEMMA TriggersExact ==
    ASSUME TypeOK, EligibleExact, Triggers, UNCHANGED manifest
    PROVE  EligibleExact'
  <1>1. \A e : e \in eligible <=> Says(jobs, manifest, e)
    BY RebuiltSays, Zenon DEF EligibleExact
  <1>2. ASSUME NEW e PROVE e \in eligible' <=> Says(jobs', manifest, e)
    <2>1. CASE e \in Entry /\ e.job.file \notin Touched
      <3>1. \A j \in Job : j.file = e.job.file => jobs[j] = jobs'[j]
        BY <2>1 DEF Touched, Entry, Job
      <3>2. Says(jobs, manifest, e) <=> Says(jobs', manifest, e)
        BY <2>1, <3>1, SaysByFile
      <3>3. \A f \in Touched : e \notin Project(jobs', manifest, f)
        BY <2>1 DEF Project
      <3>4. e \in eligible' <=> e \in eligible
        BY <2>1, <3>3, Zenon DEF Triggers
      <3> QED
        BY <1>1, <3>2, <3>4
    <2>2. CASE e \in Entry /\ e.job.file \in Touched
      <3>1. e \in eligible' <=> \E f \in Touched : e \in Project(jobs', manifest, f)
        BY <2>2, Zenon DEF Triggers
      <3> QED
        BY <2>2, <3>1, Zenon DEF Project, Says
    <2>3. CASE e \notin Entry
      <3>1. e \notin eligible
        BY <2>3 DEF TypeOK
      <3>2. \A f : e \notin Project(jobs', manifest, f)
        BY <2>3, Zenon DEF Project
      <3> QED
        BY <2>3, <3>1, <3>2, Zenon DEF Triggers, Says
    <2> QED
      BY <2>1, <2>2, <2>3
  <1>3. eligible' = Rebuilt(jobs', manifest)
    BY <1>2, RebuiltSays
  <1> QED
    BY <1>3 DEF EligibleExact, Rebuilt, Project, Live, InScope, Ready, PrerequisiteDone

\* Every step keeps the projection exact.
LEMMA ExactStep ==
    ASSUME TypeOK, EligibleExact, [Next]_vars
    PROVE  EligibleExact'
  <1>1. ASSUME NEW w \in Commands, Open(w)
        PROVE  EligibleExact'
    BY <1>1 DEF Open, EligibleExact, Rebuilt, Project, InScope, Ready, PrerequisiteDone
  <1>2. ASSUME Triggers, UNCHANGED manifest
        PROVE  EligibleExact'
    BY <1>2, TriggersExact
  <1>3. ASSUME NEW seen \in SUBSET Files, WriteScanManifest(seen)
        PROVE  EligibleExact'
    <2>1. \A e : e \in eligible <=> Says(jobs, manifest, e)
      BY RebuiltSays, Zenon DEF EligibleExact
    <2>2. ASSUME NEW e PROVE e \in eligible' <=> Says(jobs, manifest', e)
      <3> DEFINE Frozen(d) == <<d.job, jobs[d.job].rev>> \in manifest'
      <3>1. e \in eligible' <=>
              \/ e \in eligible /\ e.scope = Everything
              \/ \E d \in eligible : /\ d.scope = Everything
                                     /\ Frozen(d)
                                     /\ e = [d EXCEPT !.scope = Diff]
        BY <1>3 DEF WriteScanManifest
      <3>2. CASE e \in Entry /\ e.scope = Everything
        <4>1. Says(jobs, manifest, e) <=> Says(jobs, manifest', e)
          BY <3>2 DEF Says, InScope
        <4>2. \A d \in Entry : e # [d EXCEPT !.scope = Diff]
          BY <3>2 DEF Entry
        <4> QED
          BY <2>1, <3>1, <3>2, <4>1, <4>2 DEF TypeOK
      <3>3. CASE e \in Entry /\ e.scope = Diff
        <4> DEFINE d0 == [e EXCEPT !.scope = Everything]
        <4>1. /\ d0 \in Entry /\ d0.scope = Everything /\ e = [d0 EXCEPT !.scope = Diff]
              /\ d0.job = e.job /\ d0.ready = e.ready /\ d0.state = e.state
          BY <3>3 DEF Entry, Scopes
        <4>2. \A d \in Entry : d.scope = Everything /\ e = [d EXCEPT !.scope = Diff]
                => d = d0
          BY DEF Entry, Scopes
        <4> HIDE DEF d0
        <4>3. e \in eligible' <=> d0 \in eligible /\ Frozen(d0)
          <5>1. \A d \in eligible : d \in Entry
            BY DEF TypeOK
          <5>2. ~(e.scope = Everything)
            BY <3>3
          <5> HIDE DEF Frozen
          <5> QED
            BY <3>1, <4>1, <4>2, <5>1, <5>2, Zenon
        <4>4. Says(jobs, manifest', e) <=> Says(jobs, manifest, d0) /\ Frozen(d0)
          <5>1. Says(jobs, manifest, d0) <=> /\ Live(jobs[e.job])
                                             /\ e.ready = Ready(jobs, e.job)
                                             /\ e.state = jobs[e.job].state
            BY <4>1, Zenon DEF Says, InScope
          <5>2. InScope(manifest', jobs, e.job, e.scope) <=> Frozen(d0)
            BY <3>3, <4>1 DEF InScope
          <5> QED
            BY <3>3, <5>1, <5>2, Zenon DEF Says
        <4> QED
          BY <2>1, <4>3, <4>4
      <3>4. CASE e \notin Entry
        <4>1. \A d \in Entry : [d EXCEPT !.scope = Diff] \in Entry
          BY DEF Entry, Scopes
        <4>2. \A d \in eligible : d \in Entry /\ d # e
          BY <3>4 DEF TypeOK
        <4>3. e \notin eligible'
          BY <3>1, <3>4, <4>1, <4>2, Zenon
        <4> QED
          BY <3>4, <4>3, Zenon DEF Says
      <3> QED
        BY <3>2, <3>3, <3>4 DEF Entry, Scopes
    <2>3. eligible' = Rebuilt(jobs, manifest')
      BY <2>2, RebuiltSays
    <2>4. jobs' = jobs
      BY <1>3 DEF WriteScanManifest
    <2> QED
      BY <2>3, <2>4
      DEF EligibleExact, Rebuilt, Project, Live, InScope, Ready, PrerequisiteDone
  <1>4. ASSUME NEW j \in Job, Lapse(j)
        PROVE  EligibleExact'
    <2>1. \A i \in Job : jobs'[i].rev = jobs[i].rev /\ jobs'[i].state = jobs[i].state
      BY <1>4 DEF Lapse, TypeOK, Row
    <2>2. \A i \in Job : PrerequisiteDone(jobs', i) <=> PrerequisiteDone(jobs, i)
      BY <2>1 DEF PrerequisiteDone
    <2>3. \A i \in Job : Ready(jobs', i) = Ready(jobs, i)
      BY <2>2 DEF Ready
    <2>4. ASSUME NEW e PROVE Says(jobs', manifest, e) <=> Says(jobs, manifest, e)
      <3>1. CASE e \in Entry
        <4>1. e.job \in Job
          BY <3>1 DEF Entry
        <4> QED
          BY <2>1, <2>3, <4>1, Zenon DEF Says, Live, InScope
      <3> QED
        BY <3>1 DEF Says
    <2>5. eligible = Rebuilt(jobs', manifest)
      BY <2>4, RebuiltSays, Zenon DEF EligibleExact
    <2> QED
      BY <1>4, <2>5
      DEF Lapse, EligibleExact, Rebuilt, Project, Live, InScope, Ready, PrerequisiteDone
  <1>5. ASSUME UNCHANGED <<jobs, manifest, eligible>>
        PROVE  EligibleExact'
    BY <1>5 DEF EligibleExact, Rebuilt, Project, Live, InScope, Ready, PrerequisiteDone
  <1>6. ASSUME NEW l \in held, Settle(l)
        PROVE  EligibleExact'
    BY <1>2, <1>5, <1>6, Zenon
    DEF Settle, Renew, CommitJob, CommitPartialDSP, FailJob, ReleaseJob,
        RefreshFileRevision, Refused, Stopped
  <1> QED
    BY <1>1, <1>2, <1>3, <1>4, <1>5, <1>6
    DEF Next, vars, RetryFailed, Observe, StartAnalyze, End, Stopped, Claim,
        ReadMetadataCounts, FinalizeBlockedKind

\* The projection is exact at first.
LEMMA InitExact == Init => EligibleExact
  <1> SUFFICES ASSUME Init PROVE EligibleExact
    OBVIOUS
  <1>1. \A e : ~Says(jobs, manifest, e)
    BY DEF Init, Says, Live, Entry, NoRow
  <1> QED
    BY <1>1, RebuiltSays DEF EligibleExact, Init

\* The projection that the triggers maintain statement by statement is always
\* the one a restart would rebuild from the durable rows and the manifest.
THEOREM ProjectionExact == Spec => []EligibleExact
  BY TypesHold, InitExact, ExactStep, PTL DEF Spec

-----------------------------------------------------------------------------
(* Results and prerequisites *)

\* Opening requeues the leases of the process before, and nothing is claimed
\* until the analysis starts.
ScanUnleased ==
    phase \in {"opened", "scanning"} => \A j \in Job : jobs[j].state # "leased"

\* A step that leases only what is ready, and takes no job out of completed.
LEMMA LeasedKept ==
    ASSUME LeasedAfterMetadata,
           \A j \in Job : jobs'[j].state = "leased" =>
               /\ jobs[j].state = "leased" \/ Ready(jobs, j)
               /\ jobs'[j].rev = jobs[j].rev,
           \A m \in Job : jobs[m].state = "completed" =>
               jobs'[m].state = "completed" /\ jobs'[m].rev = jobs[m].rev
    PROVE  LeasedAfterMetadata'
  BY DEF LeasedAfterMetadata, Ready, PrerequisiteDone

\* Opening returns leased rows to pending and leaves completed ones alone.
LEMMA OpenRows ==
    ASSUME TypeOK, NEW w \in Commands, Open(w), NEW j \in Job
    PROVE  /\ jobs'[j].state # "leased"
           /\ jobs'[j].state = "completed" => jobs'[j] = jobs[j]
           /\ jobs[j].state = "completed" => jobs'[j] = jobs[j]
  BY RequeuedRow DEF Open, TypeOK

\* RetryFailed touches failed rows only.
LEMMA RetryRows ==
    ASSUME TypeOK, RetryFailed, NEW j \in Job
    PROVE  \/ jobs'[j] = jobs[j]
           \/ jobs[j].state = "failed" /\ jobs'[j].state = "pending"
  <1>1. [Requeued(jobs[j]) EXCEPT !.code = ""].state = "pending"
    BY DEF TypeOK, Requeued, Row
  <1> QED
    BY <1>1 DEF RetryFailed, MayRetryFailed

\* A scan leases nothing, and leaves a job completed only at its revision.
LEMMA ObserveRows ==
    ASSUME TypeOK, NEW f \in Files, NEW r \in Revs, Observe(f, r), NEW j \in Job
    PROVE  \/ jobs'[j] = jobs[j]
           \/ jobs'[j].state = "superseded"
           \/ jobs'[j].state \in {"pending", "failed"} /\ jobs[j].state # "completed"
           \/ jobs'[j].state = "pending" /\ jobs'[j].rev # jobs[j].rev
           \/ /\ jobs'[j].state = "completed" /\ jobs[j].state = "completed"
              /\ jobs'[j].rev = jobs[j].rev
  <1>1. jobs[j] \in Row
    BY DEF TypeOK
  <1>2. jobs[j].state = "completed" /\ Upserted(jobs[j], r).state # "completed"
          => Upserted(jobs[j], r).state = "pending" /\ jobs[j].rev # r
    BY <1>1, UpsertedRow
  <1> QED
    BY <1>1, <1>2, ObservedRow, UpsertedRow, SupersededRow DEF Observe

\* Refreshing moves the jobs of one file and revision, all to pending.
LEMMA RefreshRows ==
    ASSUME TypeOK, NEW l \in held, NEW r \in Revs, RefreshFileRevision(l, r),
           NEW j \in Job
    PROVE  IF j.file = l.job.file /\ jobs[j].rev = l.rev
             THEN jobs'[j].state = "pending" /\ jobs'[j].rev = r
             ELSE jobs'[j] = jobs[j]
  <1>1. /\ [Requeued(jobs[j]) EXCEPT !.rev = r, !.code = ""].state = "pending"
        /\ [Requeued(jobs[j]) EXCEPT !.rev = r, !.code = ""].rev = r
    BY DEF TypeOK, Requeued, Row
  <1> QED
    BY <1>1 DEF RefreshFileRevision

\* A step that may only fail, release or finalize jobs that are not completed.
LEMMA SettleRows ==
    ASSUME TypeOK, Fences, NEW l \in held, NEW j \in Job,
           \/ Renew(l)
           \/ \E code \in {"transient", "permanent"}, retry \in BOOLEAN :
                FailJob(l, code, retry)
           \/ ReleaseJob(l)
    PROVE  /\ jobs[j].state # "completed" => jobs'[j].state # "completed"
           /\ jobs'[j].state = "leased" => jobs[j].state = "leased"
           /\ jobs'[j].rev = jobs[j].rev
           /\ jobs[j].state = "completed" => jobs'[j].state = "completed"
  <1>0. l.job \in Job /\ jobs[l.job] \in Row /\ jobs[j] \in Row
    BY DEF TypeOK, Lease
  <1>1. CASE Renew(l)
    BY <1>0, <1>1 DEF Renew, TypeOK, Row
  <1>2. ASSUME NEW code \in {"transient", "permanent"}, NEW retry \in BOOLEAN,
               FailJob(l, code, retry)
        PROVE  /\ jobs[j].state # "completed" => jobs'[j].state # "completed"
               /\ jobs'[j].state = "leased" => jobs[j].state = "leased"
               /\ jobs'[j].rev = jobs[j].rev
               /\ jobs[j].state = "completed" => jobs'[j].state = "completed"
    <2>1. jobs[l.job].state = "leased"
      BY <1>2 DEF FailJob, Fences, FenceMeansLeased, Owns, Fenced
    <2>2. code \in Code
      BY DEF Code
    <2>3. jobs' = [jobs EXCEPT ![l.job] = Failed(jobs[l.job], code, retry)]
      BY <1>2 DEF FailJob, TypeOK
    <2>4. /\ jobs'[j] = IF j = l.job THEN Failed(jobs[l.job], code, retry) ELSE jobs[j]
      BY <1>0, <2>3 DEF TypeOK
    <2> QED
      BY <1>0, <2>1, <2>2, <2>4, FailedRow
  <1>3. CASE ReleaseJob(l)
    BY <1>0, <1>3, RequeuedRow DEF ReleaseJob, Owns, TypeOK
  <1> QED
    BY <1>1, <1>2, <1>3

\* No row is leased while a scan may run.
LEMMA UnleasedStep ==
    ASSUME TypeOK, ScanUnleased, [Next]_vars
    PROVE  ScanUnleased'
  <1>1. ASSUME NEW w \in Commands, Open(w)
        PROVE  ScanUnleased'
    BY <1>1, OpenRows DEF ScanUnleased
  <1>2. CASE RetryFailed
    BY <1>2, RetryRows DEF RetryFailed, ScanUnleased
  <1>3. ASSUME NEW f \in Files, NEW r \in Revs, Observe(f, r)
        PROVE  ScanUnleased'
    BY <1>3, ObserveRows DEF Observe, ScanUnleased
  <1>4. ASSUME phase' \notin {"opened", "scanning"}
        PROVE  ScanUnleased'
    BY <1>4 DEF ScanUnleased
  <1>5. ASSUME UNCHANGED vars
        PROVE  ScanUnleased'
    BY <1>5 DEF vars, ScanUnleased
  <1>6. ASSUME NEW l \in held, Settle(l)
        PROVE  ScanUnleased'
    BY <1>4, <1>6
    DEF Settle, Renew, CommitJob, CommitPartialDSP, FailJob, ReleaseJob,
        RefreshFileRevision, Refused, Stopped
  <1> QED
    BY <1>1, <1>2, <1>3, <1>4, <1>5, <1>6
    DEF Next, WriteScanManifest, StartAnalyze, End, Stopped, Claim, Lapse,
        ReadMetadataCounts, FinalizeBlockedKind

\* Every step leaves leased jobs behind completed metadata.
LEMMA LeasedStep ==
    ASSUME TypeOK, Fences, EligibleExact, ScanUnleased, LeasedAfterMetadata, [Next]_vars
    PROVE  LeasedAfterMetadata'
  <1>1. ASSUME \A j \in Job : jobs'[j].state # "leased"
        PROVE  LeasedAfterMetadata'
    BY <1>1 DEF LeasedAfterMetadata
  <1>2. ASSUME NEW w \in Commands, Open(w)
        PROVE  LeasedAfterMetadata'
    BY <1>1, <1>2, OpenRows
  <1>3. CASE RetryFailed
    BY <1>1, <1>3, RetryRows DEF RetryFailed, ScanUnleased
  <1>4. ASSUME NEW f \in Files, NEW r \in Revs, Observe(f, r)
        PROVE  LeasedAfterMetadata'
    BY <1>1, <1>4, ObserveRows DEF Observe, ScanUnleased
  <1>5. ASSUME UNCHANGED jobs
        PROVE  LeasedAfterMetadata'
    BY <1>5, LeasedKept
  <1>6. ASSUME NEW j \in Job, Claim(j)
        PROVE  LeasedAfterMetadata'
    <2>1. Ready(jobs, j)
      <3>1. PICK e \in eligible : e.job = j /\ e.ready
        BY <1>6 DEF Claim, Claimable
      <3>2. e.ready = Ready(jobs, e.job)
        BY RebuiltSays, Zenon DEF EligibleExact, Says
      <3> QED
        BY <3>1, <3>2
    <2>2. jobs[j].state # "completed"
      BY <1>6 DEF Claim, Claimable
    <2>3. jobs'[j].state = "leased" /\ jobs'[j].rev = jobs[j].rev
      BY <1>6 DEF Claim, TypeOK, Row
    <2>4. \A i \in Job : i # j => jobs'[i] = jobs[i]
      BY <1>6 DEF Claim, TypeOK
    <2> QED
      BY <2>1, <2>2, <2>3, <2>4, LeasedKept
  <1>7. ASSUME NEW j \in Job, Lapse(j)
        PROVE  LeasedAfterMetadata'
    <2>1. \A i \in Job : jobs'[i].rev = jobs[i].rev /\ jobs'[i].state = jobs[i].state
      BY <1>7 DEF Lapse, TypeOK, Row
    <2> QED
      BY <2>1, LeasedKept
  <1>8. ASSUME NEW l \in held, Settle(l)
        PROVE  LeasedAfterMetadata'
    <2>1. CASE \/ Renew(l)
               \/ \E code \in {"transient", "permanent"}, retry \in BOOLEAN :
                    FailJob(l, code, retry)
               \/ ReleaseJob(l)
      BY <2>1, SettleRows, LeasedKept
    <2>2. CASE CommitJob(l)
      <3>1. /\ jobs'[l.job].state = "completed" /\ jobs'[l.job].rev = jobs[l.job].rev
            /\ \A i \in Job : i # l.job => jobs'[i] = jobs[i]
        BY <2>2 DEF CommitJob, TypeOK, Lease, Row
      <3> QED
        BY <3>1, LeasedKept
    <2>3. CASE CommitPartialDSP(l) \/ Refused(l)
      BY <1>5, <2>3 DEF CommitPartialDSP, Refused, Stopped
    <2>4. ASSUME NEW r \in Revs, RefreshFileRevision(l, r)
          PROVE  LeasedAfterMetadata'
      BY <2>4, RefreshRows DEF LeasedAfterMetadata, Ready, PrerequisiteDone
    <2> QED
      BY <1>8, <2>1, <2>2, <2>3, <2>4 DEF Settle
  <1>9. ASSUME NEW k \in Dependents, FinalizeBlockedKind(k)
        PROVE  LeasedAfterMetadata'
    <2>1. \A i \in Job : \/ jobs'[i] = jobs[i]
                         \/ jobs[i].state = "pending" /\ jobs'[i].state = "failed"
      BY <1>9 DEF FinalizeBlockedKind, Blocked, TypeOK, Row
    <2> QED
      BY <2>1, LeasedKept
  <1> QED
    BY <1>2, <1>3, <1>4, <1>5, <1>6, <1>7, <1>8, <1>9
    DEF Next, vars, WriteScanManifest, StartAnalyze, End, Stopped, ReadMetadataCounts

\* Every step leaves completed jobs with their results.
LEMMA CompletedStep ==
    ASSUME TypeOK, Fences, CompletedHasResult, [Next]_vars
    PROVE  CompletedHasResult'
  <1>1. ASSUME UNCHANGED results,
               \A j \in Job : jobs'[j].state = "completed" =>
                 jobs[j].state = "completed" /\ jobs'[j].rev = jobs[j].rev
        PROVE  CompletedHasResult'
    BY <1>1 DEF CompletedHasResult
  <1>2. ASSUME NEW w \in Commands, Open(w)
        PROVE  CompletedHasResult'
    <2>1. \A j \in Job : jobs[j].state # "leased" => jobs'[j] = jobs[j]
      BY <1>2 DEF Open
    <2> QED
      BY <1>1, <1>2, <2>1, OpenRows DEF Open, CompletedHasResult
  <1>3. CASE RetryFailed
    BY <1>1, <1>3, RetryRows DEF RetryFailed
  <1>4. ASSUME NEW f \in Files, NEW r \in Revs, Observe(f, r)
        PROVE  CompletedHasResult'
    BY <1>1, <1>4, ObserveRows DEF Observe
  <1>5. ASSUME UNCHANGED <<jobs, results>>
        PROVE  CompletedHasResult'
    BY <1>5 DEF CompletedHasResult
  <1>6. ASSUME NEW j \in Job, Claim(j)
        PROVE  CompletedHasResult'
    <2>1. jobs'[j].state = "leased"
      BY <1>6 DEF Claim, TypeOK, Row
    <2>2. \A i \in Job : i # j => jobs'[i] = jobs[i]
      BY <1>6 DEF Claim, TypeOK
    <2> QED
      BY <1>1, <1>6, <2>1, <2>2 DEF Claim
  <1>7. ASSUME NEW j \in Job, Lapse(j)
        PROVE  CompletedHasResult'
    <2>1. \A i \in Job : jobs'[i].rev = jobs[i].rev /\ jobs'[i].state = jobs[i].state
      BY <1>7 DEF Lapse, TypeOK, Row
    <2> QED
      BY <1>1, <1>7, <2>1 DEF Lapse
  <1>8. ASSUME NEW l \in held, Settle(l)
        PROVE  CompletedHasResult'
    <2>1. CASE \/ Renew(l)
               \/ \E code \in {"transient", "permanent"}, retry \in BOOLEAN :
                    FailJob(l, code, retry)
               \/ ReleaseJob(l)
      <3>1. UNCHANGED results
        BY <2>1 DEF Renew, FailJob, ReleaseJob
      <3> QED
        BY <1>1, <2>1, <3>1, SettleRows
    <2>2. CASE CommitJob(l)
      <3>1. /\ l.job \in Job
            /\ jobs'[l.job].rev = l.rev
            /\ \A i \in Job : i # l.job => jobs'[i] = jobs[i]
        BY <2>2 DEF CommitJob, Owns, Fenced, TypeOK, Lease, Row
      <3>2. /\ results'[l.job] = l.rev
            /\ \A i \in Job : i # l.job => results'[i] = results[i]
        BY <2>2, <3>1 DEF CommitJob, TypeOK
      <3> QED
        BY <3>1, <3>2 DEF CompletedHasResult
    <2>3. CASE CommitPartialDSP(l) \/ Refused(l)
      BY <1>5, <2>3 DEF CommitPartialDSP, Refused, Stopped
    <2>4. ASSUME NEW r \in Revs, RefreshFileRevision(l, r)
          PROVE  CompletedHasResult'
      <3>1. UNCHANGED results
        BY <2>4 DEF RefreshFileRevision
      <3> QED
        BY <1>1, <2>4, <3>1, RefreshRows
    <2> QED
      BY <1>8, <2>1, <2>2, <2>3, <2>4 DEF Settle
  <1>9. ASSUME NEW k \in Dependents, FinalizeBlockedKind(k)
        PROVE  CompletedHasResult'
    <2>1. \A i \in Job : jobs'[i] = jobs[i] \/ jobs'[i].state = "failed"
      BY <1>9 DEF FinalizeBlockedKind, TypeOK, Row
    <2> QED
      BY <1>1, <1>9, <2>1 DEF FinalizeBlockedKind
  <1> QED
    BY <1>2, <1>3, <1>4, <1>5, <1>6, <1>7, <1>8, <1>9
    DEF Next, vars, WriteScanManifest, StartAnalyze, End, Stopped, ReadMetadataCounts

-----------------------------------------------------------------------------
(* The theorems *)

IInv ==
    /\ TypeOK
    /\ Seen
    /\ Fences
    /\ EligibleExact
    /\ ScanUnleased
    /\ LeasedAfterMetadata
    /\ CompletedHasResult

\* The inductive invariant holds throughout.
LEMMA IInvHolds == Spec => []IInv
  <1>1. Init => IInv
    <2> SUFFICES ASSUME Init PROVE IInv
      OBVIOUS
    <2>1. TypeOK /\ Seen
      BY InitTypes
    <2>2. \A j \in Job : jobs[j].state = "none"
      BY DEF Init, NoRow
    <2> QED
      BY <2>1, <2>2, InitExact
      DEF Init, IInv, Fences, FenceMeansLeased, ScanUnleased, LeasedAfterMetadata,
          CompletedHasResult
  <1>2. IInv /\ [Next]_vars => IInv'
    BY TypeStep, RowStep, FencesStep, ExactStep, UnleasedStep, LeasedStep, CompletedStep
    DEF IInv
  <1> QED
    BY <1>1, <1>2, PTL DEF Spec

\* A lease whose fence is still the row's is on a leased row of its revision,
\* so FailJob, which checks no state, never fails a job that was settled.
THEOREM FenceSafe == Spec => []FenceMeansLeased
  <1>1. IInv => FenceMeansLeased
    BY DEF IInv, Fences
  <1> QED
    BY <1>1, IInvHolds, PTL

\* Audio, CLAP and EffNet jobs are leased only over metadata completed at the
\* same revision, through retries, releases, refreshes and crashes.
THEOREM PrerequisiteSafe == Spec => []LeasedAfterMetadata
  <1>1. IInv => LeasedAfterMetadata
    BY DEF IInv
  <1> QED
    BY <1>1, IInvHolds, PTL

\* A job is completed only at the revision its own result row carries.
THEOREM ResultSafe == Spec => []CompletedHasResult
  <1>1. IInv => CompletedHasResult
    BY DEF IInv
  <1> QED
    BY <1>1, IInvHolds, PTL

\* No late, duplicated or retried worker takes a job out of completed: only a
\* new revision of the source or a new contract does.
THEOREM CompletedFinal == Spec => CompletedIsFinal
  <1> DEFINE Final(j) ==
        jobs[j].state = "completed" /\ jobs'[j].state # "completed"
          => jobs'[j].rev # jobs[j].rev \/ jobs'[j].state = "superseded"
  <1>1. ASSUME IInv, [Next]_vars, NEW j \in Job
        PROVE  Final(j)
    <2> USE DEF IInv
    <2>1. ASSUME NEW w \in Commands, Open(w)
          PROVE  Final(j)
      BY <1>1, <2>1, OpenRows
    <2>2. CASE RetryFailed
      BY <1>1, <2>2, RetryRows
    <2>3. ASSUME NEW f \in Files, NEW r \in Revs, Observe(f, r)
          PROVE  Final(j)
      BY <1>1, <2>3, ObserveRows
    <2>4. ASSUME UNCHANGED jobs
          PROVE  Final(j)
      BY <2>4
    <2>5. ASSUME NEW i \in Job, Claim(i)
          PROVE  Final(j)
      BY <1>1, <2>5 DEF Claim, Claimable, TypeOK
    <2>6. ASSUME NEW i \in Job, Lapse(i)
          PROVE  Final(j)
      BY <1>1, <2>6 DEF Lapse, TypeOK
    <2>7. ASSUME NEW l \in held, Settle(l)
          PROVE  Final(j)
      <3>1. CASE \/ Renew(l)
                 \/ \E code \in {"transient", "permanent"}, retry \in BOOLEAN :
                      FailJob(l, code, retry)
                 \/ ReleaseJob(l)
        BY <1>1, <3>1, SettleRows
      <3>2. CASE CommitJob(l)
        BY <1>1, <3>2 DEF CommitJob, Owns, TypeOK
      <3>3. CASE CommitPartialDSP(l) \/ Refused(l)
        BY <2>4, <3>3 DEF CommitPartialDSP, Refused, Stopped
      <3>4. ASSUME NEW r \in Revs, RefreshFileRevision(l, r)
            PROVE  Final(j)
        BY <1>1, <3>4, RefreshRows DEF RefreshFileRevision
      <3> QED
        BY <2>7, <3>1, <3>2, <3>3, <3>4 DEF Settle
    <2>8. ASSUME NEW k \in Dependents, FinalizeBlockedKind(k)
          PROVE  Final(j)
      BY <1>1, <2>8 DEF FinalizeBlockedKind, Blocked, TypeOK
    <2> QED
      BY <1>1, <2>1, <2>2, <2>3, <2>4, <2>5, <2>6, <2>7, <2>8
      DEF Next, vars, WriteScanManifest, StartAnalyze, End, Stopped, ReadMetadataCounts
  <1>2. IInv /\ [Next]_vars => [\A j \in Job : Final(j)]_vars
    BY <1>1
  <1> QED
    BY <1>2, IInvHolds, PTL DEF Spec, CompletedIsFinal

=============================================================================
