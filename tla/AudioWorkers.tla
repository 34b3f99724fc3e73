---------------------------- MODULE AudioWorkers ----------------------------
(***************************************************************************)
(* The audio workers of one run (runAudio and processAudio of              *)
(* internal/libraryindex/pipeline.go) over the native sessions, their      *)
(* supervisor and the reuse cache.                                         *)
(*                                                                         *)
(* A track is claimed, waits while MERT is down, looks its recording up in *)
(* the cache, computes its vector with a session or takes over another     *)
(* track's, commits, and is settled.  A track put back for an outage is    *)
(* not charged, and is dispatched again.                                   *)
(*                                                                         *)
(* A track has one window.  The CPU reservation between the second and the *)
(* third look at the session's health is only the time that passes; the    *)
(* reservations themselves are in AnalysisAdmission.                       *)
(***************************************************************************)
EXTENDS MERTSupervisor, ReuseCache

CONSTANTS
    Tracks,
    RecordingOf,  \* metadataRecordingIdentity of each track, or NoKey
    NoKey, NoTrack

ASSUME RecordingsAssumption ==
    /\ RecordingOf \in [Tracks -> Recordings \cup {NoKey}]
    /\ NoKey \notin Recordings
    /\ NoTrack \notin Tracks
    /\ Claimants = Workers

VARIABLES
    job,      \* of each track: "pending", "leased", "completed", "failed"
    at,       \* where each worker is
    track,    \* the track it is at, or NoTrack
    result,   \* how processAudio will end: "none", "vector", "charge", "defer"
    stop      \* StopAdmission is closed: nothing more is dispatched

workerVars == <<job, at, track, result, stop>>
audioVars == <<mertVars, cacheVars, workerVars>>

Places ==
    {"idle", "paused", "claim", "joined", "check", "queue", "holding", "admitted",
     "infer", "confirm", "down", "telling", "commit", "finish", "gone"}

AudioInit ==
    /\ MERTInit
    /\ CacheInit({})
    /\ job = [t \in Tracks |-> "pending"]
    /\ at = [w \in Workers |-> "idle"]
    /\ track = [w \in Workers |-> NoTrack]
    /\ result = [w \in Workers |-> "none"]
    /\ stop = FALSE

AudioTypeOK ==
    /\ MERTTypeOK
    /\ CacheTypeOK
    /\ job \in [Tracks -> {"pending", "leased", "completed", "failed"}]
    /\ at \in [Workers -> Places]
    /\ track \in [Workers -> Tracks \cup {NoTrack}]
    /\ result \in [Workers -> {"none", "vector", "charge", "defer"}]
    /\ stop \in BOOLEAN

-----------------------------------------------------------------------------

Key(w) == RecordingOf[track[w]]
HasFlight(w) == Key(w) # NoKey /\ flights[Key(w)] = w

Go(w, place) == at' = [at EXCEPT ![w] = place] /\ UNCHANGED <<job, track, result, stop>>

GoWith(w, place, r) ==
    /\ at' = [at EXCEPT ![w] = place]
    /\ result' = [result EXCEPT ![w] = r]
    /\ UNCHANGED <<job, track, stop>>

Settled(r) ==
    CASE r = "vector" -> {"completed"}
      [] r = "defer"  -> {"pending"}
      [] r = "charge" -> {"pending", "failed"}

\* The worker's turn ends: it leaves the tracker, and the job is done, released
\* without a charge, retried or failed.  Once the context has ended that write
\* fails, and the next start of the program puts the job back instead.
Settle(w, r) ==
    /\ \E after \in Settled(r) : job' = [job EXCEPT ![track[w]] = after]
    /\ track' = [track EXCEPT ![w] = NoTrack]
    /\ result' = [result EXCEPT ![w] = "none"]
    /\ UNCHANGED stop

\* The worker takes a job that the dispatcher has leased for it, and waits for
\* MERT if it is down (mertSupervisor.wait).
Take(w) ==
    /\ at[w] = "idle" /\ ~stop /\ ~ended
    /\ \E t \in Tracks :
        /\ job[t] = "pending"
        /\ job' = [job EXCEPT ![t] = "leased"]
        /\ track' = [track EXCEPT ![w] = t]
    /\ at' = [at EXCEPT ![w] = IF ready THEN "claim" ELSE "paused"]
    /\ UNCHANGED <<result, stop, mertVars, cacheVars>>

\* Shutdown or cancellation while paused: the job is put back.
StopPause(w) ==
    /\ at[w] = "paused" /\ (stop \/ ended)
    /\ at' = [at EXCEPT ![w] = "idle"]
    /\ Settle(w, "defer")
    /\ UNCHANGED <<mertVars, cacheVars>>

\* claimReusableMERT.
FindValue(w) ==
    /\ at[w] = "claim" /\ Key(w) # NoKey
    /\ ClaimValue(Key(w))
    /\ GoWith(w, "commit", "vector")
    /\ UNCHANGED mertVars

BeginFlight(w) ==
    /\ at[w] = "claim"
    /\ IF Key(w) = NoKey THEN UNCHANGED cacheVars ELSE ClaimFlight(w, Key(w))
    /\ Go(w, "check")
    /\ UNCHANGED mertVars

AwaitFlight(w) ==
    /\ at[w] = "claim" /\ Key(w) # NoKey
    /\ Join(w, Key(w))
    /\ Go(w, "joined")
    /\ UNCHANGED mertVars

\* The context ends while the worker waits for another's flight.
AbandonFlight(w) ==
    /\ at[w] = "joined" /\ ended
    /\ LeaveFlight(w, Key(w))
    /\ at' = [at EXCEPT ![w] = "idle"]
    /\ Settle(w, "charge")
    /\ UNCHANGED mertVars

-----------------------------------------------------------------------------
\* acquireMERT: three looks at the health, around two waits.

FirstLook(w) ==
    /\ at[w] = "check"
    /\ \/ ready /\ QueueForSession(w) /\ Go(w, "queue")
       \/ ~ready /\ GoWith(w, "finish", "defer") /\ UNCHANGED sessionVars
    /\ UNCHANGED <<eventVars, loopVars, ended, cacheVars>>

Acquire(w) ==
    /\ at[w] = "queue"
    /\ GetSession(w)
    /\ Go(w, "holding")
    /\ UNCHANGED <<eventVars, loopVars, ended, cacheVars>>

AcquireCanceled(w) ==
    /\ at[w] = "queue" /\ ended
    /\ LeaveSessionQueue(w)
    /\ GoWith(w, "finish", "charge")
    /\ UNCHANGED <<eventVars, loopVars, ended, cacheVars>>

\* available(worker)
Usable(w) == ready /\ Held(w) \cap quarantined = {}

Look(w, here, next) ==
    /\ at[w] = here
    /\ \/ Usable(w) /\ Go(w, next) /\ UNCHANGED sessionVars
       \/ ~Usable(w) /\ ReleaseSession(w) /\ GoWith(w, "finish", "defer")
    /\ UNCHANGED <<eventVars, loopVars, ended, cacheVars>>

SecondLook(w) == Look(w, "holding", "admitted")
ThirdLook(w) == Look(w, "admitted", "infer")

\* The wait for CPU is canceled.
AdmissionCanceled(w) ==
    /\ at[w] = "admitted" /\ ended
    /\ ReleaseSession(w)
    /\ GoWith(w, "finish", "charge")
    /\ UNCHANGED <<eventVars, loopVars, ended, cacheVars>>

-----------------------------------------------------------------------------
\* The inference, and whose fault it is if it fails.

Infer(w) ==
    /\ at[w] = "infer"
    /\ \/ Fine /\ holder' = Released(w) /\ UNCHANGED <<quarantined, waiting>>
          /\ GoWith(w, "commit", "vector")
       \/ Quarantine(w) /\ Go(w, "confirm")
    /\ UNCHANGED <<eventVars, loopVars, ended, cacheVars>>

\* confirmOutage: the same session is checked, which restarts its process.  A
\* healthy restart leaves the failure with the track; so does the end of ctx.
ConfirmHealthy(w) ==
    /\ at[w] = "confirm"
    /\ \E s \in Held(w) : Healthy(s)
    /\ holder' = Released(w)
    /\ GoWith(w, "finish", "charge")
    /\ UNCHANGED <<waiting, eventVars, loopVars, ended, cacheVars>>

\* A worker that stays unhealthy is one fault with its failed request.
ConfirmUnhealthy(w) ==
    /\ at[w] = "confirm"
    /\ IF ended THEN holder' = Released(w) /\ GoWith(w, "finish", "charge")
                ELSE holder' = holder /\ Go(w, "down")
    /\ UNCHANGED <<quarantined, waiting, faults, eventVars, loopVars, ended, cacheVars>>

\* markDown, with the session still reserved.
DeclareOutage(w) ==
    /\ at[w] = "down"
    /\ \/ MarkDown(w) /\ Go(w, "telling") /\ holder' = holder
       \/ AlreadyDown /\ holder' = Released(w) /\ GoWith(w, "finish", "defer")
    /\ UNCHANGED <<quarantined, waiting, faults, loopVars, ended, cacheVars>>

TellOutage(w) ==
    /\ at[w] = "telling"
    /\ TellDown(w)
    /\ holder' = Released(w)
    /\ GoWith(w, "finish", "defer")
    /\ UNCHANGED <<quarantined, waiting, faults, probe, ended, cacheVars>>

-----------------------------------------------------------------------------
\* The end of processAudio and of the worker's turn.

\* CommitJob, and the value is stored only if it succeeds.  A reused value is
\* not stored again.  A track that fails for a reason of its own, before the
\* session or after it, ends as one whose commit fails.
Commit(w) ==
    /\ at[w] = "commit"
    /\ \/ /\ Fine
          /\ IF HasFlight(w) THEN Store(Key(w)) ELSE UNCHANGED cacheVars
          /\ Go(w, "finish")
       \/ /\ Fault
          /\ UNCHANGED cacheVars
          /\ GoWith(w, "finish", "charge")
    /\ UNCHANGED <<holder, quarantined, waiting, eventVars, loopVars, ended>>

\* The deferred finishReuseFlight, whatever the end; those it wakes look again.
\* Nobody but the dispatcher reads the job between this and its settling.
FinishFlight(w) ==
    /\ at[w] = "finish"
    /\ IF HasFlight(w) THEN Finish(w, Key(w)) ELSE UNCHANGED cacheVars
    /\ at' = [v \in Workers |->
                IF v = w THEN "idle"
                ELSE IF \E k \in Recordings : v \in joined[k] \ joined'[k] THEN "claim"
                ELSE at[v]]
    /\ Settle(w, result[w])
    /\ UNCHANGED mertVars

NoneLeft == \A t \in Tracks : job[t] \in {"completed", "failed"}

\* The channel of jobs is closed once the dispatcher finds nothing left, or is
\* told to stop.
Depart(w) ==
    /\ at[w] = "idle" /\ (NoneLeft \/ stop \/ ended)
    /\ Go(w, "gone")
    /\ UNCHANGED <<mertVars, cacheVars>>

-----------------------------------------------------------------------------
\* The run.

\* recover closes `ready': paused workers go on, even if the next outage comes
\* before they do.
Recovered ==
    /\ Restore
    /\ at' = [w \in Workers |-> IF at[w] = "paused" THEN "claim" ELSE at[w]]
    /\ UNCHANGED <<job, track, result, stop, cacheVars>>

RecoverOn ==
    /\ RecoverBegin \/ RecoverSession \/ RecoverVerdict \/ RecoverEnds \/ TellUp
    /\ UNCHANGED <<workerVars, cacheVars>>

ProbeOn == ProbeStep /\ UNCHANGED <<workerVars, cacheVars>>

WorkersGone == \A w \in Workers : at[w] = "gone"

\* The user asks the run to stop.
RequestStop ==
    /\ ~stop /\ ~ended /\ ~NoneLeft
    /\ stop' = TRUE
    /\ UNCHANGED <<job, at, track, result, mertVars, cacheVars>>

\* The run is canceled, or its workers are gone and the supervisor is stopped.
\* A run is interrupted once: a stop is not followed by a cancellation.
AudioEnd ==
    /\ ~stop \/ WorkersGone
    /\ EndSupervision
    /\ UNCHANGED <<workerVars, cacheVars>>

StopSupervisor == WorkersGone /\ AudioEnd

WorkerStep(w) ==
    \/ Take(w) \/ StopPause(w) \/ FindValue(w) \/ BeginFlight(w) \/ AwaitFlight(w)
    \/ AbandonFlight(w) \/ FirstLook(w) \/ Acquire(w) \/ AcquireCanceled(w)
    \/ SecondLook(w) \/ ThirdLook(w) \/ AdmissionCanceled(w) \/ Infer(w)
    \/ ConfirmHealthy(w) \/ ConfirmUnhealthy(w) \/ DeclareOutage(w) \/ TellOutage(w)
    \/ Commit(w) \/ FinishFlight(w) \/ Depart(w)

\* runAudio returns when its workers are gone and its supervisor has stopped.
AudioOver == WorkersGone /\ SupervisionOver
AudioReturned == AudioOver /\ UNCHANGED audioVars

AudioNext ==
    \/ \E w \in Workers : WorkerStep(w)
    \/ Recovered \/ RecoverOn \/ ProbeOn
    \/ RequestStop \/ AudioEnd
    \/ AudioReturned

AudioSpec == AudioInit /\ [][AudioNext]_audioVars

-----------------------------------------------------------------------------

\* No two workers compute one recording at once, and none computes what is
\* already recorded: the value is stored before the flight is finished, and the
\* claim looks for both under one lock (reuse_cache.go:38-54).
Computing(w) ==
    at[w] \in {"check", "queue", "holding", "admitted", "infer", "confirm"} /\ Key(w) # NoKey
ComputedOnce ==
    \A w \in Workers : Computing(w) =>
        /\ Key(w) \notin values
        /\ \A v \in Workers \ {w} : Computing(v) => Key(v) # Key(w)
=============================================================================
