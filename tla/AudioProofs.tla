----------------------------- MODULE AudioProofs -----------------------------
(* What the audio workers, their sessions and the reuse cache guarantee,     *)
(* however many workers, sessions, tracks and faults there are.              *)
EXTENDS AudioWorkers, FiniteSetTheorems, TLAPS

-----------------------------------------------------------------------------
(* The inductive invariants *)

\* A worker knows its track, and in the end what has become of it.
WorkersKnow ==
    \A w \in Workers :
        /\ at[w] \notin {"idle", "gone"} => track[w] \in Tracks
        /\ at[w] \in {"commit", "finish"} => result[w] # "none"

\* A flight is its worker's until the worker has finished it, and the value it
\* stores is there only then; whoever has joined a flight waits.
ComputingPlaces == {"check", "queue", "holding", "admitted", "infer", "confirm"}
Flying == ComputingPlaces \cup {"down", "telling", "commit", "finish"}
FlightsAreKept ==
    /\ \A k \in Recordings :
        flights[k] # NoFlight => at[flights[k]] \in Flying /\ Key(flights[k]) = k
    /\ \A w \in Workers : Computing(w) => flights[Key(w)] = w
    /\ \A k \in values : flights[k] # NoFlight => at[flights[k]] = "finish"
    /\ \A k \in Recordings : \A v \in joined[k] : at[v] = "joined" /\ Key(v) = k

\* Where an outage is: none, declared and being told, supervised, over and
\* being told, or abandoned by a supervisor that has been stopped.
AllWell == ready /\ told /\ eventMu = Nobody /\ loops = 0 /\ recovery = "none"
BeingDeclared ==
    ~ready /\ told /\ eventMu \in Workers \cup {Probe} /\ loops = 1 /\ recovery = "none"
BeingRecovered ==
    ~ready /\ ~told /\ eventMu = Nobody /\ loops = 1 /\ recovery \in {"delay", "checking", "passed"}
BeingRestored == ready /\ ~told /\ eventMu = Recovery /\ loops = 1 /\ recovery = "telling"
Abandoned == ended /\ ~ready /\ ~told /\ eventMu = Nobody /\ loops = 0 /\ recovery = "none"

OutagePhases ==
    /\ AllWell \/ BeingDeclared \/ BeingRecovered \/ BeingRestored \/ Abandoned
    /\ \A w \in Workers : at[w] = "telling" => eventMu = w
    /\ probe = "telling" => eventMu = Probe

\* A session has one user, who is where sessions are used.
SessionsAreHeld ==
    /\ \A s \in Sessions : holder[s] \in Workers =>
        at[holder[s]] \in {"holding", "admitted", "infer", "confirm", "down", "telling"}
    /\ \A s \in Sessions : holder[s] = Probe => probe = "checking"
    /\ \A s, r \in Sessions : holder[s] = holder[r] /\ holder[s] \in Workers \cup {Probe} => s = r

\* A quarantined session is in the hands of whoever will answer for it, or what
\* it failed for is being declared, or is an outage.
Answered == ~ready \/ ended \/ probe = "failed"
QuarantineIsAnswered ==
    /\ \A s \in quarantined : holder[s] \in {Nobody, Probe} => Answered
    /\ \A s \in quarantined :
        holder[s] \in Workers /\ at[holder[s]] \in {"holding", "admitted"} => Answered
    /\ \A s \in quarantined : holder[s] \in Workers => at[holder[s]] # "infer"
    /\ recovery = "checking" /\ ~unwell => \A s \in quarantined : holder[s] # Recovery
    /\ \A s \in quarantined : holder[s] = Recovery => recovery = "checking"

\* Between the verdict that all sessions are well and the end of the outage
\* nobody works with one.
PassedIsWell ==
    recovery = "passed" =>
        /\ quarantined = {}
        /\ \A s \in Sessions :
            holder[s] = Nobody \/ (holder[s] \in Workers /\ at[holder[s]] = "holding")

AudioInv ==
    /\ AudioTypeOK /\ WorkersKnow /\ FlightsAreKept /\ OutagePhases /\ SessionsAreHeld
    /\ QuarantineIsAnswered /\ PassedIsWell

USE UsersAssumption, FaultsAssumption, RecordingsAssumption, NoFlightAssumption
USE DEF sessionVars, eventVars, loopVars, mertVars, cacheVars, workerVars

\* The three users that are no workers are three.
LEMMA UsersDiffer == Nobody # Probe /\ Nobody # Recovery /\ Probe # Recovery
  <1>1. ASSUME NEW a, NEW b
        PROVE  Cardinality({a, b}) # 3
    <2>1. IsFiniteSet({a}) /\ Cardinality({a}) = 1
      BY FS_Singleton
    <2>2. {a} \cup {b} = {a, b}
      OBVIOUS
    <2>3. Cardinality({a} \cup {b}) \in {1, 2}
      BY <2>1, FS_AddElement
    <2> QED
      BY <2>2, <2>3
  <1>2. Nobody # Probe
    <2> SUFFICES ASSUME Nobody = Probe
                 PROVE  FALSE
      OBVIOUS
    <2>1. {Nobody, Probe, Recovery} = {Nobody, Recovery}
      OBVIOUS
    <2> QED
      BY <1>1, <2>1
  <1>3. Nobody # Recovery
    <2> SUFFICES ASSUME Nobody = Recovery
                 PROVE  FALSE
      OBVIOUS
    <2>1. {Nobody, Probe, Recovery} = {Nobody, Probe}
      OBVIOUS
    <2> QED
      BY <1>1, <2>1
  <1>4. Probe # Recovery
    <2> SUFFICES ASSUME Probe = Recovery
                 PROVE  FALSE
      OBVIOUS
    <2>1. {Nobody, Probe, Recovery} = {Nobody, Probe}
      OBVIOUS
    <2> QED
      BY <1>1, <2>1
  <1> QED
    BY <1>2, <1>3, <1>4

\* The recovery loop that ends is there.
LEMMA LoopIsThere ==
    ASSUME OutagePhases, recovery # "none" \/ eventMu = Recovery
    PROVE  loops = 1
  BY UsersDiffer DEF OutagePhases, AllWell, BeingDeclared, BeingRecovered, BeingRestored, Abandoned

-----------------------------------------------------------------------------
(* Types *)

LEMMA AudioTypesStep == AudioInv /\ [AudioNext]_audioVars => AudioTypeOK'
  <1> SUFFICES ASSUME AudioInv, [AudioNext]_audioVars
               PROVE  AudioTypeOK'
    OBVIOUS
  <1> USE DEF AudioInv, AudioTypeOK, MERTTypeOK, CacheTypeOK, Places
  <1> USE DEF Go, GoWith, Fine, Fault, Released
  <1>0. ASSUME NEW w \in Workers, at[w] \notin {"idle", "gone"}
        PROVE  track[w] \in Tracks /\ Key(w) \in Recordings \cup {NoKey}
    BY <1>0 DEF WorkersKnow, Key
  <1>1. ASSUME NEW w \in Workers, NEW r \in {"vector", "defer", "charge"}, Settle(w, r),
               at[w] \notin {"idle", "gone"}
        PROVE  /\ job' \in [Tracks -> {"pending", "leased", "completed", "failed"}]
               /\ track' \in [Workers -> Tracks \cup {NoTrack}]
               /\ result' \in [Workers -> {"none", "vector", "charge", "defer"}]
               /\ stop' = stop
    BY <1>0, <1>1 DEF Settle, Settled
  <1>2. ASSUME NEW w \in Workers, Take(w)
        PROVE  AudioTypeOK'
    BY <1>2 DEF Take
  <1>3. ASSUME NEW w \in Workers, StopPause(w)
        PROVE  AudioTypeOK'
    BY <1>1, <1>3 DEF StopPause
  <1>4. ASSUME NEW w \in Workers, FindValue(w)
        PROVE  AudioTypeOK'
    BY <1>4 DEF FindValue, ClaimValue
  <1>5. ASSUME NEW w \in Workers, BeginFlight(w)
        PROVE  AudioTypeOK'
    BY <1>0, <1>5 DEF BeginFlight, ClaimFlight
  <1>6. ASSUME NEW w \in Workers, AwaitFlight(w)
        PROVE  AudioTypeOK'
    BY <1>0, <1>6 DEF AwaitFlight, Join
  <1>7. ASSUME NEW w \in Workers, AbandonFlight(w)
        PROVE  AudioTypeOK'
    <2>1. joined' \in [Recordings -> SUBSET Claimants]
      BY <1>7 DEF AbandonFlight, LeaveFlight
    <2> QED
      BY <1>1, <1>7, <2>1 DEF AbandonFlight, LeaveFlight
  <1>8. ASSUME NEW w \in Workers, FirstLook(w)
        PROVE  AudioTypeOK'
    BY <1>8 DEF FirstLook, QueueForSession
  <1>9. ASSUME NEW w \in Workers, Acquire(w) \/ AcquireCanceled(w)
        PROVE  AudioTypeOK'
    BY <1>9 DEF Acquire, AcquireCanceled, GetSession, LeaveSessionQueue, Free
  <1>10. ASSUME NEW w \in Workers, SecondLook(w) \/ ThirdLook(w)
         PROVE  AudioTypeOK'
    BY <1>10 DEF SecondLook, ThirdLook, Look, ReleaseSession
  <1>11. ASSUME NEW w \in Workers, AdmissionCanceled(w)
         PROVE  AudioTypeOK'
    BY <1>11 DEF AdmissionCanceled, ReleaseSession
  <1>12. ASSUME NEW w \in Workers, Infer(w)
         PROVE  AudioTypeOK'
    BY <1>12 DEF Infer, Quarantine, Held
  <1>13. ASSUME NEW w \in Workers, ConfirmHealthy(w)
         PROVE  AudioTypeOK'
    BY <1>13 DEF ConfirmHealthy, Healthy, Held
  <1>14. ASSUME NEW w \in Workers, ConfirmUnhealthy(w)
         PROVE  AudioTypeOK'
    BY <1>14 DEF ConfirmUnhealthy
  <1>15. ASSUME NEW w \in Workers, DeclareOutage(w)
         PROVE  AudioTypeOK'
    <2>1. ready' \in BOOLEAN
      BY <1>15 DEF DeclareOutage, MarkDown, AlreadyDown
    <2>2. holder' \in [Sessions -> Workers \cup {Nobody, Probe, Recovery}]
      BY <1>15 DEF DeclareOutage
    <2>3. loops' \in Nat /\ eventMu' \in Workers \cup {Nobody, Probe, Recovery} /\ told' = told
      BY <1>15 DEF DeclareOutage, MarkDown, AlreadyDown
    <2> QED
      BY <1>15, <2>1, <2>2, <2>3 DEF DeclareOutage
  <1>16. ASSUME NEW w \in Workers, TellOutage(w)
         PROVE  AudioTypeOK'
    BY <1>16 DEF TellOutage, TellDown
  <1>17. ASSUME NEW w \in Workers, Commit(w)
         PROVE  AudioTypeOK'
    BY <1>0, <1>17 DEF Commit, Store, HasFlight
  <1>18. ASSUME NEW w \in Workers, FinishFlight(w)
         PROVE  AudioTypeOK'
    <2>1. flights' \in [Recordings -> Claimants \cup {NoFlight}] /\ joined' \in [Recordings -> SUBSET Claimants]
      BY <1>0, <1>18 DEF FinishFlight, Finish, HasFlight
    <2>2. at' \in [Workers -> Places] /\ values' = values
      BY <1>18 DEF FinishFlight, Finish
    <2>3. result[w] \in {"vector", "defer", "charge"}
      BY <1>18 DEF FinishFlight, WorkersKnow
    <2>4. /\ job' \in [Tracks -> {"pending", "leased", "completed", "failed"}]
          /\ track' \in [Workers -> Tracks \cup {NoTrack}]
          /\ result' \in [Workers -> {"none", "vector", "charge", "defer"}]
          /\ stop' = stop
      BY <1>1, <1>18, <2>3 DEF FinishFlight
    <2> QED
      BY <1>18, <2>1, <2>2, <2>4 DEF FinishFlight
  <1>19. ASSUME NEW w \in Workers, Depart(w)
         PROVE  AudioTypeOK'
    BY <1>19 DEF Depart
  <1>20. CASE Recovered
    <2>1. ready' \in BOOLEAN
      BY <1>20 DEF Recovered, Restore
    <2>2. at' \in [Workers -> Places]
      BY <1>20 DEF Recovered
    <2> QED
      BY <1>20, <2>1, <2>2 DEF Recovered, Restore
  <1>21. CASE RecoverOn
    <2>1. loops' \in Nat
      <3>1. loops' = loops \/ (loops' = loops - 1 /\ (recovery # "none" \/ eventMu = Recovery))
        BY <1>21 DEF RecoverOn, RecoverBegin, RecoverSession, RecoverVerdict, RecoverEnds, TellUp,
                     RecoveryReturns
      <3> QED
        BY <3>1, LoopIsThere
    <2>2. unwell' \in BOOLEAN /\ told' \in BOOLEAN
      BY <1>21 DEF RecoverOn, RecoverBegin, RecoverSession, RecoverVerdict, RecoverEnds, TellUp
    <2>3. UNCHANGED <<workerVars, cacheVars, ready, probe, ended, waiting>>
      BY <1>21 DEF RecoverOn, RecoverBegin, RecoverSession, RecoverVerdict, RecoverEnds, TellUp
    <2>4. holder' \in [Sessions -> Workers \cup {Nobody, Probe, Recovery}]
      BY <1>21 DEF RecoverOn, RecoverBegin, RecoverSession, RecoverVerdict, RecoverEnds, TellUp
    <2>5. quarantined' \subseteq Sessions /\ faults' \in 0..MaxFaults
      BY <1>21 DEF RecoverOn, RecoverBegin, RecoverSession, RecoverVerdict, RecoverEnds, TellUp,
                   Healthy, Unhealthy, Free
    <2>6. recovery' \in {"none", "delay", "checking", "passed", "telling"}
          /\ eventMu' \in Workers \cup {Nobody, Probe, Recovery}
      BY <1>21 DEF RecoverOn, RecoverBegin, RecoverSession, RecoverVerdict, RecoverEnds, TellUp,
                   RecoveryReturns
    <2> QED
      BY <2>1, <2>2, <2>3, <2>4, <2>5, <2>6
  <1>22. CASE ProbeOn
    <2> USE <1>22 DEF ProbeOn, ProbeStep, ProbeBegin, ProbePasses, ProbeFails, ProbeMarksDown,
                   ProbeTells, ProbeEnds, MarkDown, AlreadyDown, TellDown
    <2>1. ready' \in BOOLEAN /\ told' \in BOOLEAN
      OBVIOUS
    <2>2. UNCHANGED <<workerVars, cacheVars, ended, waiting, unwell>>
      OBVIOUS
    <2>3. holder' \in [Sessions -> Workers \cup {Nobody, Probe, Recovery}]
      OBVIOUS
    <2>4. quarantined' \subseteq Sessions /\ faults' \in 0..MaxFaults
      BY DEF Healthy, Unhealthy, Held
    <2>5. recovery' \in {"none", "delay", "checking", "passed", "telling"}
          /\ probe' \in {"idle", "checking", "failed", "telling", "gone"}
          /\ eventMu' \in Workers \cup {Nobody, Probe, Recovery} /\ loops' \in Nat
      OBVIOUS
    <2> QED
      BY <2>1, <2>2, <2>3, <2>4, <2>5
  <1>23. CASE RequestStop \/ AudioEnd
    <2>1. stop' \in BOOLEAN /\ ended' \in BOOLEAN
      BY <1>23 DEF RequestStop, AudioEnd, EndSupervision
    <2>2. UNCHANGED <<job, at, track, result, cacheVars, sessionVars, eventVars, loopVars>>
      BY <1>23 DEF RequestStop, AudioEnd, EndSupervision
    <2> QED
      BY <2>1, <2>2
  <1>24. CASE UNCHANGED audioVars
    BY <1>24 DEF audioVars
  <1> QED
    BY <1>2, <1>3, <1>4, <1>5, <1>6, <1>7, <1>8, <1>9, <1>10, <1>11, <1>12, <1>13, <1>14, <1>15,
       <1>16, <1>17, <1>18, <1>19, <1>20, <1>21, <1>22, <1>23, <1>24
       DEF AudioNext, WorkerStep, AudioReturned

-----------------------------------------------------------------------------
(* Workers and flights *)

\* What neither the supervisor nor the end of the run touches.
LEMMA SupervisionLeavesWorkers ==
    ASSUME RecoverOn \/ ProbeOn \/ RequestStop \/ AudioEnd \/ UNCHANGED audioVars
    PROVE  UNCHANGED <<at, track, result, cacheVars>>
  <1>1. CASE RecoverOn
    BY <1>1 DEF RecoverOn
  <1>2. CASE ProbeOn
    BY <1>2 DEF ProbeOn
  <1>3. CASE RequestStop \/ AudioEnd \/ UNCHANGED audioVars
    BY <1>3 DEF RequestStop, AudioEnd, audioVars
  <1> QED
    BY <1>1, <1>2, <1>3

\* The steps in which a worker only goes from one place to the next, having
\* its session, until it knows how it ends.
SessionsMove(w) ==
    \/ FirstLook(w) \/ Acquire(w) \/ AcquireCanceled(w) \/ SecondLook(w) \/ ThirdLook(w)
    \/ AdmissionCanceled(w) \/ Infer(w) \/ ConfirmHealthy(w) \/ ConfirmUnhealthy(w)
    \/ DeclareOutage(w) \/ TellOutage(w)

LEMMA SessionStepGoes ==
    ASSUME NEW w \in Workers, SessionsMove(w), AudioTypeOK
    PROVE  /\ UNCHANGED <<track, cacheVars>>
           /\ at[w] \in Flying \ {"commit", "finish"}
           /\ \E next \in Flying : \E r \in {"vector", "charge", "defer"} :
                /\ at' = [at EXCEPT ![w] = next]
                /\ next \in ComputingPlaces => at[w] \in ComputingPlaces
                /\ \/ next \notin {"commit", "finish"} /\ result' = result
                   \/ result' = [result EXCEPT ![w] = r]
  <1> USE DEF Go, GoWith, ComputingPlaces, Flying
  <1>1. CASE FirstLook(w) \/ Acquire(w) \/ AcquireCanceled(w)
    BY <1>1 DEF FirstLook, Acquire, AcquireCanceled
  <1>2. CASE SecondLook(w) \/ ThirdLook(w) \/ AdmissionCanceled(w)
    BY <1>2 DEF SecondLook, ThirdLook, Look, AdmissionCanceled
  <1>3. CASE Infer(w) \/ ConfirmHealthy(w) \/ ConfirmUnhealthy(w)
    BY <1>3 DEF Infer, ConfirmHealthy, ConfirmUnhealthy
  <1>4. CASE DeclareOutage(w) \/ TellOutage(w)
    BY <1>4 DEF DeclareOutage, TellOutage
  <1> QED
    BY <1>1, <1>2, <1>3, <1>4 DEF SessionsMove

LEMMA WorkersKnowStep == AudioInv /\ [AudioNext]_audioVars => WorkersKnow'
  <1> SUFFICES ASSUME AudioInv, [AudioNext]_audioVars
               PROVE  WorkersKnow'
    OBVIOUS
  <1> USE DEF AudioInv, AudioTypeOK, Go, GoWith, Settle, WorkersKnow
  <1>1. ASSUME NEW w \in Workers, Take(w)
        PROVE  WorkersKnow'
    BY <1>1 DEF Take
  <1>2. ASSUME NEW w \in Workers, StopPause(w) \/ AbandonFlight(w) \/ Depart(w)
        PROVE  WorkersKnow'
    BY <1>2 DEF StopPause, AbandonFlight, Depart
  <1>3. ASSUME NEW w \in Workers, FindValue(w) \/ BeginFlight(w) \/ AwaitFlight(w)
        PROVE  WorkersKnow'
    BY <1>3 DEF FindValue, BeginFlight, AwaitFlight
  <1>4. ASSUME NEW w \in Workers, SessionsMove(w)
        PROVE  WorkersKnow'
    BY <1>4, SessionStepGoes DEF Flying, ComputingPlaces
  <1>5. ASSUME NEW w \in Workers, Commit(w)
        PROVE  WorkersKnow'
    BY <1>5 DEF Commit
  <1>6. ASSUME NEW w \in Workers, FinishFlight(w)
        PROVE  WorkersKnow'
    <2>1. \A v \in Workers \ {w} :
            /\ at'[v] \in {at[v], "claim"} /\ track'[v] = track[v] /\ result'[v] = result[v]
            /\ at'[v] # at[v] => \E k \in Recordings : v \in joined[k]
      BY <1>6 DEF FinishFlight
    <2>2. at'[w] = "idle"
      BY <1>6 DEF FinishFlight
    <2>3. \A v \in Workers : (\E k \in Recordings : v \in joined[k]) => at[v] = "joined"
      BY DEF FlightsAreKept
    <2> QED
      BY <2>1, <2>2, <2>3
  <1>7. CASE Recovered
    BY <1>7 DEF Recovered
  <1>8. CASE RecoverOn \/ ProbeOn \/ RequestStop \/ AudioEnd \/ UNCHANGED audioVars
    BY <1>8, SupervisionLeavesWorkers
  <1> QED
    BY <1>1, <1>2, <1>3, <1>4, <1>5, <1>6, <1>7, <1>8
       DEF AudioNext, WorkerStep, SessionsMove, AudioReturned

\* A worker that goes on within its flight, or outside of any, changes none.
LEMMA FlightsFrame ==
    ASSUME AudioTypeOK, FlightsAreKept, NEW w \in Workers, UNCHANGED <<track, cacheVars>>,
           NEW next, at' = [at EXCEPT ![w] = next],
           next \in ComputingPlaces => at[w] \in ComputingPlaces,
           \/ at[w] \in Flying \ {"finish"} /\ next \in Flying
           \/ at[w] \notin Flying \cup {"joined"}
    PROVE  FlightsAreKept'
  <1> USE DEF AudioTypeOK, CacheTypeOK, Key, Computing, ComputingPlaces, Flying
  <1>1. \A v \in Workers \ {w} : at'[v] = at[v]
    OBVIOUS
  <1>2. at'[w] = next
    OBVIOUS
  <1>3. \A k \in Recordings : flights[k] # NoFlight => flights[k] \in Workers
    OBVIOUS
  <1>4. \A k \in Recordings : \A v \in joined[k] : v \in Workers
    OBVIOUS
  <1> QED
    BY <1>1, <1>2, <1>3, <1>4 DEF FlightsAreKept

LEMMA FlightsStep == AudioInv /\ [AudioNext]_audioVars => FlightsAreKept'
  <1> SUFFICES ASSUME AudioInv, [AudioNext]_audioVars
               PROVE  FlightsAreKept'
    OBVIOUS
  <1> USE DEF AudioInv, AudioTypeOK, CacheTypeOK
  <1>1. ASSUME NEW w \in Workers, Take(w)
        PROVE  FlightsAreKept'
    <2>1. at[w] = "idle" /\ at'[w] \in {"claim", "paused"} /\ UNCHANGED cacheVars
      BY <1>1 DEF Take
    <2>2. \A v \in Workers \ {w} : at'[v] = at[v] /\ track'[v] = track[v]
      BY <1>1 DEF Take
    <2> QED
      BY <2>1, <2>2 DEF FlightsAreKept, Key, Computing, Flying, ComputingPlaces
  <1>2. ASSUME NEW w \in Workers, StopPause(w)
        PROVE  FlightsAreKept'
    <2>1. at[w] = "paused" /\ at'[w] = "idle" /\ UNCHANGED cacheVars
      BY <1>2 DEF StopPause
    <2>2. \A v \in Workers \ {w} : at'[v] = at[v] /\ track'[v] = track[v]
      BY <1>2 DEF StopPause, Settle
    <2> QED
      BY <2>1, <2>2 DEF FlightsAreKept, Key, Computing, Flying, ComputingPlaces
  <1>3. ASSUME NEW w \in Workers, FindValue(w)
        PROVE  FlightsAreKept'
    BY <1>3, FlightsFrame DEF FindValue, ClaimValue, GoWith, Flying, ComputingPlaces
  <1>4. ASSUME NEW w \in Workers, BeginFlight(w)
        PROVE  FlightsAreKept'
    <2>1. at[w] = "claim" /\ at' = [at EXCEPT ![w] = "check"] /\ UNCHANGED track
      BY <1>4 DEF BeginFlight, Go
    <2>2. track[w] \in Tracks /\ Key(w) \in Recordings \cup {NoKey}
      BY <2>1 DEF WorkersKnow, Key
    <2>3. \A k \in Recordings : flights[k] # w
      BY <2>1 DEF FlightsAreKept, Flying, ComputingPlaces
    <2>4. CASE Key(w) = NoKey
      <3>1. UNCHANGED cacheVars
        BY <1>4, <2>4 DEF BeginFlight
      <3> QED
        BY <2>1, <2>4, <3>1 DEF FlightsAreKept, Key, Computing, Flying, ComputingPlaces
    <2>5. CASE Key(w) # NoKey
      <3>1. /\ Key(w) \in Recordings \ values
            /\ flights[Key(w)] = NoFlight
            /\ flights' = [flights EXCEPT ![Key(w)] = w]
            /\ UNCHANGED <<values, joined>>
        BY <1>4, <2>2, <2>5 DEF BeginFlight, ClaimFlight
      <3>2. \A v \in Workers : Key(v)' = Key(v)
        BY <2>1 DEF Key
      <3>3. \A v \in Workers \ {w} : at'[v] = at[v] /\ (Computing(v)' <=> Computing(v))
        BY <2>1, <3>2 DEF Computing
      <3>4. at'[w] = "check"
        BY <2>1
      <3>5. \A v \in Workers : Computing(v)' => flights'[Key(v)'] = v
        <4>1. ASSUME NEW v \in Workers \ {w}, Computing(v)
              PROVE  flights[Key(v)] = v /\ Key(v) # Key(w)
          BY <3>1, <4>1 DEF FlightsAreKept
        <4>2. ASSUME NEW v \in Workers \ {w}, Computing(v)
              PROVE  Key(v) \in Recordings
          BY <4>2 DEF WorkersKnow, Computing, Key
        <4> QED
          BY <3>1, <3>2, <3>3, <4>1, <4>2
      <3>6. \A k \in Recordings : flights'[k] # NoFlight =>
                at'[flights'[k]] \in Flying /\ RecordingOf[track'[flights'[k]]] = k
        <4> SUFFICES ASSUME NEW k \in Recordings, flights'[k] # NoFlight
                     PROVE  at'[flights'[k]] \in Flying /\ RecordingOf[track'[flights'[k]]] = k
          OBVIOUS
        <4>1. CASE k = Key(w)
          BY <2>1, <2>2, <3>1, <3>4, <4>1 DEF Flying, ComputingPlaces, Key
        <4>2. CASE k # Key(w)
          <5>1. flights'[k] = flights[k] /\ flights[k] \in Workers \ {w}
            BY <2>3, <3>1, <4>2
          <5> QED
            BY <2>1, <3>3, <5>1 DEF FlightsAreKept, Key
        <4> QED
          BY <4>1, <4>2
      <3>7. \A k \in values' : flights'[k] # NoFlight => at'[flights'[k]] = "finish"
        BY <2>1, <3>1, <3>3, <2>3 DEF FlightsAreKept
      <3>8. \A k \in Recordings : \A v \in joined'[k] : at'[v] = "joined" /\ Key(v)' = k
        <4>1. \A k \in Recordings : \A v \in joined[k] : v \in Workers \ {w}
          BY <2>1 DEF FlightsAreKept
        <4> QED
          BY <3>1, <3>2, <3>3, <4>1 DEF FlightsAreKept
      <3> QED
        BY <3>5, <3>6, <3>7, <3>8 DEF FlightsAreKept, Key
    <2> QED
      BY <2>4, <2>5
  <1>5. ASSUME NEW w \in Workers, AwaitFlight(w)
        PROVE  FlightsAreKept'
    <2>1. at[w] = "claim" /\ at' = [at EXCEPT ![w] = "joined"] /\ UNCHANGED <<track, values, flights>>
      BY <1>5 DEF AwaitFlight, Go, Join
    <2>2. \A k \in Recordings : joined'[k] \subseteq joined[k] \cup {w}
      BY <1>5 DEF AwaitFlight, Join
    <2>3. \A k \in Recordings : w \in joined'[k] => k = Key(w)
      <3>1. \A k \in Recordings : w \notin joined[k]
        BY <2>1 DEF FlightsAreKept
      <3> QED
        BY <1>5, <3>1 DEF AwaitFlight, Join
    <2> QED
      BY <2>1, <2>2, <2>3 DEF FlightsAreKept, Key, Computing, Flying, ComputingPlaces
  <1>6. ASSUME NEW w \in Workers, AbandonFlight(w)
        PROVE  FlightsAreKept'
    <2>1. /\ at[w] = "joined" /\ at' = [at EXCEPT ![w] = "idle"]
          /\ UNCHANGED <<values, flights>>
          /\ \A v \in Workers \ {w} : track'[v] = track[v]
      BY <1>6 DEF AbandonFlight, LeaveFlight, Settle
    <2>2. Key(w) \in Recordings \cup {NoKey}
      BY <2>1 DEF WorkersKnow, Key
    <2>3. joined' = [joined EXCEPT ![Key(w)] = @ \ {w}] /\ w \in joined[Key(w)]
      BY <1>6 DEF AbandonFlight, LeaveFlight
    <2>4. \A k \in Recordings : joined'[k] \subseteq joined[k] /\ w \notin joined'[k]
      BY <2>3 DEF FlightsAreKept
    <2> QED
      BY <2>1, <2>4 DEF FlightsAreKept, Key, Computing, Flying, ComputingPlaces
  <1>7. ASSUME NEW w \in Workers, SessionsMove(w)
        PROVE  FlightsAreKept'
    BY <1>7, SessionStepGoes, FlightsFrame
  <1>8. ASSUME NEW w \in Workers, Commit(w)
        PROVE  FlightsAreKept'
    <2>1. at[w] = "commit" /\ at' = [at EXCEPT ![w] = "finish"] /\ UNCHANGED <<track, flights, joined>>
      BY <1>8 DEF Commit, Go, GoWith, Store
    <2>2. values' = values \/ (values' = values \cup {Key(w)} /\ flights[Key(w)] = w)
      BY <1>8 DEF Commit, Store, HasFlight
    <2>3. \A k \in Recordings : flights[k] # NoFlight => flights[k] \in Workers
      OBVIOUS
    <2>4. \A v \in Workers \ {w} : at'[v] = at[v]
      BY <2>1
    <2>5. at'[w] = "finish"
      BY <2>1
    <2>6. \A v \in Workers : Key(v)' = Key(v)
      BY <2>1 DEF Key
    <2>7. \A k \in values' : flights'[k] # NoFlight => at'[flights'[k]] = "finish"
      BY <2>1, <2>2, <2>3, <2>4, <2>5 DEF FlightsAreKept
    <2>8. \A k \in Recordings : flights'[k] # NoFlight =>
            at'[flights'[k]] \in Flying /\ RecordingOf[track'[flights'[k]]] = k
      BY <2>1, <2>3, <2>4, <2>5 DEF FlightsAreKept, Flying, Key
    <2>9. \A k \in Recordings : \A v \in joined'[k] : at'[v] = "joined" /\ Key(v)' = k
      BY <2>1, <2>4, <2>6 DEF FlightsAreKept
    <2>10. \A v \in Workers : Computing(v)' => flights'[Key(v)'] = v
      BY <2>1, <2>4, <2>5, <2>6 DEF FlightsAreKept, Computing
    <2> QED
      BY <2>7, <2>8, <2>9, <2>10 DEF FlightsAreKept, Key
  <1>9. ASSUME NEW w \in Workers, FinishFlight(w)
        PROVE  FlightsAreKept'
    <2>1. at[w] = "finish" /\ at'[w] = "idle" /\ values' = values
      BY <1>9 DEF FinishFlight, Finish
    <2>2. \A v \in Workers \ {w} : track'[v] = track[v]
      BY <1>9 DEF FinishFlight, Settle
    <2>3. \A v \in Workers \ {w} : Key(v)' = Key(v)
      BY <2>2 DEF Key
    <2>4. \A v \in Workers \ {w} :
            IF \E k \in Recordings : v \in joined[k] \ joined'[k]
            THEN at'[v] = "claim" ELSE at'[v] = at[v]
      BY <1>9 DEF FinishFlight
    <2>5. \A v \in Workers \ {w} : at'[v] # at[v] => at[v] = "joined" /\ at'[v] = "claim"
      BY <2>4 DEF FlightsAreKept
    <2>6. \A k \in Recordings : flights'[k] # w /\ flights'[k] \in {flights[k], NoFlight}
      <3> SUFFICES ASSUME NEW k \in Recordings
                   PROVE  flights'[k] # w /\ flights'[k] \in {flights[k], NoFlight}
        OBVIOUS
      <3>1. flights[k] = w => Key(w) = k /\ k # NoKey /\ HasFlight(w)
        BY DEF FlightsAreKept, HasFlight
      <3>2. w # NoFlight
        OBVIOUS
      <3>3. CASE HasFlight(w)
        BY <1>9, <3>1, <3>2, <3>3 DEF FinishFlight, Finish
      <3>4. CASE ~HasFlight(w)
        BY <1>9, <3>1, <3>4 DEF FinishFlight
      <3> QED
        BY <3>3, <3>4
    <2>7. \A k \in Recordings : joined'[k] \subseteq joined[k]
      BY <1>9 DEF FinishFlight, Finish
    <2>8. \A v \in Workers : Computing(v)' => v # w /\ Computing(v)
      BY <2>1, <2>3, <2>5 DEF Computing
    <2>9. \A v \in Workers : Computing(v)' => flights'[Key(v)'] = v
      <3> SUFFICES ASSUME NEW v \in Workers, Computing(v)'
                   PROVE  flights'[Key(v)'] = v
        OBVIOUS
      <3>1. v # w /\ flights[Key(v)] = v /\ Key(v)' = Key(v)
        BY <2>3, <2>8 DEF FlightsAreKept
      <3>2. Key(v) \in Recordings
        BY <2>8 DEF WorkersKnow, Computing, Key
      <3>3. HasFlight(w) => flights[Key(w)] = w
        BY DEF HasFlight
      <3> QED
        BY <1>9, <3>1, <3>2, <3>3 DEF FinishFlight, Finish
    <2>10. \A k \in Recordings : flights'[k] # NoFlight =>
             at'[flights'[k]] \in Flying /\ RecordingOf[track'[flights'[k]]] = k
      <3> SUFFICES ASSUME NEW k \in Recordings, flights'[k] # NoFlight
                   PROVE  at'[flights'[k]] \in Flying /\ RecordingOf[track'[flights'[k]]] = k
        OBVIOUS
      <3>1. flights'[k] = flights[k] /\ flights[k] \in Workers \ {w}
        BY <2>6
      <3>2. at[flights[k]] \in Flying /\ Key(flights[k]) = k
        BY <3>1 DEF FlightsAreKept
      <3> QED
        BY <2>2, <2>5, <3>1, <3>2 DEF Flying, ComputingPlaces, Key
    <2>11. \A k \in values' : flights'[k] # NoFlight => at'[flights'[k]] = "finish"
      <3> SUFFICES ASSUME NEW k \in values, flights'[k] # NoFlight
                   PROVE  at'[flights'[k]] = "finish"
        BY <2>1
      <3>1. flights'[k] = flights[k] /\ flights[k] \in Workers \ {w}
        BY <2>6
      <3>2. at[flights[k]] = "finish"
        BY <3>1 DEF FlightsAreKept
      <3> QED
        BY <2>5, <3>1, <3>2
    <2>12. \A k \in Recordings : \A v \in joined'[k] : at'[v] = "joined" /\ Key(v)' = k
      <3> SUFFICES ASSUME NEW k \in Recordings, NEW v \in joined'[k]
                   PROVE  at'[v] = "joined" /\ Key(v)' = k
        OBVIOUS
      <3>1. v \in joined[k] /\ at[v] = "joined" /\ Key(v) = k /\ v \in Workers \ {w}
        BY <2>1, <2>7 DEF FlightsAreKept
      <3>2. \A h \in Recordings : v \in joined[h] => h = k
        BY <3>1 DEF FlightsAreKept
      <3> QED
        BY <2>3, <2>4, <3>1, <3>2
    <2> QED
      BY <2>9, <2>10, <2>11, <2>12 DEF FlightsAreKept, Key
  <1>10. ASSUME NEW w \in Workers, Depart(w)
         PROVE  FlightsAreKept'
    BY <1>10, FlightsFrame DEF Depart, Go, Flying, ComputingPlaces
  <1>11. CASE Recovered
    <2>1. UNCHANGED <<track, cacheVars>>
      BY <1>11 DEF Recovered
    <2>2. \A v \in Workers : at'[v] = at[v] \/ (at[v] = "paused" /\ at'[v] = "claim")
      BY <1>11 DEF Recovered
    <2>3. \A v \in Workers : Key(v)' = Key(v) /\ (Computing(v)' <=> Computing(v))
      BY <2>1, <2>2 DEF Key, Computing
    <2> QED
      BY <2>1, <2>2, <2>3 DEF FlightsAreKept, Flying, ComputingPlaces
  <1>12. CASE RecoverOn \/ ProbeOn \/ RequestStop \/ AudioEnd \/ UNCHANGED audioVars
    <2>1. UNCHANGED <<at, track, cacheVars>>
      BY <1>12, SupervisionLeavesWorkers
    <2> QED
      BY <2>1 DEF FlightsAreKept, Key, Computing
  <1> QED
    BY <1>1, <1>2, <1>3, <1>4, <1>5, <1>6, <1>7, <1>8, <1>9, <1>10, <1>11, <1>12
       DEF AudioNext, WorkerStep, SessionsMove, AudioReturned

-----------------------------------------------------------------------------
(* Outages *)

LEMMA OutageStep == AudioInv /\ [AudioNext]_audioVars => OutagePhases'
  <1> SUFFICES ASSUME AudioInv, [AudioNext]_audioVars
               PROVE  OutagePhases'
    OBVIOUS
  <1> USE UsersDiffer DEF AudioInv, AudioTypeOK, MERTTypeOK
  <1> USE DEF AllWell, BeingDeclared, BeingRecovered, BeingRestored, Abandoned
  <1>1. ASSUME UNCHANGED <<eventVars, recovery, probe, ended>>,
               \A v \in Workers : at'[v] = "telling" => at[v] = "telling"
        PROVE  OutagePhases'
    BY <1>1 DEF OutagePhases
  <1>2. ASSUME NEW w \in Workers,
               \/ Take(w) \/ StopPause(w) \/ FindValue(w) \/ BeginFlight(w) \/ AwaitFlight(w)
               \/ AbandonFlight(w) \/ Depart(w)
        PROVE  OutagePhases'
    BY <1>1, <1>2 DEF Take, StopPause, FindValue, BeginFlight, AwaitFlight, AbandonFlight, Depart,
                      Go, GoWith
  <1>3. ASSUME NEW w \in Workers,
               \/ FirstLook(w) \/ Acquire(w) \/ AcquireCanceled(w) \/ SecondLook(w) \/ ThirdLook(w)
               \/ AdmissionCanceled(w)
        PROVE  OutagePhases'
    BY <1>1, <1>3 DEF FirstLook, Acquire, AcquireCanceled, SecondLook, ThirdLook, Look,
                      AdmissionCanceled, Go, GoWith
  <1>4. ASSUME NEW w \in Workers, Infer(w) \/ ConfirmHealthy(w) \/ ConfirmUnhealthy(w) \/ Commit(w)
        PROVE  OutagePhases'
    BY <1>1, <1>4 DEF Infer, ConfirmHealthy, ConfirmUnhealthy, Commit, Go, GoWith
  <1>5. ASSUME NEW w \in Workers, FinishFlight(w)
        PROVE  OutagePhases'
    BY <1>1, <1>5 DEF FinishFlight
  <1>6. ASSUME NEW w \in Workers, DeclareOutage(w)
        PROVE  OutagePhases'
    <2>1. CASE MarkDown(w)
      <3>1. AllWell
        BY <2>1 DEF MarkDown, OutagePhases
      <3>2. at' = [at EXCEPT ![w] = "telling"] /\ UNCHANGED <<recovery, probe>>
        BY <1>6, <2>1 DEF DeclareOutage, Go, AlreadyDown, MarkDown
      <3>3. BeingDeclared' /\ eventMu' = w
        BY <2>1, <3>1, <3>2 DEF MarkDown
      <3>4. probe # "telling" /\ \A v \in Workers : at[v] # "telling"
        BY <3>1 DEF OutagePhases
      <3> QED
        BY <3>2, <3>3, <3>4 DEF OutagePhases
    <2>2. CASE ~MarkDown(w)
      <3>1. UNCHANGED <<eventVars, recovery, probe, ended>>
        BY <1>6, <2>2 DEF DeclareOutage, AlreadyDown
      <3>2. at' = [at EXCEPT ![w] = "finish"]
        BY <1>6, <2>2 DEF DeclareOutage, GoWith
      <3> QED
        BY <1>1, <3>1, <3>2
    <2> QED
      BY <2>1, <2>2
  <1>7. ASSUME NEW w \in Workers, TellOutage(w)
        PROVE  OutagePhases'
    <2>1. eventMu = w /\ BeingDeclared
      BY <1>7 DEF TellOutage, TellDown, OutagePhases
    <2>2. at' = [at EXCEPT ![w] = "finish"] /\ UNCHANGED <<probe, ready, loops>>
          /\ told' = FALSE /\ eventMu' = Nobody /\ recovery' = "delay"
      BY <1>7 DEF TellOutage, TellDown, GoWith
    <2>3. BeingRecovered'
      BY <2>1, <2>2
    <2>4. probe # "telling" /\ \A v \in Workers \ {w} : at[v] # "telling"
      BY <2>1 DEF OutagePhases
    <2> QED
      BY <2>2, <2>3, <2>4 DEF OutagePhases
  <1>8. CASE Recovered
    <2>1. BeingRecovered
      BY <1>8 DEF Recovered, Restore, OutagePhases
    <2>2. BeingRestored'
      BY <1>8, <2>1 DEF Recovered, Restore
    <2>3. \A v \in Workers : at'[v] = "telling" => at[v] = "telling"
      BY <1>8 DEF Recovered
    <2>4. probe' = probe
      BY <1>8 DEF Recovered, Restore
    <2> QED
      BY <2>1, <2>2, <2>3, <2>4 DEF OutagePhases
  <1>9. ASSUME eventMu \notin Workers \cup {Probe}, UNCHANGED <<at, probe>>,
               AllWell' \/ BeingRecovered' \/ BeingRestored' \/ Abandoned'
        PROVE  OutagePhases'
    BY <1>9 DEF OutagePhases
  <1>10. CASE RecoverOn
    <2>1. UNCHANGED <<at, probe>>
      BY <1>10 DEF RecoverOn, RecoverBegin, RecoverSession, RecoverVerdict, RecoverEnds, TellUp
    <2>2. CASE RecoverBegin \/ RecoverVerdict
      <3>1. BeingRecovered
        BY <2>2 DEF RecoverBegin, RecoverVerdict, OutagePhases
      <3>2. BeingRecovered'
        BY <2>2, <3>1 DEF RecoverBegin, RecoverVerdict
      <3> QED
        BY <1>9, <2>1, <3>1, <3>2
    <2>3. CASE RecoverSession
      BY <1>1, <2>1, <2>3 DEF RecoverSession
    <2>4. CASE RecoverEnds
      <3>1. BeingRecovered /\ ended
        BY <2>4 DEF RecoverEnds, OutagePhases
      <3>2. Abandoned'
        BY <2>4, <3>1 DEF RecoverEnds, RecoveryReturns
      <3> QED
        BY <1>9, <2>1, <3>1, <3>2
    <2>5. CASE TellUp
      <3>1. BeingRestored
        BY <2>5 DEF TellUp, OutagePhases
      <3>2. AllWell'
        BY <2>5, <3>1 DEF TellUp, RecoveryReturns
      <3> QED
        BY <1>9, <2>1, <3>1, <3>2
    <2> QED
      BY <1>10, <2>2, <2>3, <2>4, <2>5 DEF RecoverOn
  <1>11. CASE ProbeOn
    <2>1. UNCHANGED at
      BY <1>11 DEF ProbeOn
    <2>2. ASSUME UNCHANGED <<eventVars, recovery, ended>>, probe' # "telling"
          PROVE  OutagePhases'
      BY <2>1, <2>2 DEF OutagePhases
    <2>3. CASE ProbeBegin \/ ProbePasses \/ ProbeFails \/ ProbeEnds
      BY <2>2, <2>3 DEF ProbeBegin, ProbePasses, ProbeFails, ProbeEnds
    <2>4. CASE ProbeMarksDown
      <3>1. CASE MarkDown(Probe)
        <4>1. AllWell /\ probe # "telling"
          BY <2>4, <3>1 DEF MarkDown, OutagePhases, ProbeMarksDown
        <4>2. UNCHANGED recovery
          BY <2>4 DEF ProbeMarksDown
        <4>3. BeingDeclared' /\ eventMu' = Probe
          BY <3>1, <4>1, <4>2 DEF MarkDown
        <4>4. \A v \in Workers : at[v] # "telling"
          BY <4>1 DEF OutagePhases
        <4> QED
          BY <2>1, <4>3, <4>4 DEF OutagePhases
      <3>2. CASE ~MarkDown(Probe)
        BY <2>2, <2>4, <3>2 DEF ProbeMarksDown, AlreadyDown
      <3> QED
        BY <3>1, <3>2
    <2>5. CASE ProbeTells
      <3>1. eventMu = Probe /\ BeingDeclared
        BY <2>5 DEF ProbeTells, TellDown, OutagePhases
      <3>2. UNCHANGED <<ready, loops>> /\ probe' = "idle"
            /\ told' = FALSE /\ eventMu' = Nobody /\ recovery' = "delay"
        BY <2>5 DEF ProbeTells, TellDown
      <3>3. BeingRecovered'
        BY <3>1, <3>2
      <3>4. \A v \in Workers : at[v] # "telling"
        BY <3>1 DEF OutagePhases
      <3> QED
        BY <2>1, <3>2, <3>3, <3>4 DEF OutagePhases
    <2> QED
      BY <1>11, <2>3, <2>4, <2>5 DEF ProbeOn, ProbeStep
  <1>12. CASE RequestStop \/ UNCHANGED audioVars
    BY <1>1, <1>12 DEF RequestStop, audioVars
  <1>13. CASE AudioEnd
    <2>1. UNCHANGED <<eventVars, recovery, probe, at>>
      BY <1>13 DEF AudioEnd, EndSupervision
    <2>2. ended => ended'
      BY <1>13 DEF AudioEnd, EndSupervision
    <2> QED
      BY <2>1, <2>2 DEF OutagePhases
  <1> QED
    BY <1>2, <1>3, <1>4, <1>5, <1>6, <1>7, <1>8, <1>10, <1>11, <1>12, <1>13
       DEF AudioNext, WorkerStep, AudioReturned

-----------------------------------------------------------------------------
(* Sessions *)

\* Where a worker holds a session.
HoldingPlaces == {"holding", "admitted", "infer", "confirm", "down", "telling"}

\* The steps of a worker that has no session, and is not quarantining one.
IdleStep(w) ==
    \/ Take(w) \/ StopPause(w) \/ FindValue(w) \/ BeginFlight(w) \/ AwaitFlight(w)
    \/ AbandonFlight(w) \/ Depart(w) \/ FirstLook(w) \/ AcquireCanceled(w) \/ Commit(w)
    \/ FinishFlight(w)

LEMMA IdleStepsHoldNothing ==
    ASSUME NEW w \in Workers, IdleStep(w), AudioTypeOK, FlightsAreKept
    PROVE  /\ UNCHANGED <<holder, quarantined, eventVars, loopVars, ended>>
           /\ \A v \in Workers :
                at'[v] # at[v] => at[v] \notin HoldingPlaces /\ at'[v] \notin HoldingPlaces
  <1> USE DEF AudioTypeOK, HoldingPlaces, Go, GoWith
  <1>1. CASE Take(w) \/ StopPause(w) \/ FindValue(w)
    BY <1>1 DEF Take, StopPause, FindValue
  <1>2. CASE BeginFlight(w) \/ AwaitFlight(w) \/ AbandonFlight(w)
    BY <1>2 DEF BeginFlight, AwaitFlight, AbandonFlight
  <1>3. CASE Depart(w) \/ FirstLook(w) \/ AcquireCanceled(w)
    BY <1>3 DEF Depart, FirstLook, AcquireCanceled, QueueForSession, LeaveSessionQueue
  <1>4. CASE Commit(w)
    BY <1>4 DEF Commit
  <1>5. CASE FinishFlight(w)
    <2>1. \A v \in Workers \ {w} :
            at'[v] # at[v] => at'[v] = "claim" /\ \E k \in Recordings : v \in joined[k]
      BY <1>5 DEF FinishFlight
    <2>2. at[w] = "finish" /\ at'[w] = "idle"
      BY <1>5 DEF FinishFlight
    <2>3. \A v \in Workers : (\E k \in Recordings : v \in joined[k]) => at[v] = "joined"
      BY DEF FlightsAreKept
    <2>4. UNCHANGED mertVars
      BY <1>5 DEF FinishFlight
    <2> QED
      BY <2>1, <2>2, <2>3, <2>4
  <1> QED
    BY <1>1, <1>2, <1>3, <1>4, <1>5 DEF IdleStep

LEMMA SessionsStep == AudioInv /\ [AudioNext]_audioVars => SessionsAreHeld'
  <1> SUFFICES ASSUME AudioInv, [AudioNext]_audioVars
               PROVE  SessionsAreHeld'
    OBVIOUS
  <1> USE UsersDiffer DEF AudioInv, AudioTypeOK, MERTTypeOK, HoldingPlaces, Go, GoWith
  <1>0. ASSUME NEW w \in Workers
        PROVE  w # Nobody /\ w # Probe /\ w # Recovery
    OBVIOUS
  <1>1. ASSUME UNCHANGED <<holder, probe>>,
               \A v \in Workers : at[v] \in HoldingPlaces => at'[v] \in HoldingPlaces
        PROVE  SessionsAreHeld'
    BY <1>1 DEF SessionsAreHeld
  <1>2. ASSUME NEW w \in Workers, IdleStep(w)
        PROVE  SessionsAreHeld'
    BY <1>1, <1>2, IdleStepsHoldNothing
  <1>3. ASSUME NEW w \in Workers, Acquire(w)
        PROVE  SessionsAreHeld'
    <2>1. at[w] = "queue" /\ at' = [at EXCEPT ![w] = "holding"] /\ UNCHANGED probe
      BY <1>3 DEF Acquire
    <2>2. PICK s \in Free : holder' = [holder EXCEPT ![s] = w]
      BY <1>3 DEF Acquire, GetSession
    <2>3. \A r \in Sessions : holder[r] # w
      BY <1>0, <2>1 DEF SessionsAreHeld
    <2> QED
      BY <1>0, <2>1, <2>2, <2>3 DEF SessionsAreHeld, Free
  <1>4. ASSUME NEW w \in Workers, holder' = Released(w), UNCHANGED probe,
               \A v \in Workers \ {w} : at'[v] = at[v]
        PROVE  SessionsAreHeld'
    BY <1>0, <1>4 DEF SessionsAreHeld, Released
  <1>5. ASSUME NEW w \in Workers, SecondLook(w) \/ ThirdLook(w)
        PROVE  SessionsAreHeld'
    BY <1>1, <1>4, <1>5 DEF SecondLook, ThirdLook, Look, ReleaseSession
  <1>6. ASSUME NEW w \in Workers, AdmissionCanceled(w) \/ ConfirmHealthy(w) \/ TellOutage(w)
        PROVE  SessionsAreHeld'
    BY <1>4, <1>6 DEF AdmissionCanceled, ConfirmHealthy, TellOutage, ReleaseSession
  <1>7. ASSUME NEW w \in Workers, Infer(w)
        PROVE  SessionsAreHeld'
    BY <1>1, <1>4, <1>7 DEF Infer, Quarantine
  <1>8. ASSUME NEW w \in Workers, ConfirmUnhealthy(w)
        PROVE  SessionsAreHeld'
    BY <1>1, <1>4, <1>8 DEF ConfirmUnhealthy
  <1>9. ASSUME NEW w \in Workers, DeclareOutage(w)
        PROVE  SessionsAreHeld'
    BY <1>1, <1>4, <1>9 DEF DeclareOutage
  <1>10. CASE Recovered
    BY <1>1, <1>10 DEF Recovered, Restore
  <1>11. ASSUME NEW s \in Sessions, holder[s] = Nobody, holder' = [holder EXCEPT ![s] = Recovery],
                UNCHANGED <<at, probe>>
         PROVE  SessionsAreHeld'
    BY <1>11 DEF SessionsAreHeld
  <1>12. ASSUME holder' = Released(Recovery), UNCHANGED <<at, probe>>
         PROVE  SessionsAreHeld'
    BY <1>12 DEF SessionsAreHeld, Released
  <1>13. CASE RecoverOn
    BY <1>1, <1>11, <1>12, <1>13
       DEF RecoverOn, RecoverBegin, RecoverSession, RecoverVerdict, RecoverEnds, TellUp, Free
  <1>14. CASE ProbeOn
    <2>1. UNCHANGED at
      BY <1>14 DEF ProbeOn
    <2>2. CASE ProbeBegin
      <3>1. PICK s \in Free : holder' = [holder EXCEPT ![s] = Probe]
        BY <2>2 DEF ProbeBegin
      <3>2. probe = "idle" /\ probe' = "checking"
        BY <2>2 DEF ProbeBegin
      <3> QED
        BY <2>1, <3>1, <3>2 DEF SessionsAreHeld, Free
    <2>3. CASE ProbePasses \/ ProbeFails
      <3>1. holder' = Released(Probe)
        BY <2>3 DEF ProbePasses, ProbeFails
      <3> QED
        BY <2>1, <3>1 DEF SessionsAreHeld, Released
    <2>4. CASE ProbeMarksDown \/ ProbeTells \/ ProbeEnds
      <3>1. UNCHANGED holder /\ probe # "checking"
        BY <2>4 DEF ProbeMarksDown, ProbeTells, ProbeEnds
      <3> QED
        BY <2>1, <3>1 DEF SessionsAreHeld
    <2> QED
      BY <1>14, <2>2, <2>3, <2>4 DEF ProbeOn, ProbeStep
  <1>15. CASE RequestStop \/ AudioEnd \/ UNCHANGED audioVars
    BY <1>1, <1>15 DEF RequestStop, AudioEnd, EndSupervision, audioVars
  <1> QED
    BY <1>2, <1>3, <1>5, <1>6, <1>7, <1>8, <1>9, <1>10, <1>13, <1>14, <1>15
       DEF AudioNext, WorkerStep, IdleStep, AudioReturned

-----------------------------------------------------------------------------
(* The quarantine *)

\* All sessions are well only while the outage still lasts.
LEMMA PassedIsDown ==
    ASSUME OutagePhases, recovery = "passed"
    PROVE  ~ready
  BY DEF OutagePhases, AllWell, BeingDeclared, BeingRecovered, BeingRestored, Abandoned

LEMMA QuarantineStep == AudioInv /\ [AudioNext]_audioVars => QuarantineIsAnswered'
  <1> SUFFICES ASSUME AudioInv, [AudioNext]_audioVars
               PROVE  QuarantineIsAnswered'
    OBVIOUS
  <1> USE UsersDiffer DEF AudioInv, AudioTypeOK, MERTTypeOK, HoldingPlaces, Go, GoWith, Fine
  <1>0. ASSUME NEW w \in Workers
        PROVE  w # Nobody /\ w # Probe /\ w # Recovery
    OBVIOUS
  <1>1. ASSUME UNCHANGED <<holder, quarantined, recovery, unwell>>,
               quarantined # {} /\ Answered => Answered',
               \A v \in Workers : at'[v] # at[v] /\ at'[v] \in {"holding", "admitted"} =>
                    at[v] \in {"holding", "admitted"},
               \A v \in Workers : at'[v] = "infer" => at[v] = "infer"
        PROVE  QuarantineIsAnswered'
    BY <1>1 DEF QuarantineIsAnswered
  <1>2. ASSUME UNCHANGED <<ready, ended, probe>>
        PROVE  Answered' <=> Answered
    BY <1>2 DEF Answered
  <1>3. ASSUME NEW w \in Workers, IdleStep(w)
        PROVE  QuarantineIsAnswered'
    BY <1>1, <1>2, <1>3, IdleStepsHoldNothing
  <1>4. ASSUME NEW w \in Workers, Acquire(w)
        PROVE  QuarantineIsAnswered'
    <2>1. at[w] = "queue" /\ at' = [at EXCEPT ![w] = "holding"]
          /\ UNCHANGED <<quarantined, recovery, unwell, ready, ended, probe>>
      BY <1>4 DEF Acquire, GetSession
    <2>2. PICK s \in Free : holder' = [holder EXCEPT ![s] = w]
      BY <1>4 DEF Acquire, GetSession
    <2>3. Answered' <=> Answered
      BY <1>2, <2>1
    <2>4. \A r \in Sessions \ {s} : holder'[r] = holder[r] /\ holder[r] # w
      BY <1>0, <2>1, <2>2 DEF SessionsAreHeld
    <2>5. holder'[s] = w /\ at'[w] = "holding" /\ \A v \in Workers \ {w} : at'[v] = at[v]
      BY <2>1, <2>2 DEF Free
    <2>6. s \in quarantined => Answered
      BY <2>2 DEF QuarantineIsAnswered, Free
    <2> QED
      BY <1>0, <2>1, <2>3, <2>4, <2>5, <2>6 DEF QuarantineIsAnswered
  <1>5. ASSUME NEW w \in Workers, holder' = Released(w), quarantined' \subseteq quarantined,
               UNCHANGED <<recovery, unwell>>, Answered => Answered',
               \A v \in Workers \ {w} : at'[v] = at[v],
               \A s \in quarantined' : holder[s] = w => Answered'
        PROVE  QuarantineIsAnswered'
    <2>1. \A s \in Sessions : holder'[s] = (IF holder[s] = w THEN Nobody ELSE holder[s])
      BY <1>5 DEF Released
    <2> QED
      BY <1>0, <1>5, <2>1 DEF QuarantineIsAnswered
  <1>6. ASSUME NEW w \in Workers, SecondLook(w) \/ ThirdLook(w)
        PROVE  QuarantineIsAnswered'
    <2>1. UNCHANGED <<quarantined, recovery, unwell, ready, ended, probe>>
          /\ at[w] \in {"holding", "admitted"}
      BY <1>6 DEF SecondLook, ThirdLook, Look, ReleaseSession
    <2>2. CASE Usable(w)
      <3>1. UNCHANGED holder /\ \E next \in {"admitted", "infer"} : at' = [at EXCEPT ![w] = next]
        BY <1>6, <2>2 DEF SecondLook, ThirdLook, Look
      <3>2. \A s \in quarantined : holder[s] # w
        BY <2>2 DEF Usable, Held
      <3> QED
        BY <1>0, <1>2, <2>1, <3>1, <3>2 DEF QuarantineIsAnswered
    <2>3. CASE ~Usable(w)
      <3>1. holder' = Released(w) /\ at' = [at EXCEPT ![w] = "finish"]
        BY <1>6, <2>3 DEF SecondLook, ThirdLook, Look, ReleaseSession
      <3>2. \A s \in quarantined : holder[s] = w => Answered
        BY <2>1 DEF QuarantineIsAnswered
      <3> QED
        BY <1>2, <1>5, <2>1, <3>1, <3>2
    <2> QED
      BY <2>2, <2>3
  <1>7. ASSUME NEW w \in Workers, AdmissionCanceled(w)
        PROVE  QuarantineIsAnswered'
    <2>1. ended /\ UNCHANGED <<quarantined, recovery, unwell, ready, ended, probe>>
          /\ holder' = Released(w) /\ \A v \in Workers \ {w} : at'[v] = at[v]
      BY <1>7 DEF AdmissionCanceled, ReleaseSession
    <2> QED
      BY <1>5, <2>1 DEF Answered
  <1>8. ASSUME NEW w \in Workers, Infer(w)
        PROVE  QuarantineIsAnswered'
    <2>1. at[w] = "infer" /\ UNCHANGED <<recovery, unwell, ready, ended, probe>>
      BY <1>8 DEF Infer
    <2>2. \A s \in quarantined : holder[s] # w
      BY <2>1 DEF QuarantineIsAnswered
    <2>3. CASE Quarantine(w)
      <3>1. quarantined' = quarantined \cup Held(w) /\ UNCHANGED holder
        BY <2>3 DEF Quarantine
      <3>2. at' = [at EXCEPT ![w] = "confirm"]
        BY <1>8, <2>3 DEF Infer, Quarantine, Fault
      <3> QED
        BY <1>0, <1>2, <2>1, <2>2, <3>1, <3>2 DEF QuarantineIsAnswered, Held
    <2>4. CASE ~Quarantine(w)
      <3>1. holder' = Released(w) /\ UNCHANGED quarantined
            /\ \A v \in Workers \ {w} : at'[v] = at[v]
        BY <1>8, <2>4 DEF Infer
      <3> QED
        BY <1>2, <1>5, <2>1, <2>2, <3>1
    <2> QED
      BY <2>3, <2>4
  <1>9. ASSUME NEW w \in Workers, ConfirmHealthy(w)
        PROVE  QuarantineIsAnswered'
    <2>1. PICK s \in Held(w) : Healthy(s)
      BY <1>9 DEF ConfirmHealthy
    <2>2. holder' = Released(w) /\ UNCHANGED <<recovery, unwell, ready, ended, probe>>
          /\ \A v \in Workers \ {w} : at'[v] = at[v]
      BY <1>9 DEF ConfirmHealthy
    <2>3. \A r \in quarantined' : r \in quarantined /\ holder[r] # w
      BY <2>1 DEF Healthy, SessionsAreHeld, Held
    <2> QED
      BY <1>2, <1>5, <2>2, <2>3
  <1>10. ASSUME NEW w \in Workers, ConfirmUnhealthy(w)
         PROVE  QuarantineIsAnswered'
    <2>1. UNCHANGED <<quarantined, recovery, unwell, ready, ended, probe>>
          /\ \A v \in Workers \ {w} : at'[v] = at[v]
      BY <1>10 DEF ConfirmUnhealthy
    <2>2. CASE ended
      BY <1>2, <1>5, <1>10, <2>1, <2>2 DEF ConfirmUnhealthy, Answered
    <2>3. CASE ~ended
      BY <1>1, <1>2, <1>10, <2>1, <2>3 DEF ConfirmUnhealthy
    <2> QED
      BY <2>2, <2>3
  <1>11. ASSUME NEW w \in Workers, DeclareOutage(w)
         PROVE  QuarantineIsAnswered'
    <2>1. UNCHANGED <<quarantined, recovery, unwell, ended, probe>>
          /\ \A v \in Workers \ {w} : at'[v] = at[v]
      BY <1>11 DEF DeclareOutage
    <2>2. Answered'
      BY <1>11, <2>1 DEF DeclareOutage, MarkDown, AlreadyDown, Answered
    <2>3. CASE holder' = holder
      <3>1. at'[w] \notin {"holding", "admitted", "infer"}
        BY <1>11 DEF DeclareOutage
      <3> QED
        BY <1>1, <2>1, <2>2, <2>3, <3>1
    <2>4. CASE holder' = Released(w)
      BY <1>5, <2>1, <2>2, <2>4
    <2> QED
      BY <1>11, <2>3, <2>4 DEF DeclareOutage
  <1>12. ASSUME NEW w \in Workers, TellOutage(w)
         PROVE  QuarantineIsAnswered'
    <2>1. eventMu = w /\ UNCHANGED <<quarantined, unwell, ready, ended, probe>>
          /\ holder' = Released(w) /\ \A v \in Workers \ {w} : at'[v] = at[v]
          /\ recovery' = "delay"
      BY <1>12 DEF TellOutage, TellDown
    <2>2. ~ready /\ recovery = "none"
      BY <1>0, <2>1 DEF OutagePhases, AllWell, BeingDeclared, BeingRecovered, BeingRestored, Abandoned
    <2>3. \A s \in Sessions : holder'[s] = (IF holder[s] = w THEN Nobody ELSE holder[s])
      BY <2>1 DEF Released
    <2>4. Answered'
      BY <2>1, <2>2 DEF Answered
    <2> QED
      BY <1>0, <2>1, <2>2, <2>3, <2>4 DEF QuarantineIsAnswered
  <1>13. CASE Recovered
    <2>1. quarantined = {} /\ UNCHANGED quarantined
      BY <1>13 DEF Recovered, Restore, PassedIsWell
    <2> QED
      BY <2>1 DEF QuarantineIsAnswered
  <1>14. CASE RecoverOn
    <2>1. UNCHANGED <<at, probe, ended, ready>>
      BY <1>14 DEF RecoverOn, RecoverBegin, RecoverSession, RecoverVerdict, RecoverEnds, TellUp
    <2>2. Answered' <=> Answered
      BY <1>2, <2>1
    <2>3. CASE RecoverBegin
      <3>1. recovery = "delay" /\ recovery' = "checking" /\ UNCHANGED <<holder, quarantined>>
        BY <2>3 DEF RecoverBegin
      <3> QED
        BY <2>1, <2>2, <3>1 DEF QuarantineIsAnswered
    <2>4. CASE RecoverSession
      <3>1. recovery = "checking" /\ UNCHANGED recovery
        BY <2>4 DEF RecoverSession
      <3>2. PICK s \in Free :
              /\ holder' = [holder EXCEPT ![s] = Recovery]
              /\ (quarantined' = quarantined \ {s} /\ unwell' = unwell)
                 \/ (quarantined' = quarantined \cup {s} /\ unwell' = TRUE)
        BY <2>4 DEF RecoverSession, Healthy, Unhealthy
      <3>3. \A r \in Sessions \ {s} : holder'[r] = holder[r]
        BY <3>2
      <3>4. holder'[s] = Recovery
        BY <3>2 DEF Free
      <3>5. \A r \in quarantined' : r = s \/ r \in quarantined
        BY <3>2
      <3>6. recovery' = "checking" /\ ~unwell' => \A r \in quarantined' : holder'[r] # Recovery
        BY <3>1, <3>2, <3>3 DEF QuarantineIsAnswered
      <3> QED
        BY <1>0, <2>1, <2>2, <3>1, <3>3, <3>4, <3>5, <3>6 DEF QuarantineIsAnswered
    <2>5. ASSUME Answered, holder' = Released(Recovery), UNCHANGED quarantined,
                 recovery' # "checking"
          PROVE  QuarantineIsAnswered'
      <3>1. \A s \in Sessions : holder'[s] = (IF holder[s] = Recovery THEN Nobody ELSE holder[s])
        BY <2>5 DEF Released
      <3> QED
        BY <2>1, <2>2, <2>5, <3>1 DEF QuarantineIsAnswered
    <2>6. CASE RecoverVerdict
      <3>1. ~ready
        BY <2>6 DEF RecoverVerdict, OutagePhases, AllWell, BeingDeclared, BeingRecovered,
                    BeingRestored, Abandoned
      <3> QED
        BY <2>5, <2>6, <3>1 DEF RecoverVerdict, Answered
    <2>7. CASE RecoverEnds
      BY <2>5, <2>7 DEF RecoverEnds, RecoveryReturns, Answered
    <2>8. CASE TellUp
      <3>1. UNCHANGED <<holder, quarantined, unwell>> /\ recovery' = "none"
        BY <2>8 DEF TellUp, RecoveryReturns
      <3>2. recovery = "telling"
        BY <2>8 DEF TellUp, OutagePhases, AllWell, BeingDeclared, BeingRecovered, BeingRestored,
                    Abandoned
      <3> QED
        BY <2>1, <2>2, <3>1, <3>2 DEF QuarantineIsAnswered
    <2> QED
      BY <1>14, <2>3, <2>4, <2>6, <2>7, <2>8 DEF RecoverOn
  <1>15. CASE ProbeOn
    <2>1. UNCHANGED <<at, ended, unwell>>
      BY <1>15 DEF ProbeOn, ProbeStep, ProbeBegin, ProbePasses, ProbeFails, ProbeMarksDown,
                   ProbeTells, ProbeEnds, TellDown
    <2>2. CASE ProbeBegin
      <3>1. PICK s \in Free : holder' = [holder EXCEPT ![s] = Probe]
        BY <2>2 DEF ProbeBegin
      <3>2. ~Answered /\ UNCHANGED <<quarantined, recovery>>
        BY <2>2 DEF ProbeBegin, Answered
      <3>3. s \notin quarantined
        BY <3>1, <3>2 DEF QuarantineIsAnswered, Free
      <3>4. \A r \in quarantined : holder'[r] = holder[r]
        BY <3>1, <3>3
      <3>5. \A r \in quarantined : holder[r] \notin {Nobody, Probe}
        BY <3>2 DEF QuarantineIsAnswered
      <3> QED
        BY <2>1, <3>2, <3>4, <3>5 DEF QuarantineIsAnswered
    <2>3. CASE ProbePasses
      <3>1. PICK s \in Held(Probe) : Healthy(s)
        BY <2>3 DEF ProbePasses
      <3>2. \A r \in quarantined' : r \in quarantined /\ holder[r] # Probe
        BY <3>1 DEF Healthy, SessionsAreHeld, Held
      <3>3. holder' = Released(Probe) /\ UNCHANGED <<recovery, ready>> /\ probe # "failed"
        BY <2>3 DEF ProbePasses
      <3>4. \A r \in quarantined' : holder'[r] = holder[r]
        BY <3>2, <3>3 DEF Released
      <3>5. Answered => Answered'
        BY <2>1, <3>3 DEF Answered
      <3> QED
        BY <2>1, <3>2, <3>3, <3>4, <3>5 DEF QuarantineIsAnswered
    <2>4. CASE ProbeFails
      <3>1. PICK s \in Held(Probe) : quarantined' = quarantined \cup {s}
        BY <2>4 DEF ProbeFails, Unhealthy
      <3>2. holder' = Released(Probe) /\ UNCHANGED recovery /\ Answered'
        BY <2>4 DEF ProbeFails, Answered
      <3>3. \A r \in quarantined' :
              \/ holder'[r] = Nobody
              \/ r \in quarantined /\ holder'[r] = holder[r]
        BY <3>1, <3>2 DEF Released, Held
      <3> QED
        BY <1>0, <2>1, <3>2, <3>3 DEF QuarantineIsAnswered
    <2>5. CASE ProbeMarksDown
      <3>1. Answered'
        BY <2>1, <2>5 DEF ProbeMarksDown, MarkDown, AlreadyDown, Answered
      <3>2. UNCHANGED <<holder, quarantined, recovery>>
        BY <2>5 DEF ProbeMarksDown
      <3> QED
        BY <1>1, <2>1, <3>1, <3>2
    <2>6. CASE ProbeTells
      <3>1. UNCHANGED <<holder, quarantined, ready>> /\ recovery' = "delay" /\ eventMu = Probe
        BY <2>6 DEF ProbeTells, TellDown
      <3>2. recovery = "none" /\ ~ready
        BY <3>1 DEF OutagePhases, AllWell, BeingDeclared, BeingRecovered, BeingRestored, Abandoned
      <3> QED
        BY <2>1, <3>1, <3>2 DEF QuarantineIsAnswered, Answered
    <2>7. CASE ProbeEnds
      BY <1>1, <2>1, <2>7 DEF ProbeEnds, Answered
    <2> QED
      BY <1>15, <2>2, <2>3, <2>4, <2>5, <2>6, <2>7 DEF ProbeOn, ProbeStep
  <1>16. CASE RequestStop \/ UNCHANGED audioVars
    BY <1>1, <1>2, <1>16 DEF RequestStop, audioVars
  <1>17. CASE AudioEnd
    BY <1>1, <1>17 DEF AudioEnd, EndSupervision, Answered
  <1> QED
    BY <1>3, <1>4, <1>6, <1>7, <1>8, <1>9, <1>10, <1>11, <1>12, <1>13, <1>14, <1>15, <1>16, <1>17
       DEF AudioNext, WorkerStep, IdleStep, AudioReturned

LEMMA PassedStep == AudioInv /\ [AudioNext]_audioVars => PassedIsWell'
  <1> SUFFICES ASSUME AudioInv, [AudioNext]_audioVars, recovery' = "passed"
               PROVE  PassedIsWell'
    BY DEF PassedIsWell
  <1> USE UsersDiffer, PassedIsDown DEF AudioInv, AudioTypeOK, MERTTypeOK, HoldingPlaces, Go, GoWith
  <1>1. ASSUME UNCHANGED <<holder, quarantined, recovery>>,
               \A v \in Workers : at[v] = "holding" => at'[v] = "holding"
        PROVE  PassedIsWell'
    BY <1>1 DEF PassedIsWell
  <1>2. ASSUME NEW w \in Workers, IdleStep(w)
        PROVE  PassedIsWell'
    BY <1>1, <1>2, IdleStepsHoldNothing
  <1>3. ASSUME NEW w \in Workers, Acquire(w)
        PROVE  PassedIsWell'
    <2>1. at' = [at EXCEPT ![w] = "holding"] /\ UNCHANGED <<quarantined, recovery>>
      BY <1>3 DEF Acquire, GetSession
    <2>2. PICK s \in Free : holder' = [holder EXCEPT ![s] = w]
      BY <1>3 DEF Acquire, GetSession
    <2> QED
      BY <2>1, <2>2 DEF PassedIsWell
  <1>4. ASSUME NEW w \in Workers, holder' = Released(w), UNCHANGED <<quarantined, recovery>>,
               \A v \in Workers \ {w} : at'[v] = at[v]
        PROVE  PassedIsWell'
    <2>1. \A s \in Sessions : holder'[s] = (IF holder[s] = w THEN Nobody ELSE holder[s])
      BY <1>4 DEF Released
    <2> QED
      BY <1>4, <2>1 DEF PassedIsWell
  <1>5. ASSUME NEW w \in Workers, SecondLook(w) \/ ThirdLook(w)
        PROVE  PassedIsWell'
    <2>1. UNCHANGED <<quarantined, recovery>>
      BY <1>5 DEF SecondLook, ThirdLook, Look, ReleaseSession
    <2>2. ~Usable(w)
      BY <2>1 DEF Usable
    <2>3. holder' = Released(w) /\ at' = [at EXCEPT ![w] = "finish"]
      BY <1>5, <2>2 DEF SecondLook, ThirdLook, Look, ReleaseSession
    <2> QED
      BY <1>4, <2>1, <2>3
  <1>6. ASSUME NEW w \in Workers, AdmissionCanceled(w)
        PROVE  PassedIsWell'
    BY <1>4, <1>6 DEF AdmissionCanceled, ReleaseSession
  <1>7. ASSUME NEW w \in Workers, recovery = "passed", at[w] # "holding"
        PROVE  Held(w) = {}
    BY <1>7 DEF PassedIsWell, Held
  <1>8. ASSUME NEW w \in Workers, Infer(w)
        PROVE  PassedIsWell'
    <2>1. at[w] = "infer" /\ UNCHANGED recovery /\ \A v \in Workers \ {w} : at'[v] = at[v]
      BY <1>8 DEF Infer
    <2>2. Held(w) = {}
      BY <1>7, <2>1
    <2>3. UNCHANGED quarantined /\ holder' \in {holder, Released(w)}
      BY <1>8, <2>2 DEF Infer, Quarantine
    <2> QED
      BY <1>1, <1>4, <2>1, <2>3
  <1>9. ASSUME NEW w \in Workers, ConfirmHealthy(w)
        PROVE  PassedIsWell'
    BY <1>7, <1>9 DEF ConfirmHealthy
  <1>10. ASSUME NEW w \in Workers, ConfirmUnhealthy(w) \/ DeclareOutage(w)
         PROVE  PassedIsWell'
    BY <1>1, <1>4, <1>10 DEF ConfirmUnhealthy, DeclareOutage
  <1>11. ASSUME NEW w \in Workers, TellOutage(w)
         PROVE  PassedIsWell'
    BY <1>11 DEF TellOutage, TellDown
  <1>12. CASE Recovered
    BY <1>12 DEF Recovered, Restore
  <1>13. CASE RecoverOn
    <2>1. CASE RecoverVerdict
      <3>1. Held(Recovery) = Sessions /\ recovery = "checking" /\ ~unwell
        BY <2>1 DEF RecoverVerdict, Validated
      <3>2. quarantined = {} /\ quarantined' = quarantined
        BY <2>1, <3>1 DEF RecoverVerdict, QuarantineIsAnswered, Held
      <3>3. \A s \in Sessions : holder'[s] = Nobody
        BY <2>1, <3>1 DEF RecoverVerdict, Released, Held
      <3> QED
        BY <3>2, <3>3 DEF PassedIsWell
    <2>2. ~RecoverBegin /\ ~RecoverSession /\ ~RecoverEnds
      BY DEF RecoverBegin, RecoverSession, RecoverEnds, RecoveryReturns
    <2>3. ~TellUp
      BY DEF TellUp, RecoveryReturns
    <2> QED
      BY <1>13, <2>1, <2>2, <2>3 DEF RecoverOn
  <1>14. CASE ProbeOn
    <2>1. UNCHANGED at
      BY <1>14 DEF ProbeOn
    <2>2. ASSUME recovery = "passed"
          PROVE  Held(Probe) = {}
      BY <2>2 DEF PassedIsWell, Held
    <2>3. ~ProbeBegin
      BY DEF ProbeBegin
    <2>4. ~ProbePasses /\ ~ProbeFails
      BY <2>2 DEF ProbePasses, ProbeFails
    <2>5. ~ProbeTells
      BY DEF ProbeTells, TellDown
    <2>6. ASSUME ProbeMarksDown \/ ProbeEnds
          PROVE  PassedIsWell'
      BY <1>1, <2>1, <2>6 DEF ProbeMarksDown, ProbeEnds
    <2> QED
      BY <1>14, <2>3, <2>4, <2>5, <2>6 DEF ProbeOn, ProbeStep
  <1>15. CASE RequestStop \/ AudioEnd \/ UNCHANGED audioVars
    BY <1>1, <1>15 DEF RequestStop, AudioEnd, EndSupervision, audioVars
  <1> QED
    BY <1>2, <1>3, <1>5, <1>6, <1>8, <1>9, <1>10, <1>11, <1>12, <1>13, <1>14, <1>15
       DEF AudioNext, WorkerStep, IdleStep, AudioReturned

-----------------------------------------------------------------------------
(* The theorems *)

LEMMA AudioInvHolds == AudioSpec => []AudioInv
  <1>1. AudioInit => AudioInv
    <2> SUFFICES ASSUME AudioInit
                 PROVE  AudioInv
      OBVIOUS
    <2> USE UsersDiffer DEF AudioInit, MERTInit, CacheInit
    <2>1. AudioTypeOK
      <3>1. ready \in BOOLEAN /\ told \in BOOLEAN /\ unwell \in BOOLEAN /\ ended \in BOOLEAN
            /\ stop \in BOOLEAN
        OBVIOUS
      <3>2. MERTTypeOK
        BY <3>1 DEF MERTTypeOK
      <3>3. CacheTypeOK
        BY DEF CacheTypeOK
      <3> QED
        BY <3>1, <3>2, <3>3 DEF AudioTypeOK, Places
    <2>2. WorkersKnow /\ FlightsAreKept
      BY DEF WorkersKnow, FlightsAreKept, Computing
    <2>3. OutagePhases
      BY DEF OutagePhases, AllWell
    <2>4. SessionsAreHeld
      BY DEF SessionsAreHeld
    <2>5. QuarantineIsAnswered /\ PassedIsWell
      BY DEF QuarantineIsAnswered, PassedIsWell
    <2> QED
      BY <2>1, <2>2, <2>3, <2>4, <2>5 DEF AudioInv
  <1>2. AudioInv /\ [AudioNext]_audioVars => AudioInv'
    BY AudioTypesStep, WorkersKnowStep, FlightsStep, OutageStep, SessionsStep, QuarantineStep,
       PassedStep DEF AudioInv
  <1> QED
    BY <1>1, <1>2, PTL DEF AudioSpec

\* No recording is computed by two workers, nor once it is recorded, whatever
\* outages and cancellations interrupt the computing (mertReuseCache.claim, finish).
THEOREM RecordingsComputedOnce == AudioSpec => []ComputedOnce
  <1>1. AudioInv => ComputedOnce
    <2> SUFFICES ASSUME AudioInv, NEW w \in Workers, Computing(w)
                 PROVE  /\ Key(w) \notin values
                        /\ \A v \in Workers \ {w} : Computing(v) => Key(v) # Key(w)
      BY DEF ComputedOnce
    <2>1. flights[Key(w)] = w /\ w # NoFlight /\ at[w] # "finish"
      BY DEF AudioInv, FlightsAreKept, Computing
    <2> QED
      BY <2>1 DEF AudioInv, FlightsAreKept
  <1> QED
    BY <1>1, AudioInvHolds, PTL

\* An outage has one recovery loop until the supervisor is stopped, and what the
\* run was last told is the state (markDown, recover, stop).
THEOREM OutagesSupervised == AudioSpec => []OutageSupervised
  <1>1. AudioInv => OutageSupervised
    BY UsersDiffer DEF AudioInv, AudioTypeOK, MERTTypeOK, OutagePhases, OutageSupervised, AllWell,
       BeingDeclared, BeingRecovered, BeingRestored, Abandoned
  <1> QED
    BY <1>1, AudioInvHolds, PTL

\* A session is only left in quarantine by an outage (Quarantine, ValidateAll).
THEOREM QuarantinesAreOutages == AudioSpec => []QuarantineIsAnOutage
  <1>1. AudioInv => QuarantineIsAnOutage
    BY DEF AudioInv, QuarantineIsAnswered, QuarantineIsAnOutage, Answered, Free
  <1> QED
    BY <1>1, AudioInvHolds, PTL

=============================================================================
