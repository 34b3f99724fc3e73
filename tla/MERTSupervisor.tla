--------------------------- MODULE MERTSupervisor ---------------------------
(***************************************************************************)
(* The native MERT sessions of one audio run and the supervisor that pauses *)
(* analysis while they are down: MERTWorkerPool of internal/audio and       *)
(* mertSupervisor of internal/libraryindex.                                *)
(*                                                                         *)
(* A session is reserved by one user at a time: an audio worker, the idle  *)
(* probe or the recovery loop.  A session that fails is quarantined until  *)
(* it passes its health check.  An outage begins when a health check fails *)
(* (markDown), and one recovery loop validates all sessions until it can   *)
(* end it.                                                                 *)
(*                                                                         *)
(* `faults' is what the native workers and the disk may still do wrong:    *)
(* every failing answer uses one up, so that failures are finitely many.   *)
(***************************************************************************)
EXTENDS Integers, FiniteSets

CONSTANTS
    Sessions,   \* MERTWorkerPool.workers
    Workers,    \* the audio workers of runAudio
    Nobody, Probe, Recovery,
    MaxFaults

ASSUME UsersAssumption ==
    /\ Cardinality({Nobody, Probe, Recovery}) = 3
    /\ {Nobody, Probe, Recovery} \cap Workers = {}
ASSUME FaultsAssumption == MaxFaults \in Nat

VARIABLES
    holder,       \* who has reserved each session; Nobody: it is in `available'
    quarantined,  \* MERTWorkerPool.quarantined
    waiting,      \* workers blocked in MERTWorkerPool.Acquire
    faults,
    ready,        \* the channel mertSupervisor.ready is closed
    eventMu,      \* who holds eventMu, or Nobody
    told,         \* what the last onChange said
    loops,        \* recovery goroutines registered with the wait group
    recovery,     \* "none", "delay", "checking", "passed" or "telling"
    unwell,       \* a session failed in this ValidateAll
    probe,        \* "idle", "checking", "failed", "telling" or "gone"
    ended         \* the supervisor's context has ended

sessionVars == <<holder, quarantined, waiting, faults>>
eventVars == <<ready, eventMu, told, loops>>
loopVars == <<recovery, unwell, probe>>
mertVars == <<sessionVars, eventVars, loopVars, ended>>

MERTInit ==
    /\ holder = [s \in Sessions |-> Nobody]
    /\ quarantined = {}
    /\ waiting = {}
    /\ faults = MaxFaults
    /\ ready = TRUE
    /\ eventMu = Nobody
    /\ told = TRUE
    /\ loops = 0
    /\ recovery = "none"
    /\ unwell = FALSE
    /\ probe = "idle"
    /\ ended = FALSE

MERTTypeOK ==
    /\ holder \in [Sessions -> Workers \cup {Nobody, Probe, Recovery}]
    /\ quarantined \subseteq Sessions
    /\ waiting \subseteq Workers
    /\ faults \in 0..MaxFaults
    /\ ready \in BOOLEAN /\ told \in BOOLEAN /\ unwell \in BOOLEAN /\ ended \in BOOLEAN
    /\ eventMu \in Workers \cup {Nobody, Probe, Recovery}
    /\ loops \in Nat
    /\ recovery \in {"none", "delay", "checking", "passed", "telling"}
    /\ probe \in {"idle", "checking", "failed", "telling", "gone"}

-----------------------------------------------------------------------------
\* The sessions.

Free == {s \in Sessions : holder[s] = Nobody}
Held(u) == {s \in Sessions : holder[s] = u}

\* What goes wrong uses up a fault; what goes well does not.
Fault == faults > 0 /\ faults' = faults - 1
Fine == UNCHANGED faults

\* Acquire of worker w: it joins those blocked on `available' ...
QueueForSession(w) ==
    /\ waiting' = waiting \cup {w}
    /\ UNCHANGED <<holder, quarantined, faults>>

\* ... and a session is handed to one of them.
GetSession(w) ==
    /\ w \in waiting
    /\ \E s \in Free : holder' = [holder EXCEPT ![s] = w]
    /\ waiting' = waiting \ {w}
    /\ UNCHANGED <<quarantined, faults>>

\* Acquire's other case: the context ended first.
LeaveSessionQueue(w) ==
    /\ w \in waiting
    /\ waiting' = waiting \ {w}
    /\ UNCHANGED <<holder, quarantined, faults>>

Released(u) == [s \in Sessions |-> IF holder[s] = u THEN Nobody ELSE holder[s]]

ReleaseSession(w) ==
    /\ holder' = Released(w)
    /\ UNCHANGED <<quarantined, waiting, faults>>

\* Quarantine of the session w holds, after its native worker failed.
Quarantine(w) ==
    /\ Fault
    /\ quarantined' = quarantined \cup Held(w)
    /\ UNCHANGED <<holder, waiting>>

\* Validate(s): the fixture check, and what it says of the quarantine.
Healthy(s) == Fine /\ quarantined' = quarantined \ {s}
Unhealthy(s) == Fault /\ quarantined' = quarantined \cup {s}

-----------------------------------------------------------------------------
\* Outages.  markDown and the end of recover hold eventMu over the change and
\* its notification.

\* Mutant of MarkDown: an outage that is already supervised gets a second loop.
MarkDownAgain(u) ==
    /\ eventMu = Nobody
    /\ ~ended
    /\ ready' = FALSE
    /\ eventMu' = u
    /\ loops' = loops + 1
    /\ UNCHANGED told

\* markDown of u, up to its notification.
MarkDown(u) ==
    /\ eventMu = Nobody
    /\ ready /\ ~ended
    /\ ready' = FALSE
    /\ eventMu' = u
    /\ loops' = loops + 1
    /\ UNCHANGED told

\* markDown returns early: the outage is already supervised, or the end has come.
AlreadyDown ==
    /\ eventMu = Nobody
    /\ ~ready \/ ended
    /\ UNCHANGED eventVars

\* onChange(false), `go recover()', and eventMu is given back.
TellDown(u) ==
    /\ eventMu = u
    /\ told' = FALSE
    /\ eventMu' = Nobody
    /\ recovery' = "delay"
    /\ UNCHANGED <<ready, loops, unwell>>

-----------------------------------------------------------------------------
\* recover: delay, ValidateAll, and start over or end the outage.

RecoveryReturns ==
    /\ recovery' = "none"
    /\ loops' = loops - 1

\* The delay has passed: ValidateAll begins.
RecoverBegin ==
    /\ recovery = "delay" /\ ~ended
    /\ recovery' = "checking"
    /\ unwell' = FALSE
    /\ UNCHANGED <<sessionVars, eventVars, probe, ended>>

\* One turn of ValidateAll: it reserves a session and checks it.  It is a
\* receiver on `available' like the workers, but holds what it gets.
RecoverSession ==
    /\ recovery = "checking" /\ ~ended
    /\ \E s \in Free :
        /\ holder' = [holder EXCEPT ![s] = Recovery]
        /\ \/ Healthy(s) /\ UNCHANGED unwell
           \/ Unhealthy(s) /\ unwell' = TRUE
    /\ UNCHANGED <<waiting, eventVars, recovery, probe, ended>>

\* Mutant of Validated: recovery is content with one session that passes.
ValidatedOne == Held(Recovery) # {}

\* Every session is checked.
Validated == Held(Recovery) = Sessions

\* ValidateAll returns, and with it every reservation.
RecoverVerdict ==
    /\ recovery = "checking" /\ Validated /\ ~ended
    /\ holder' = Released(Recovery)
    /\ recovery' = IF unwell THEN "delay" ELSE "passed"
    /\ UNCHANGED <<quarantined, waiting, faults, eventVars, unwell, probe, ended>>

\* The context ends the delay, the wait for a session, or the loop after it.
RecoverEnds ==
    /\ ended
    /\ recovery \in {"delay", "checking"}
    /\ holder' = Released(Recovery)
    /\ RecoveryReturns
    /\ UNCHANGED <<quarantined, waiting, faults, ready, eventMu, told, unwell, probe, ended>>

\* The outage is over.  The loop looked at the context before it took eventMu.
\* Whoever waited on `ready' goes on: the channel that is closed is theirs.
Restore ==
    /\ recovery = "passed"
    /\ eventMu = Nobody
    /\ ready' = TRUE
    /\ eventMu' = Recovery
    /\ recovery' = "telling"
    /\ UNCHANGED <<sessionVars, told, loops, unwell, probe, ended>>

TellUp ==
    /\ eventMu = Recovery
    /\ told' = TRUE
    /\ eventMu' = Nobody
    /\ RecoveryReturns
    /\ UNCHANGED <<sessionVars, ready, unwell, probe, ended>>

-----------------------------------------------------------------------------
\* start's goroutine: the idle probe.

\* A tick in a healthy, quiet run: TryAcquire takes a session nobody waits for,
\* since a session given back goes to a blocked Acquire first.
ProbeBegin ==
    /\ probe = "idle" /\ ready /\ ~ended
    /\ waiting = {}
    /\ \E s \in Free : holder' = [holder EXCEPT ![s] = Probe]
    /\ probe' = "checking"
    /\ UNCHANGED <<quarantined, waiting, faults, eventVars, recovery, unwell, ended>>

\* Mutant of ProbeFails: the verdict of a failed probe is dropped.
ProbeFailsQuietly ==
    /\ probe = "checking"
    /\ \E s \in Held(Probe) : Unhealthy(s)
    /\ holder' = Released(Probe)
    /\ probe' = "idle"
    /\ UNCHANGED <<waiting, eventVars, recovery, unwell, ended>>

\* Validate, and the session is given back, before the verdict is acted upon.
ProbePasses ==
    /\ probe = "checking"
    /\ \E s \in Held(Probe) : Healthy(s)
    /\ holder' = Released(Probe)
    /\ probe' = "idle"
    /\ UNCHANGED <<waiting, eventVars, recovery, unwell, ended>>

ProbeFails ==
    /\ probe = "checking"
    /\ \E s \in Held(Probe) : Unhealthy(s)
    /\ holder' = Released(Probe)
    /\ probe' = "failed"
    /\ UNCHANGED <<waiting, eventVars, recovery, unwell, ended>>

ProbeMarksDown ==
    /\ probe = "failed" /\ ~ended
    /\ \/ MarkDown(Probe) /\ probe' = "telling"
       \/ AlreadyDown /\ probe' = "idle"
    /\ UNCHANGED <<sessionVars, recovery, unwell, ended>>

ProbeTells ==
    /\ probe = "telling"
    /\ TellDown(Probe)
    /\ probe' = "idle"
    /\ UNCHANGED <<sessionVars, ended>>

ProbeEnds ==
    /\ probe \in {"idle", "failed"} /\ ended
    /\ probe' = "gone"
    /\ UNCHANGED <<sessionVars, eventVars, recovery, unwell, ended>>

-----------------------------------------------------------------------------
\* stop(), first half: the context ends under mu.
EndSupervision ==
    /\ ~ended
    /\ ended' = TRUE
    /\ UNCHANGED <<sessionVars, eventVars, loopVars>>

\* stop(), second half: the wait group is empty.
SupervisionOver == ended /\ loops = 0 /\ probe = "gone"

ProbeStep ==
    ProbeBegin \/ ProbePasses \/ ProbeFails \/ ProbeMarksDown \/ ProbeTells \/ ProbeEnds

-----------------------------------------------------------------------------

\* While it is down there is exactly one recovery loop, until the supervisor is
\* stopped, and none while it is up; what was last told is the state, but for
\* the one who is telling it.  Workers and the probe declare outages at once
\* (mert_health.go:157-180), recovery ends them (:196-206): a lost loop pauses
\* the run for ever, a second one would report an outage's end while another
\* is on.
OutageSupervised ==
    /\ ready => loops = (IF recovery = "telling" THEN 1 ELSE 0)
    /\ ~ready => loops = 1 \/ (ended /\ loops = 0)
    /\ (eventMu = Nobody) => (told = ready)
    /\ (eventMu # Nobody) => (told # ready)
    /\ recovery # "none" => loops = 1

\* A quarantined session that nobody holds belongs to an outage, or to a
\* verdict that is about to declare one.  Otherwise the workers would draw it
\* and put their jobs back, again and again (pipeline.go:763).
QuarantineIsAnOutage ==
    \A s \in quarantined \cap Free : ~ready \/ ended \/ probe = "failed"
=============================================================================
