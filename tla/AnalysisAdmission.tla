------------------------- MODULE AnalysisAdmission -------------------------
(***************************************************************************)
(* The workers of one analysis over their Admission: metadata workers      *)
(* probing files, and audio workers that decode a track into reserved PCM, *)
(* then run its DSP and MERT branches window by window, each branch with   *)
(* reservations of its own taken while the track still holds its PCM, and  *)
(* with a DSP slot or a MERT worker already in hand.                       *)
(*                                                                         *)
(* SourceIO, Files and the decoder's Memory are one resource, "source":    *)
(* the pipeline takes and returns the three together.                      *)
(***************************************************************************)
EXTENDS Admission

CONSTANTS
    AudioWorkers, MetadataWorkers,
    DSPSlots,        \* Plan.DSPWorkers
    MERTWorkers,     \* workers of the MERT pool
    InferenceThreads \* CPU units of one inference

Track(w) == <<w, "track">>
DSP(w) == <<w, "dsp">>
MERT(w) == <<w, "mert">>
Probe(m) == <<m, "probe">>

ASSUME PipelineAssumption ==
    /\ Resources = {"cpu", "source", "pcm"}
    /\ Clients = {Track(w) : w \in AudioWorkers} \cup {DSP(w) : w \in AudioWorkers}
                   \cup {MERT(w) : w \in AudioWorkers} \cup {Probe(m) : m \in MetadataWorkers}
    /\ DSPSlots \in Nat \ {0} /\ MERTWorkers \in Nat \ {0}
    /\ InferenceThreads \in 1..Capacity["cpu"]

VARIABLES
    stage,  \* of each audio worker: "idle", "decode", "window"
    dsp,    \* its DSP branch: "off", "slot", "run", "done"
    mert    \* its MERT branch: "off", "resample", "ready", "worker", "run", "done"

vars == <<used, waiters, closed, status, held, stage, dsp, mert>>

branches == <<dsp, mert>>

Ask(cpu, source, pcm) ==
    [r \in Resources |-> CASE r = "cpu" -> cpu [] r = "source" -> source [] r = "pcm" -> pcm]

Init ==
    /\ AInit
    /\ stage = [w \in AudioWorkers |-> "idle"]
    /\ dsp = [w \in AudioWorkers |-> "off"]
    /\ mert = [w \in AudioWorkers |-> "off"]

-----------------------------------------------------------------------------
(* runDecodedWindows *)

\* A track of n windows reserves all of its PCM at once if that can ever fit;
\* else its windows are reserved one by one, like tracks of one window.
StartTrack(w, n) ==
    /\ stage[w] = "idle"
    /\ Acquire(Track(w), Ask(1, 1, n))
    /\ stage' = [stage EXCEPT ![w] = "decode"]
    /\ UNCHANGED branches

\* A branch has nothing to do when its result is cached or, for MERT, when an
\* earlier window of the track failed.
StartBranches(w) ==
    \E d \in {"slot", "done"}, m \in {"resample", "done"} :
        /\ dsp' = [dsp EXCEPT ![w] = d]
        /\ mert' = [mert EXCEPT ![w] = m]

Decoded(w) ==
    /\ stage[w] = "decode"
    /\ ReleasePart(Track(w), Ask(1, 1, 0))
    /\ stage' = [stage EXCEPT ![w] = "window"]
    /\ StartBranches(w)

DecodeFailed(w) ==
    /\ stage[w] = "decode"
    /\ Release(Track(w))
    /\ stage' = [stage EXCEPT ![w] = "idle"]
    /\ UNCHANGED branches

\* Both branches are back: the window's PCM is returned, and the next window
\* follows if there is one.
WindowDone(w) ==
    /\ dsp[w] = "done" /\ mert[w] = "done"
    /\ IF held[Track(w)]["pcm"] > 1
         THEN /\ ReleasePart(Track(w), Ask(0, 0, 1))
              /\ StartBranches(w)
              /\ UNCHANGED stage
         ELSE /\ Release(Track(w))
              /\ stage' = [stage EXCEPT ![w] = "idle"]
              /\ dsp' = [dsp EXCEPT ![w] = "off"]
              /\ mert' = [mert EXCEPT ![w] = "off"]

\* A failed DSP branch ends the track once both are back.
TrackFailed(w) ==
    /\ dsp[w] = "done" /\ mert[w] = "done"
    /\ Release(Track(w))
    /\ stage' = [stage EXCEPT ![w] = "idle"]
    /\ dsp' = [dsp EXCEPT ![w] = "off"]
    /\ mert' = [mert EXCEPT ![w] = "off"]

-----------------------------------------------------------------------------
(* The branches of a window *)

\* acquireDSPSlot: the slot first, then the CPU.
TakeDSPSlot(w) ==
    /\ dsp[w] = "slot"
    /\ Cardinality({v \in AudioWorkers : dsp[v] = "run"}) < DSPSlots
    /\ Acquire(DSP(w), Ask(1, 0, 0))
    /\ dsp' = [dsp EXCEPT ![w] = "run"]
    /\ UNCHANGED <<stage, mert>>

DSPDone(w) ==
    /\ dsp[w] = "run"
    /\ Release(DSP(w))
    /\ dsp' = [dsp EXCEPT ![w] = "done"]
    /\ UNCHANGED <<stage, mert>>

AskResample(w) ==
    /\ mert[w] = "resample"
    /\ Acquire(MERT(w), Ask(1, 0, 0))
    /\ UNCHANGED <<stage, branches>>

ResampleDone(w) ==
    /\ mert[w] = "resample"
    /\ Release(MERT(w))
    /\ mert' = [mert EXCEPT ![w] = "ready"]
    /\ UNCHANGED <<stage, dsp>>

\* acquireMERT: a worker of the pool, then the CPU ...
TakeMERTWorker(w) ==
    /\ mert[w] = "ready"
    /\ Cardinality({v \in AudioWorkers : mert[v] \in {"worker", "run"}}) < MERTWorkers
    /\ mert' = [mert EXCEPT ![w] = "worker"]
    /\ UNCHANGED <<avars, stage, dsp>>

AskInference(w) ==
    /\ mert[w] = "worker"
    /\ Acquire(MERT(w), Ask(InferenceThreads, 0, 0))
    /\ mert' = [mert EXCEPT ![w] = "run"]
    /\ UNCHANGED <<stage, dsp>>

\* ... and the CPU goes back before the worker.
InferenceDone(w) ==
    /\ mert[w] = "run"
    /\ Release(MERT(w))
    /\ mert' = [mert EXCEPT ![w] = "done"]
    /\ UNCHANGED <<stage, dsp>>

\* The outage, seen before or after either wait, ends the branch with what it
\* holds given back.
MERTDeferred(w) ==
    /\ mert[w] \in {"ready", "worker"}
    /\ status[MERT(w)] = "idle"
    /\ mert' = [mert EXCEPT ![w] = "done"]
    /\ UNCHANGED <<avars, stage, dsp>>

-----------------------------------------------------------------------------
(* Metadata workers *)

StartProbe(m) ==
    /\ Acquire(Probe(m), Ask(1, 1, 0))
    /\ UNCHANGED <<stage, branches>>

ProbeDone(m) ==
    /\ Release(Probe(m))
    /\ UNCHANGED <<stage, branches>>

-----------------------------------------------------------------------------
(* The run is canceled, or the controller closed, under a caller *)

\* What a caller does when its reservation is not to be: the error ends the
\* track, or the branch.
Abandoned(c) ==
    LET w == c[1] IN
    CASE c[2] = "track" -> /\ stage' = [stage EXCEPT ![w] = "idle"]
                           /\ UNCHANGED branches
      [] c[2] = "dsp"   -> /\ dsp' = [dsp EXCEPT ![w] = "done"]
                           /\ UNCHANGED <<stage, mert>>
      [] c[2] = "mert"  -> /\ mert' = [mert EXCEPT ![w] = "done"]
                           /\ UNCHANGED <<stage, dsp>>
      [] c[2] = "probe" -> UNCHANGED <<stage, branches>>

Answered(c) == Receive(c) /\ UNCHANGED <<stage, branches>>

Refusal(c) == ReceiveRefusal(c) /\ Abandoned(c)

Cancel(c) == (CancelWaiting(c) \/ CancelGranted(c)) /\ Abandoned(c)

Closing == Close /\ UNCHANGED <<stage, branches>>

\* Requests that come after Close get an error at once.
DSPRefused(w) ==
    /\ closed
    /\ dsp[w] = "slot"
    /\ Abandoned(DSP(w))
    /\ UNCHANGED avars

MERTRefused(w) ==
    /\ closed
    /\ mert[w] \in {"resample", "worker"}
    /\ status[MERT(w)] = "idle"
    /\ Abandoned(MERT(w))
    /\ UNCHANGED avars

AllOver ==
    /\ closed
    /\ \A c \in Clients : status[c] = "idle"
    /\ UNCHANGED vars

-----------------------------------------------------------------------------

Answer(c) == Answered(c) \/ Refusal(c)

\* The goroutines of an audio worker: its own and one for each branch.
TrackStep(w) ==
    \/ Answer(Track(w))
    \/ Decoded(w) \/ DecodeFailed(w)
    \/ WindowDone(w) \/ TrackFailed(w)

DSPStep(w) ==
    \/ Answer(DSP(w))
    \/ TakeDSPSlot(w) \/ DSPDone(w) \/ DSPRefused(w)

MERTStep(w) ==
    \/ Answer(MERT(w))
    \/ AskResample(w) \/ ResampleDone(w)
    \/ TakeMERTWorker(w) \/ AskInference(w) \/ InferenceDone(w)
    \/ MERTRefused(w)

ProbeStep(m) == Answer(Probe(m)) \/ ProbeDone(m)

Next ==
    \/ \E w \in AudioWorkers :
         \/ \E n \in 1..Capacity["pcm"] : StartTrack(w, n)
         \/ TrackStep(w)
         \/ DSPStep(w)
         \/ MERTStep(w)
         \/ MERTDeferred(w)
    \/ \E m \in MetadataWorkers : StartProbe(m) \/ ProbeStep(m)
    \/ \E c \in Clients : Cancel(c)
    \/ Closing
    \/ AllOver

\* Work ends and callers run.  The DSP slots are a channel and the MERT pool a
\* queue, both first come first served: a branch that keeps asking gets one,
\* hence the strong fairness.  Nothing is assumed of new work, cancellation,
\* outages or Close.
Fairness ==
    /\ \A w \in AudioWorkers :
         /\ WF_vars(TrackStep(w))
         /\ SF_vars(DSPStep(w))
         /\ SF_vars(MERTStep(w))
    /\ \A m \in MetadataWorkers : WF_vars(ProbeStep(m))

Spec == Init /\ [][Next]_vars /\ Fairness

-----------------------------------------------------------------------------
(* Properties *)

\* A track that asked for its reservation is finished in the end: it is not
\* starved by younger probes and branches, and once it holds its PCM its
\* branches' waits for a slot, a worker and CPU are never circular.
TracksFinish == \A w \in AudioWorkers : stage[w] # "idle" ~> stage[w] = "idle"

=============================================================================
