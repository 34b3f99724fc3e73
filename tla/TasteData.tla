------------------------------ MODULE TasteData ------------------------------
(***************************************************************************)
(* The listener's taste: feedback and exposures on record, the profiles    *)
(* projected from them, and the user's wish to have them all forgotten     *)
(* (internal/bridge, over internal/taste's store).                         *)
(*                                                                         *)
(* A call is a RecordFeedback, which records an event and projects a       *)
(* profile, or a playlist generation, which projects a profile, builds,    *)
(* and issues a presentation whose display is recorded as an exposure when *)
(* the frontend acknowledges it.  ClearTasteData runs among them.  Each    *)
(* call leaves at most one event, and the event goes by the call's name.   *)
(* All calls are of one session.                                           *)
(***************************************************************************)
EXTENDS Integers, Sequences, SequencesExt

CONSTANTS
    Feedbacks, Generations,  \* the calls
    NoGeneration,
    MaxClears,               \* how often the user clears
    MaxPresentations

Calls == Feedbacks \cup Generations

ASSUME TasteAssumption ==
    /\ Feedbacks \cap Generations = {} /\ NoGeneration \notin Calls
    /\ MaxClears \in Nat /\ MaxPresentations \in Nat \ {0}

VARIABLES
    events,       \* on record
    profiled,     \* the events that some saved profile was projected from
    tasteEpoch,
    presented,    \* presentationStore.order
    acknowledged, \* its entries that are
    clearing,     \* "none", "asked", "feedback", "profiles": where a clear is
    clears,
    halfCleared,  \* the last clear failed after it had deleted the events
    stage,        \* of each call
    seenEpoch,    \* the epoch its projection began in
    heard,        \* the events that it listed
    generating,   \* the generation in operationSet.active, or NoGeneration
    canceled,     \* the generations whose context has ended
    forgotten     \* history: the events and presentations that a clear dropped

storeVars == <<events, profiled>>
presentationVars == <<tasteEpoch, presented, acknowledged>>
clearVars == <<clearing, clears, halfCleared, forgotten>>
callVars == <<stage, seenEpoch, heard>>
operationVars == <<generating, canceled>>
tasteVars == <<storeVars, presentationVars, clearVars, callVars, operationVars>>

TasteInit ==
    /\ events = {} /\ profiled = {}
    /\ tasteEpoch = 0 /\ presented = <<>> /\ acknowledged = {}
    /\ clearing = "none" /\ clears = 0 /\ halfCleared = FALSE /\ forgotten = {}
    /\ stage = [c \in Calls |-> "idle"]
    /\ seenEpoch = [c \in Calls |-> 0]
    /\ heard = [c \in Calls |-> {}]
    /\ generating = NoGeneration /\ canceled = {}

TasteTypeOK ==
    /\ events \subseteq Calls /\ profiled \subseteq Calls /\ forgotten \subseteq Calls
    /\ acknowledged \subseteq Generations /\ canceled \subseteq Generations
    /\ presented \in Seq(Generations) /\ Len(presented) <= MaxPresentations
    /\ tasteEpoch \in 0..MaxClears /\ clears \in 0..MaxClears
    /\ clearing \in {"none", "asked", "feedback", "profiles"}
    /\ stage \in [Calls -> {"idle", "profile", "list", "exposures", "save", "build",
                            "present", "shown", "over"}]
    /\ seenEpoch \in [Calls -> 0..MaxClears]
    /\ heard \in [Calls -> SUBSET Calls]
    /\ generating \in Generations \cup {NoGeneration}

-----------------------------------------------------------------------------

Reach(c, next) == stage' = [stage EXCEPT ![c] = next]

\* The projection's own variables go with it.
Projected(c, next) ==
    /\ Reach(c, next)
    /\ seenEpoch' = [seenEpoch EXCEPT ![c] = 0]
    /\ heard' = [heard EXCEPT ![c] = {}]

\* Nobody holds presentations.mu; a clear holds it while it deletes.
MuFree == clearing \notin {"feedback", "profiles"}

\* What a projection that cannot be completed leads to: feedback reports the
\* error, and so does a generation that is canceled; any other is built without
\* a profile (generationTasteProfile).
WithoutProfile(c) ==
    IF c \in Feedbacks \/ c \in canceled THEN "over" ELSE "build"

\* RecordFeedback: the event is recorded, whoever clears meanwhile.
RecordFeedback(c) ==
    /\ c \in Feedbacks /\ stage[c] = "idle"
    /\ events' = events \cup {c}
    /\ Reach(c, "profile")
    /\ UNCHANGED <<profiled, presentationVars, clearVars, seenEpoch, heard, operationVars>>

\* GenerateFromPrompt or BuildPlaylist: operationSet.begin cancels the one before.
BeginGeneration(c) ==
    /\ c \in Generations /\ stage[c] = "idle"
    /\ canceled' = canceled \cup ({generating} \ {NoGeneration})
    /\ generating' = c
    /\ Reach(c, "profile")
    /\ UNCHANGED <<storeVars, presentationVars, clearVars, seenEpoch, heard>>

-----------------------------------------------------------------------------
\* buildTasteProfileWithCatalog.

ReadEpoch(c) ==
    /\ stage[c] = "profile" /\ MuFree
    /\ seenEpoch' = [seenEpoch EXCEPT ![c] = tasteEpoch]
    /\ Reach(c, "list")
    /\ UNCHANGED <<storeVars, presentationVars, clearVars, heard, operationVars>>

\* ListFeedback asks for the explicit events and then for the exposures.
ListExplicit(c) ==
    /\ stage[c] = "list"
    /\ heard' = [heard EXCEPT ![c] = events \cap Feedbacks]
    /\ Reach(c, "exposures")
    /\ UNCHANGED <<storeVars, presentationVars, clearVars, seenEpoch, operationVars>>

ListExposures(c) ==
    /\ stage[c] = "exposures"
    /\ heard' = [heard EXCEPT ![c] = @ \cup (events \cap Generations)]
    /\ Reach(c, "save")
    /\ UNCHANGED <<storeVars, presentationVars, clearVars, seenEpoch, operationVars>>

\* Storage fails, or the context ends on the way.
FailProjection(c) ==
    /\ stage[c] \in {"profile", "list", "exposures", "save"}
    /\ Projected(c, WithoutProfile(c))
    /\ UNCHANGED <<storeVars, presentationVars, clearVars, operationVars>>

\* Mutant of SaveProfile: the projection is saved whatever was cleared since.
SaveProfileAnyway(c) ==
    /\ stage[c] = "save" /\ MuFree /\ c \notin canceled
    /\ profiled' = profiled \cup heard[c]
    /\ Projected(c, IF c \in Feedbacks THEN "over" ELSE "build")
    /\ UNCHANGED <<events, presentationVars, clearVars, operationVars>>

\* The projection is saved, unless the taste has been cleared since it began.
\* A failing save is only logged.
SaveProfile(c) ==
    /\ stage[c] = "save" /\ MuFree /\ c \notin canceled
    /\ IF seenEpoch[c] = tasteEpoch
       THEN /\ profiled' \in {profiled, profiled \cup heard[c]}
            /\ Projected(c, IF c \in Feedbacks THEN "over" ELSE "build")
       ELSE Projected(c, WithoutProfile(c)) /\ UNCHANGED profiled
    /\ UNCHANGED <<events, presentationVars, clearVars, operationVars>>

-----------------------------------------------------------------------------
\* The end of a generation.

\* The result is kept if its context lives and it is still the current one.
EndBuild(c) ==
    /\ stage[c] = "build"
    /\ Reach(c, IF c \notin canceled /\ generating = c THEN "present" ELSE "over")
    /\ UNCHANGED <<storeVars, presentationVars, clearVars, seenEpoch, heard, operationVars>>

\* Mutant of PreparePresentation: the store never forgets a presentation.
PreparePresentationKeeping(c) ==
    /\ stage[c] = "present" /\ MuFree
    /\ presented' = Append(presented, c)
    /\ generating' = IF generating = c THEN NoGeneration ELSE generating
    /\ Reach(c, "shown")
    /\ UNCHANGED <<storeVars, tasteEpoch, acknowledged, clearVars, seenEpoch, heard, canceled>>

\* preparePresentation drops the oldest when there are too many; finish follows.
PreparePresentation(c) ==
    /\ stage[c] = "present" /\ MuFree
    /\ presented' = Append(IF Len(presented) = MaxPresentations THEN Tail(presented) ELSE presented, c)
    /\ generating' = IF generating = c THEN NoGeneration ELSE generating
    /\ Reach(c, "shown")
    /\ UNCHANGED <<storeVars, tasteEpoch, acknowledged, clearVars, seenEpoch, heard, canceled>>

\* AcknowledgePlaylistDisplayed, the first time; its transaction may fail, which
\* changes nothing, and a presentation that has gone is refused.
Acknowledge(c) ==
    /\ c \in ToSet(presented) \ acknowledged /\ MuFree
    /\ events' = events \cup {c}
    /\ acknowledged' = acknowledged \cup {c}
    /\ UNCHANGED <<profiled, tasteEpoch, presented, clearVars, callVars, operationVars>>

-----------------------------------------------------------------------------
\* ClearTasteData.

\* cancelRecommendationWork comes before the lock.
AskClear ==
    /\ clearing = "none" /\ clears < MaxClears
    /\ clears' = clears + 1
    /\ clearing' = "asked"
    /\ canceled' = canceled \cup ({generating} \ {NoGeneration})
    /\ generating' = NoGeneration
    /\ UNCHANGED <<storeVars, presentationVars, halfCleared, forgotten, callVars>>

DropPresentations ==
    /\ clearing = "asked"
    /\ clearing' = "feedback"
    /\ tasteEpoch' = tasteEpoch + 1
    /\ forgotten' = forgotten \cup (ToSet(presented) \ acknowledged)
    /\ presented' = <<>> /\ acknowledged' = {}
    /\ UNCHANGED <<storeVars, clears, halfCleared, callVars, operationVars>>

\* ClearFeedback; its failure ends the clear.
ClearFeedback ==
    /\ clearing = "feedback"
    /\ \/ events' = {} /\ forgotten' = forgotten \cup events /\ clearing' = "profiles"
       \/ clearing' = "none" /\ UNCHANGED <<events, forgotten>>
    /\ UNCHANGED <<profiled, presentationVars, clears, halfCleared, callVars, operationVars>>

\* ClearProfiles.
ClearProfiles ==
    /\ clearing = "profiles"
    /\ clearing' = "none"
    /\ \/ profiled' = {} /\ halfCleared' = FALSE
       \/ halfCleared' = TRUE /\ UNCHANGED profiled
    /\ UNCHANGED <<events, presentationVars, clears, forgotten, callVars, operationVars>>

-----------------------------------------------------------------------------

CallStep(c) ==
    \/ RecordFeedback(c) \/ BeginGeneration(c) \/ ReadEpoch(c) \/ ListExplicit(c)
    \/ ListExposures(c) \/ FailProjection(c) \/ SaveProfile(c)
    \/ EndBuild(c) \/ PreparePresentation(c) \/ Acknowledge(c)

ClearStep == AskClear \/ DropPresentations \/ ClearFeedback \/ ClearProfiles

\* Every call has ended.
TasteOver ==
    /\ \A c \in Calls : stage[c] \in {"over", "shown"}
    /\ UNCHANGED tasteVars

TasteNext == (\E c \in Calls : CallStep(c)) \/ ClearStep \/ TasteOver

TasteSpec == TasteInit /\ [][TasteNext]_tasteVars

-----------------------------------------------------------------------------

\* What a clear dropped does not come back: no late projection saves a profile
\* of deleted events, and no late display records an exposure of a presentation
\* it dropped (feedback.go:157-177, :219-228; presentation.go:53-74).  A clear
\* that fails halfway says so, and leaves the old profiles.
StaysForgotten ==
    /\ events \cap forgotten = {}
    /\ clearing # "profiles" /\ ~halfCleared => profiled \cap forgotten = {}
=============================================================================
