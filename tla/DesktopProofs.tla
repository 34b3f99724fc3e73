--------------------------- MODULE DesktopProofs ----------------------------
(* What a session of the application guarantees its listener and its callers; *)
(* and that all components run as each does.                                  *)
EXTENDS MCDesktop, AudioProofs, InstallProofs

-----------------------------------------------------------------------------
(* What the listener's wish to be forgotten guarantees, however many calls  *)
(* and clears there are.                                                    *)

(* The inductive invariant *)

\* An epoch is begun by a clear, once; feedback presents nothing.
TasteTypes ==
    /\ TasteTypeOK
    /\ \A c \in Feedbacks : stage[c] \notin {"build", "present", "shown"}
    /\ tasteEpoch + (IF clearing = "asked" THEN 1 ELSE 0) <= clears

\* The presentations nobody has acknowledged: their exposure may still come.
Pending == ToSet(presented) \ acknowledged

\* What has left a trace has been recorded, and is not recorded again.
LeavesATraceOnce ==
    /\ \A c \in Feedbacks : c \in events \cup forgotten => stage[c] # "idle"
    /\ \A c \in Generations :
        c \in ToSet(presented) \cup events \cup forgotten \cup profiled => stage[c] = "shown"
    /\ \A d \in Calls : \A c \in Generations \cap heard[d] : stage[c] = "shown"

\* A presentation that may still be acknowledged is not on record, no
\* projection has heard of it, and no clear has dropped it.
PendingIsUnheard ==
    /\ ToSet(presented) \cap forgotten = {}
    /\ Pending \cap (events \cup profiled) = {}
    /\ \A d \in Calls : Pending \cap heard[d] = {}

\* While a clear deletes there is nothing to acknowledge, and every projection
\* under way is of an earlier epoch.
Projecting(c) == stage[c] \in {"list", "exposures", "save"}
DeletingShutsOut ==
    ~MuFree =>
        /\ presented = <<>>
        /\ \A c \in Calls : Projecting(c) => seenEpoch[c] < tasteEpoch

\* A projection of this epoch has heard of nothing that was deleted.
CurrentHearsNoneForgotten ==
    \A c \in Calls :
        /\ seenEpoch[c] <= tasteEpoch
        /\ stage[c] \in {"exposures", "save"} /\ seenEpoch[c] = tasteEpoch =>
            heard[c] \cap forgotten = {}

TasteInv ==
    /\ TasteTypes /\ LeavesATraceOnce /\ PendingIsUnheard /\ DeletingShutsOut
    /\ CurrentHearsNoneForgotten /\ StaysForgotten

USE TasteAssumption

-----------------------------------------------------------------------------
(* The presentations *)

\* What an append and a drop of the oldest do to the presentations.
LEMMA ShownSet ==
    ASSUME NEW s \in Seq(Generations), NEW c \in Generations
    PROVE  /\ ToSet(Append(s, c)) = ToSet(s) \cup {c}
           /\ s # <<>> => ToSet(Tail(s)) \subseteq ToSet(s)
           /\ ToSet(<<>>) = {}
  <1>1. ToSet(Append(s, c)) = ToSet(s) \cup {c}
    <2>1. DOMAIN Append(s, c) = 1..Len(s) + 1 /\ DOMAIN s = 1..Len(s) /\ Len(s) \in Nat
      OBVIOUS
    <2>2. Append(s, c)[Len(s) + 1] = c /\ \A i \in 1..Len(s) : Append(s, c)[i] = s[i]
      OBVIOUS
    <2> QED
      BY <2>1, <2>2 DEF ToSet
  <1>2. s # <<>> => ToSet(Tail(s)) \subseteq ToSet(s)
    <2> SUFFICES ASSUME s # <<>>
                 PROVE  ToSet(Tail(s)) \subseteq ToSet(s)
      OBVIOUS
    <2>1. Len(s) \in Nat \ {0} /\ DOMAIN Tail(s) = 1..Len(s) - 1 /\ DOMAIN s = 1..Len(s)
      OBVIOUS
    <2>2. \A i \in 1..Len(s) - 1 : Tail(s)[i] = s[i + 1]
      OBVIOUS
    <2> QED
      BY <2>1, <2>2 DEF ToSet
  <1>3. ToSet(<<>>) = {}
    BY DEF ToSet
  <1> QED
    BY <1>1, <1>2, <1>3

\* The store gains at most the presentation that is prepared.
LEMMA PreparedSet ==
    ASSUME TasteTypeOK, NEW c \in Generations, PreparePresentation(c)
    PROVE  /\ presented' \in Seq(Generations) /\ Len(presented') <= MaxPresentations
           /\ ToSet(presented') \subseteq ToSet(presented) \cup {c}
  <1>1. presented \in Seq(Generations) /\ Len(presented) <= MaxPresentations
    BY DEF TasteTypeOK
  <1>2. CASE Len(presented) = MaxPresentations
    <2>1. presented' = Append(Tail(presented), c) /\ presented # <<>>
      BY <1>1, <1>2 DEF PreparePresentation
    <2>2. Tail(presented) \in Seq(Generations) /\ Len(Tail(presented)) = MaxPresentations - 1
      BY <1>1, <1>2, <2>1
    <2>3. presented' \in Seq(Generations) /\ Len(presented') = MaxPresentations
      BY <2>1, <2>2
    <2>4. ToSet(presented') = ToSet(Tail(presented)) \cup {c}
      BY <2>1, <2>2, ShownSet
    <2>5. ToSet(Tail(presented)) \subseteq ToSet(presented)
      BY <1>1, <2>1, ShownSet
    <2> QED
      BY <2>3, <2>4, <2>5
  <1>3. CASE Len(presented) # MaxPresentations
    <2>1. presented' = Append(presented, c)
      BY <1>3 DEF PreparePresentation
    <2> QED
      BY <1>1, <1>3, <2>1, ShownSet
  <1> QED
    BY <1>2, <1>3

-----------------------------------------------------------------------------
(* Types *)

LEMMA EpochStep == TasteInv /\ [TasteNext]_tasteVars => TasteTypes'
  <1> SUFFICES ASSUME TasteInv, [TasteNext]_tasteVars
               PROVE  TasteTypes'
    OBVIOUS
  <1> USE DEF TasteInv, TasteTypes, TasteTypeOK, Calls, Reach, Projected
  <1>1. ASSUME NEW c \in Calls, RecordFeedback(c) \/ BeginGeneration(c)
        PROVE  TasteTypes'
    BY <1>1 DEF RecordFeedback, BeginGeneration, presentationVars, clearVars, storeVars, operationVars
  <1>2. ASSUME NEW c \in Calls, ReadEpoch(c)
        PROVE  TasteTypes'
    BY <1>2 DEF ReadEpoch, presentationVars, clearVars, storeVars, operationVars
  <1>3. ASSUME NEW c \in Calls, ListExplicit(c)
        PROVE  TasteTypes'
    BY <1>3 DEF ListExplicit, presentationVars, clearVars, storeVars, operationVars
  <1>4. ASSUME NEW c \in Calls, ListExposures(c)
        PROVE  TasteTypes'
    BY <1>4 DEF ListExposures, presentationVars, clearVars, storeVars, operationVars
  <1>5. ASSUME NEW c \in Calls, FailProjection(c)
        PROVE  TasteTypes'
    BY <1>5 DEF FailProjection, WithoutProfile, presentationVars, clearVars, storeVars, operationVars
  <1>6. ASSUME NEW c \in Calls, SaveProfile(c)
        PROVE  TasteTypes'
    <2>1. profiled' \in {profiled, profiled \cup heard[c]}
      BY <1>6 DEF SaveProfile
    <2>2. profiled' \subseteq Calls
      BY <2>1
    <2>3. PICK next \in {"over", "build"} : Projected(c, next) /\ (c \in Feedbacks => next = "over")
      BY <1>6 DEF SaveProfile, WithoutProfile
    <2> QED
      BY <1>6, <2>2, <2>3 DEF SaveProfile, presentationVars, clearVars, operationVars
  <1>7. ASSUME NEW c \in Calls, EndBuild(c)
        PROVE  TasteTypes'
    BY <1>7 DEF EndBuild, presentationVars, clearVars, storeVars, operationVars
  <1>8. ASSUME NEW c \in Calls, PreparePresentation(c)
        PROVE  TasteTypes'
    <2>1. c \in Generations
      BY <1>8 DEF PreparePresentation
    <2>2. presented' \in Seq(Generations) /\ Len(presented') <= MaxPresentations
      BY <1>8, <2>1, PreparedSet
    <2> QED
      BY <1>8, <2>1, <2>2 DEF PreparePresentation, clearVars, storeVars
  <1>9. ASSUME NEW c \in Calls, Acknowledge(c)
        PROVE  TasteTypes'
    BY <1>9 DEF Acknowledge, clearVars, callVars, operationVars, ToSet
  <1>10. CASE AskClear
    BY <1>10 DEF AskClear, storeVars, presentationVars, callVars
  <1>11. CASE DropPresentations
    BY <1>11 DEF DropPresentations, storeVars, callVars, operationVars, ToSet
  <1>12. CASE ClearFeedback
    BY <1>12 DEF ClearFeedback, presentationVars, callVars, operationVars
  <1>13. CASE ClearProfiles
    BY <1>13 DEF ClearProfiles, presentationVars, callVars, operationVars
  <1>14. CASE UNCHANGED tasteVars
    BY <1>14 DEF tasteVars, storeVars, presentationVars, clearVars, callVars, operationVars
  <1> QED
    BY <1>1, <1>2, <1>3, <1>4, <1>5, <1>6, <1>7, <1>8, <1>9, <1>10, <1>11, <1>12, <1>13, <1>14
       DEF TasteNext, CallStep, ClearStep, TasteOver

-----------------------------------------------------------------------------
(* What is recorded once *)

LEMMA TraceStep == TasteInv /\ [TasteNext]_tasteVars => LeavesATraceOnce'
  <1> SUFFICES ASSUME TasteInv, [TasteNext]_tasteVars
               PROVE  LeavesATraceOnce'
    OBVIOUS
  <1> USE DEF TasteInv, TasteTypes, TasteTypeOK, Calls, Reach, Projected
  <1> USE DEF storeVars, presentationVars, clearVars, callVars, operationVars
  <1>1. ASSUME NEW c \in Calls, RecordFeedback(c)
        PROVE  LeavesATraceOnce'
    BY <1>1 DEF RecordFeedback, LeavesATraceOnce
  <1>2. ASSUME NEW c \in Calls, BeginGeneration(c)
        PROVE  LeavesATraceOnce'
    BY <1>2 DEF BeginGeneration, LeavesATraceOnce
  <1>3. ASSUME NEW c \in Calls, ReadEpoch(c)
        PROVE  LeavesATraceOnce'
    BY <1>3 DEF ReadEpoch, LeavesATraceOnce
  <1>4. ASSUME NEW c \in Calls, ListExplicit(c)
        PROVE  LeavesATraceOnce'
    BY <1>4 DEF ListExplicit, LeavesATraceOnce
  <1>5. ASSUME NEW c \in Calls, ListExposures(c)
        PROVE  LeavesATraceOnce'
    BY <1>5 DEF ListExposures, LeavesATraceOnce
  <1>6. ASSUME NEW c \in Calls, FailProjection(c)
        PROVE  LeavesATraceOnce'
    BY <1>6 DEF FailProjection, WithoutProfile, LeavesATraceOnce
  <1>7. ASSUME NEW c \in Calls, SaveProfile(c)
        PROVE  LeavesATraceOnce'
    <2>1. profiled' \subseteq profiled \cup heard[c]
      BY <1>7 DEF SaveProfile
    <2>2. PICK next \in {"over", "build"} : Projected(c, next)
      BY <1>7 DEF SaveProfile, WithoutProfile
    <2>3. stage[c] = "save" /\ UNCHANGED <<events, presented, forgotten>>
      BY <1>7 DEF SaveProfile
    <2> QED
      BY <2>1, <2>2, <2>3 DEF LeavesATraceOnce
  <1>8. ASSUME NEW c \in Calls, EndBuild(c)
        PROVE  LeavesATraceOnce'
    BY <1>8 DEF EndBuild, LeavesATraceOnce
  <1>9. ASSUME NEW c \in Calls, PreparePresentation(c)
        PROVE  LeavesATraceOnce'
    <2>1. c \in Generations
      BY <1>9 DEF PreparePresentation
    <2>2. ToSet(presented') \subseteq ToSet(presented) \cup {c}
      BY <1>9, <2>1, PreparedSet
    <2> QED
      BY <1>9, <2>1, <2>2 DEF PreparePresentation, LeavesATraceOnce
  <1>10. ASSUME NEW c \in Calls, Acknowledge(c)
         PROVE  LeavesATraceOnce'
    <2>1. c \in ToSet(presented) /\ c \in Generations
      BY <1>10 DEF Acknowledge, ToSet
    <2> QED
      BY <1>10, <2>1 DEF Acknowledge, LeavesATraceOnce
  <1>11. CASE AskClear
    BY <1>11 DEF AskClear, LeavesATraceOnce
  <1>12. CASE DropPresentations
    <2>1. ToSet(<<>>) = {}
      BY DEF ToSet
    <2>2. forgotten' \subseteq forgotten \cup ToSet(presented) /\ ToSet(presented') = {}
      BY <1>12, <2>1 DEF DropPresentations
    <2>3. ToSet(presented) \subseteq Generations
      BY DEF ToSet
    <2> QED
      BY <1>12, <2>2, <2>3 DEF DropPresentations, LeavesATraceOnce
  <1>13. CASE ClearFeedback
    <2>1. events' \cup forgotten' = events \cup forgotten
          /\ UNCHANGED <<stage, presented, profiled, heard>>
      BY <1>13 DEF ClearFeedback
    <2> QED
      BY <2>1 DEF LeavesATraceOnce
  <1>14. CASE ClearProfiles
    <2>1. profiled' \subseteq profiled /\ UNCHANGED <<stage, presented, events, forgotten, heard>>
      BY <1>14 DEF ClearProfiles
    <2> QED
      BY <2>1 DEF LeavesATraceOnce
  <1>15. CASE UNCHANGED tasteVars
    BY <1>15 DEF tasteVars, LeavesATraceOnce
  <1> QED
    BY <1>1, <1>2, <1>3, <1>4, <1>5, <1>6, <1>7, <1>8, <1>9, <1>10, <1>11, <1>12, <1>13, <1>14,
       <1>15 DEF TasteNext, CallStep, ClearStep, TasteOver

LEMMA PendingStep == TasteInv /\ [TasteNext]_tasteVars => PendingIsUnheard'
  <1> SUFFICES ASSUME TasteInv, [TasteNext]_tasteVars
               PROVE  PendingIsUnheard'
    OBVIOUS
  <1> USE DEF TasteInv, TasteTypes, TasteTypeOK, Calls, Reach, Projected, Pending
  <1> USE DEF storeVars, presentationVars, clearVars, callVars, operationVars
  <1>0. ToSet(presented) \subseteq Generations
    BY DEF ToSet
  <1>1. ASSUME NEW c \in Calls, RecordFeedback(c)
        PROVE  PendingIsUnheard'
    BY <1>0, <1>1 DEF RecordFeedback, PendingIsUnheard
  <1>2. ASSUME UNCHANGED <<events, presented, acknowledged, forgotten>>,
               profiled' \subseteq profiled,
               \A d \in Calls : heard'[d] \subseteq heard[d] \cup events
        PROVE  PendingIsUnheard'
    BY <1>2 DEF PendingIsUnheard
  <1>3. ASSUME NEW c \in Calls, BeginGeneration(c) \/ ReadEpoch(c) \/ EndBuild(c)
        PROVE  PendingIsUnheard'
    BY <1>2, <1>3 DEF BeginGeneration, ReadEpoch, EndBuild
  <1>4. ASSUME NEW c \in Calls, ListExplicit(c)
        PROVE  PendingIsUnheard'
    BY <1>2, <1>4 DEF ListExplicit
  <1>5. ASSUME NEW c \in Calls, ListExposures(c)
        PROVE  PendingIsUnheard'
    BY <1>2, <1>5 DEF ListExposures
  <1>6. ASSUME NEW c \in Calls, FailProjection(c)
        PROVE  PendingIsUnheard'
    BY <1>2, <1>6 DEF FailProjection, WithoutProfile
  <1>7. ASSUME NEW c \in Calls, SaveProfile(c)
        PROVE  PendingIsUnheard'
    <2>1. profiled' \subseteq profiled \cup heard[c]
      BY <1>7 DEF SaveProfile
    <2>2. \A d \in Calls : heard'[d] \subseteq heard[d]
      BY <1>7 DEF SaveProfile
    <2>3. UNCHANGED <<events, presented, acknowledged, forgotten>>
      BY <1>7 DEF SaveProfile
    <2> QED
      BY <2>1, <2>2, <2>3 DEF PendingIsUnheard
  <1>8. ASSUME NEW c \in Calls, PreparePresentation(c)
        PROVE  PendingIsUnheard'
    <2>1. c \in Generations /\ stage[c] # "shown"
      BY <1>8 DEF PreparePresentation
    <2>2. ToSet(presented') \subseteq ToSet(presented) \cup {c}
      BY <1>8, <2>1, PreparedSet
    <2>3. c \notin forgotten \cup events \cup profiled /\ \A d \in Calls : c \notin heard[d]
      BY <2>1 DEF LeavesATraceOnce
    <2>4. UNCHANGED <<events, profiled, heard, acknowledged, forgotten>>
      BY <1>8 DEF PreparePresentation
    <2> QED
      BY <2>2, <2>3, <2>4 DEF PendingIsUnheard
  <1>9. ASSUME NEW c \in Calls, Acknowledge(c)
        PROVE  PendingIsUnheard'
    BY <1>9 DEF Acknowledge, PendingIsUnheard
  <1>10. CASE AskClear
    BY <1>2, <1>10 DEF AskClear
  <1>11. CASE DropPresentations
    <2>1. ToSet(<<>>) = {}
      BY DEF ToSet
    <2>2. ToSet(presented') = {}
      BY <1>11, <2>1 DEF DropPresentations
    <2> QED
      BY <2>2 DEF PendingIsUnheard
  <1>12. CASE ClearFeedback
    <2>1. presented' = <<>>
      BY <1>12 DEF ClearFeedback, DeletingShutsOut, MuFree
    <2>2. ToSet(presented') = {}
      BY <2>1 DEF ToSet
    <2> QED
      BY <2>2 DEF PendingIsUnheard
  <1>13. CASE ClearProfiles
    <2>1. profiled' \subseteq profiled /\ UNCHANGED <<presented, acknowledged, events, forgotten, heard>>
      BY <1>13 DEF ClearProfiles
    <2> QED
      BY <1>2, <2>1
  <1>14. CASE UNCHANGED tasteVars
    BY <1>2, <1>14 DEF tasteVars
  <1> QED
    BY <1>1, <1>3, <1>4, <1>5, <1>6, <1>7, <1>8, <1>9, <1>10, <1>11, <1>12, <1>13, <1>14
       DEF TasteNext, CallStep, ClearStep, TasteOver

-----------------------------------------------------------------------------
(* What a clear shuts out *)

LEMMA DeletingStep == TasteInv /\ [TasteNext]_tasteVars => DeletingShutsOut'
  <1> SUFFICES ASSUME TasteInv, [TasteNext]_tasteVars
               PROVE  DeletingShutsOut'
    OBVIOUS
  <1> USE DEF TasteInv, TasteTypes, TasteTypeOK, Calls, Reach, Projected, Projecting, MuFree
  <1> USE DEF storeVars, presentationVars, clearVars, callVars, operationVars
  <1>1. ASSUME UNCHANGED <<clearing, presented, tasteEpoch>>,
               \A d \in Calls : Projecting(d)' => Projecting(d) /\ seenEpoch'[d] = seenEpoch[d]
        PROVE  DeletingShutsOut'
    BY <1>1 DEF DeletingShutsOut
  <1>2. ASSUME NEW c \in Calls, RecordFeedback(c) \/ BeginGeneration(c)
        PROVE  DeletingShutsOut'
    BY <1>1, <1>2 DEF RecordFeedback, BeginGeneration
  <1>3. ASSUME NEW c \in Calls, ReadEpoch(c)
        PROVE  DeletingShutsOut'
    BY <1>3 DEF ReadEpoch, DeletingShutsOut
  <1>4. ASSUME NEW c \in Calls, ListExplicit(c) \/ ListExposures(c)
        PROVE  DeletingShutsOut'
    BY <1>1, <1>4 DEF ListExplicit, ListExposures
  <1>5. ASSUME NEW c \in Calls, FailProjection(c)
        PROVE  DeletingShutsOut'
    BY <1>1, <1>5 DEF FailProjection, WithoutProfile
  <1>6. ASSUME NEW c \in Calls, SaveProfile(c) \/ PreparePresentation(c)
        PROVE  DeletingShutsOut'
    BY <1>6 DEF SaveProfile, PreparePresentation, DeletingShutsOut
  <1>7. ASSUME NEW c \in Calls, EndBuild(c)
        PROVE  DeletingShutsOut'
    BY <1>1, <1>7 DEF EndBuild
  <1>8. ASSUME NEW c \in Calls, Acknowledge(c)
        PROVE  DeletingShutsOut'
    BY <1>1, <1>8 DEF Acknowledge
  <1>9. CASE AskClear
    BY <1>9 DEF AskClear, DeletingShutsOut
  <1>10. CASE DropPresentations
    <2>1. presented' = <<>> /\ tasteEpoch' = tasteEpoch + 1 /\ UNCHANGED <<stage, seenEpoch>>
      BY <1>10 DEF DropPresentations
    <2>2. tasteEpoch \in Nat /\ \A d \in Calls : seenEpoch[d] \in Nat /\ seenEpoch[d] <= tasteEpoch
      BY DEF CurrentHearsNoneForgotten
    <2> QED
      BY <2>1, <2>2 DEF DeletingShutsOut
  <1>11. CASE ClearFeedback
    BY <1>11 DEF ClearFeedback, DeletingShutsOut
  <1>12. CASE ClearProfiles
    BY <1>12 DEF ClearProfiles, DeletingShutsOut
  <1>13. CASE UNCHANGED tasteVars
    BY <1>1, <1>13 DEF tasteVars
  <1> QED
    BY <1>2, <1>3, <1>4, <1>5, <1>6, <1>7, <1>8, <1>9, <1>10, <1>11, <1>12, <1>13
       DEF TasteNext, CallStep, ClearStep, TasteOver

LEMMA HearsStep == TasteInv /\ [TasteNext]_tasteVars => CurrentHearsNoneForgotten'
  <1> SUFFICES ASSUME TasteInv, [TasteNext]_tasteVars
               PROVE  CurrentHearsNoneForgotten'
    OBVIOUS
  <1> USE DEF TasteInv, TasteTypes, TasteTypeOK, Calls, Reach, Projected
  <1> USE DEF storeVars, presentationVars, clearVars, callVars, operationVars
  <1>1. ASSUME UNCHANGED <<tasteEpoch, forgotten, seenEpoch, heard>>,
               \A d \in Calls : stage'[d] \in {"exposures", "save"} => stage'[d] = stage[d]
        PROVE  CurrentHearsNoneForgotten'
    BY <1>1 DEF CurrentHearsNoneForgotten
  <1>2. ASSUME NEW c \in Calls, RecordFeedback(c) \/ BeginGeneration(c)
        PROVE  CurrentHearsNoneForgotten'
    BY <1>1, <1>2 DEF RecordFeedback, BeginGeneration
  <1>3. ASSUME NEW c \in Calls, ReadEpoch(c)
        PROVE  CurrentHearsNoneForgotten'
    BY <1>3 DEF ReadEpoch, CurrentHearsNoneForgotten
  <1>4. ASSUME NEW c \in Calls, ListExplicit(c)
        PROVE  CurrentHearsNoneForgotten'
    BY <1>4 DEF ListExplicit, CurrentHearsNoneForgotten, StaysForgotten
  <1>5. ASSUME NEW c \in Calls, ListExposures(c)
        PROVE  CurrentHearsNoneForgotten'
    BY <1>5 DEF ListExposures, CurrentHearsNoneForgotten, StaysForgotten
  <1>6. ASSUME NEW c \in Calls, FailProjection(c)
        PROVE  CurrentHearsNoneForgotten'
    BY <1>6 DEF FailProjection, WithoutProfile, CurrentHearsNoneForgotten
  <1>7. ASSUME NEW c \in Calls, SaveProfile(c)
        PROVE  CurrentHearsNoneForgotten'
    <2>1. PICK next \in {"over", "build"} : Projected(c, next)
      BY <1>7 DEF SaveProfile, WithoutProfile
    <2>2. UNCHANGED <<tasteEpoch, forgotten>>
      BY <1>7 DEF SaveProfile
    <2> QED
      BY <2>1, <2>2 DEF CurrentHearsNoneForgotten
  <1>8. ASSUME NEW c \in Calls, EndBuild(c) \/ PreparePresentation(c)
        PROVE  CurrentHearsNoneForgotten'
    BY <1>1, <1>8 DEF EndBuild, PreparePresentation
  <1>9. ASSUME NEW c \in Calls, Acknowledge(c)
        PROVE  CurrentHearsNoneForgotten'
    BY <1>1, <1>9 DEF Acknowledge
  <1>10. CASE AskClear
    BY <1>1, <1>10 DEF AskClear
  <1>11. CASE DropPresentations
    <2>1. tasteEpoch' = tasteEpoch + 1 /\ UNCHANGED seenEpoch
      BY <1>11 DEF DropPresentations
    <2>2. tasteEpoch \in Nat /\ \A d \in Calls : seenEpoch[d] \in Nat /\ seenEpoch[d] <= tasteEpoch
      BY DEF CurrentHearsNoneForgotten
    <2> QED
      BY <2>1, <2>2 DEF CurrentHearsNoneForgotten
  <1>12. CASE ClearFeedback
    <2>1. UNCHANGED <<tasteEpoch, seenEpoch, stage>>
      BY <1>12 DEF ClearFeedback
    <2>2. \A d \in Calls : stage[d] \in {"exposures", "save"} => seenEpoch[d] # tasteEpoch
      BY <1>12 DEF ClearFeedback, DeletingShutsOut, MuFree, Projecting
    <2> QED
      BY <2>1, <2>2 DEF CurrentHearsNoneForgotten
  <1>13. CASE ClearProfiles
    BY <1>1, <1>13 DEF ClearProfiles
  <1>14. CASE UNCHANGED tasteVars
    BY <1>1, <1>14 DEF tasteVars
  <1> QED
    BY <1>2, <1>3, <1>4, <1>5, <1>6, <1>7, <1>8, <1>9, <1>10, <1>11, <1>12, <1>13, <1>14
       DEF TasteNext, CallStep, ClearStep, TasteOver

LEMMA ForgottenStep == TasteInv /\ [TasteNext]_tasteVars => StaysForgotten'
  <1> SUFFICES ASSUME TasteInv, [TasteNext]_tasteVars
               PROVE  StaysForgotten'
    OBVIOUS
  <1> USE DEF TasteInv, TasteTypes, TasteTypeOK, Calls, Reach, Projected
  <1> USE DEF storeVars, presentationVars, clearVars, callVars, operationVars
  <1>1. ASSUME UNCHANGED <<events, profiled, forgotten, halfCleared>>,
               clearing' = clearing \/ {clearing, clearing'} = {"none", "asked"}
        PROVE  StaysForgotten'
    BY <1>1 DEF StaysForgotten
  <1>2. ASSUME NEW c \in Calls, RecordFeedback(c)
        PROVE  StaysForgotten'
    <2>1. c \notin forgotten
      BY <1>2 DEF RecordFeedback, LeavesATraceOnce
    <2> QED
      BY <1>2, <2>1 DEF RecordFeedback, StaysForgotten
  <1>3. ASSUME NEW c \in Calls, BeginGeneration(c) \/ ReadEpoch(c) \/ ListExplicit(c) \/ ListExposures(c)
        PROVE  StaysForgotten'
    BY <1>1, <1>3 DEF BeginGeneration, ReadEpoch, ListExplicit, ListExposures
  <1>4. ASSUME NEW c \in Calls, FailProjection(c) \/ EndBuild(c) \/ PreparePresentation(c)
        PROVE  StaysForgotten'
    BY <1>1, <1>4 DEF FailProjection, EndBuild, PreparePresentation
  <1>5. ASSUME NEW c \in Calls, SaveProfile(c)
        PROVE  StaysForgotten'
    <2>1. UNCHANGED <<events, forgotten, clearing, halfCleared>>
      BY <1>5 DEF SaveProfile
    <2>2. profiled' = profiled \/ (profiled' = profiled \cup heard[c] /\ heard[c] \cap forgotten = {})
      BY <1>5 DEF SaveProfile, CurrentHearsNoneForgotten
    <2> QED
      BY <2>1, <2>2 DEF StaysForgotten
  <1>6. ASSUME NEW c \in Calls, Acknowledge(c)
        PROVE  StaysForgotten'
    <2>1. c \notin forgotten
      BY <1>6 DEF Acknowledge, PendingIsUnheard
    <2> QED
      BY <1>6, <2>1 DEF Acknowledge, StaysForgotten
  <1>7. CASE AskClear
    BY <1>1, <1>7 DEF AskClear
  <1>8. CASE DropPresentations
    BY <1>8 DEF DropPresentations, StaysForgotten, PendingIsUnheard, Pending
  <1>9. CASE ClearFeedback
    <2>1. clearing' = "profiles" \/ (clearing' = "none" /\ UNCHANGED <<events, forgotten>>)
      BY <1>9 DEF ClearFeedback
    <2>2. events' \cap forgotten' = {}
      BY <1>9 DEF ClearFeedback, StaysForgotten
    <2>3. clearing = "feedback" /\ UNCHANGED <<profiled, halfCleared>>
      BY <1>9 DEF ClearFeedback
    <2> QED
      BY <2>1, <2>2, <2>3 DEF StaysForgotten
  <1>10. CASE ClearProfiles
    <2>1. UNCHANGED <<events, forgotten>>
      BY <1>10 DEF ClearProfiles
    <2>2. profiled' = {} \/ halfCleared'
      BY <1>10 DEF ClearProfiles
    <2> QED
      BY <2>1, <2>2 DEF StaysForgotten
  <1>11. CASE UNCHANGED tasteVars
    BY <1>1, <1>11 DEF tasteVars
  <1> QED
    BY <1>2, <1>3, <1>4, <1>5, <1>6, <1>7, <1>8, <1>9, <1>10, <1>11
       DEF TasteNext, CallStep, ClearStep, TasteOver

-----------------------------------------------------------------------------
(* The theorems *)

LEMMA TasteInvHolds == TasteSpec => []TasteInv
  <1>1. TasteInit => TasteInv
    <2> SUFFICES ASSUME TasteInit
                 PROVE  TasteInv
      OBVIOUS
    <2> USE DEF TasteInit, Calls
    <2>1. TasteTypes
      BY DEF TasteTypes, TasteTypeOK
    <2>2. ToSet(presented) = {}
      BY DEF ToSet
    <2>3. LeavesATraceOnce /\ PendingIsUnheard
      BY <2>2 DEF LeavesATraceOnce, PendingIsUnheard, Pending
    <2>4. DeletingShutsOut /\ CurrentHearsNoneForgotten /\ StaysForgotten
      BY DEF DeletingShutsOut, MuFree, CurrentHearsNoneForgotten, StaysForgotten
    <2> QED
      BY <2>1, <2>3, <2>4 DEF TasteInv
  <1>2. TasteInv /\ [TasteNext]_tasteVars => TasteInv'
    BY EpochStep, TraceStep, PendingStep, DeletingStep, HearsStep, ForgottenStep DEF TasteInv
  <1> QED
    BY <1>1, <1>2, PTL DEF TasteSpec

\* No deleted event and no dropped presentation comes back, neither on record
\* nor in a profile, whichever projections and displays were under way when the
\* user cleared (clearTasteData, persistTasteProfile, acknowledgePresentation).
THEOREM ForgottenForGood == TasteSpec => []StaysForgotten
  <1>1. TasteInv => StaysForgotten
    BY DEF TasteInv
  <1> QED
    BY <1>1, TasteInvHolds, PTL

\* The store of presentations keeps to its bound, and a clear begins one epoch.
THEOREM TasteTyped == TasteSpec => []TasteTypeOK
  <1>1. TasteInv => TasteTypeOK
    BY DEF TasteInv, TasteTypes
  <1> QED
    BY <1>1, TasteInvHolds, PTL

HIDE TasteAssumption

-----------------------------------------------------------------------------
(* What opening, replacing and closing the runtime's resources guarantees,   *)
(* however many calls there are and whatever their roles.                    *)

(* The inductive invariant *)

\* Once the closers are taken nobody has a lease, and in the end none is left.
ClosingIsAlone ==
    /\ shutdown \in {"closing", "done"} => leased = {}
    /\ shutdown = "done" => closers = {} /\ llama = NoActor

\* Who has published a catalog; it is what is used, under a lease.
Published(r) == r \in Actors /\ r \in up /\ role[r] \in {"ensure", "load"} /\ act[r] = "over"
CatalogsArePublished ==
    /\ \A a \in Actors : using[a] # NoActor =>
        /\ a \in leased /\ role[a] = "use" /\ act[a] = "using"
        /\ Published(using[a])
    /\ runtime # NoActor /\ shutdown # "done" => Published(runtime)

\* What is opened, by no model, is up until the closers may have run.
OpenedIsUp ==
    \A a \in Actors :
        act[a] = "opened" => role[a] \in {"ensure", "load", "late"} /\ (Closed \/ a \in up)

\* A server is a model's.
ModelsOnly(x) == x = NoActor \/ (x \in Actors /\ role[x] \in {"set", "device"})
ServersAreModels ==
    /\ ModelsOnly(llama)
    /\ \A a \in Actors : ModelsOnly(replaced[a]) /\ (act[a] = "started" => ModelsOnly(a))

\* Whatever is open will be closed by somebody.
NothingIsLost == \A r \in up : InHand(r) \/ r \in closers \/ r = llama

\* Only what has been begun is settled.
SettledIsBegun == settled <= modelRevision

AppInv ==
    /\ AppTypeOK /\ ClosingIsAlone /\ CatalogsArePublished /\ OpenedIsUp
    /\ ServersAreModels /\ NothingIsLost /\ SettledIsBegun

USE CastsAssumption
USE DEF runVars, loadVars, modelVars, appVars

\* The invariant holds at the start.
LEMMA AppInvInit == AppInit => AppInv
  BY DEF AppInit, AppInv, AppTypeOK, ClosingIsAlone, CatalogsArePublished, ServersAreModels,
         ModelsOnly, OpenedIsUp, NothingIsLost, SettledIsBegun

\* The variables keep their types.
LEMMA AppTypesStep == AppInv /\ [AppNext]_appVars => AppTypeOK'
  <1> SUFFICES ASSUME AppInv, [AppNext]_appVars
               PROVE  AppTypeOK'
    OBVIOUS
  <1> USE DEF AppInv, AppTypeOK, Act, Leave, OperationContext
  <1>1. ASSUME NEW a \in Actors, UseCatalog(a) \/ EndUse(a)
        PROVE  AppTypeOK'
    BY <1>1 DEF UseCatalog, EndUse
  <1>2. ASSUME NEW a \in Actors, AskToLoad(a) \/ BeginLoad(a)
        PROVE  AppTypeOK'
    BY <1>2 DEF AskToLoad, BeginLoad
  <1>3. ASSUME NEW a \in Actors, Fetched(a) \/ OpenCatalog(a)
        PROVE  AppTypeOK'
    BY <1>3 DEF Fetched, OpenCatalog
  <1>4. ASSUME NEW a \in Actors, PublishCatalog(a)
        PROVE  AppTypeOK'
    BY <1>4 DEF PublishCatalog
  <1>5. ASSUME NEW a \in Actors, OpenLate(a) \/ RegisterCloser(a)
        PROVE  AppTypeOK'
    BY <1>5 DEF OpenLate, RegisterCloser
  <1>6. ASSUME NEW a \in Actors, AimAtModel(a)
        PROVE  AppTypeOK'
    BY <1>6 DEF AimAtModel
  <1>7. ASSUME NEW a \in Actors, BeginModelChange(a)
        PROVE  AppTypeOK'
    <2>1. leased' \subseteq Actors /\ stopped' \subseteq Actors
      BY <1>7 DEF BeginModelChange
    <2>2. modelRevision' \in Nat /\ revisionOf' \in [Actors -> Nat]
      BY <1>7 DEF BeginModelChange
    <2> QED
      BY <1>7, <2>1, <2>2 DEF BeginModelChange
  <1>8. ASSUME NEW a \in Actors, StartModel(a) \/ DropServer(a) \/ FinishModelChange(a)
        PROVE  AppTypeOK'
    BY <1>8 DEF StartModel, DropServer, FinishModelChange
  <1>9. ASSUME NEW a \in Actors, CommitModel(a)
        PROVE  AppTypeOK'
    BY <1>9 DEF CommitModel
  <1>10. ASSUME NEW a \in Actors, ClearModel(a)
         PROVE  AppTypeOK'
    <2>1. stopped' \subseteq Actors
      BY <1>10 DEF ClearModel
    <2> QED
      BY <1>10, <2>1 DEF ClearModel
  <1>11. CASE ShutdownStep
    BY <1>11 DEF ShutdownStep, BeginClose, TakeClosers, RunClosers
  <1>12. CASE UNCHANGED appVars
    BY <1>12
  <1> QED
    BY <1>1, <1>2, <1>3, <1>4, <1>5, <1>6, <1>7, <1>8, <1>9, <1>10, <1>11, <1>12
       DEF AppNext, ActorStep, AppOver

\* A closed container gives no leases and publishes nothing.
LEMMA ClosingStep == AppInv /\ [AppNext]_appVars => ClosingIsAlone'
  <1> SUFFICES ASSUME AppInv, [AppNext]_appVars
               PROVE  ClosingIsAlone'
    OBVIOUS
  <1> USE DEF AppInv, AppTypeOK, Act, Leave, OperationContext, Closed
  <1>1. ASSUME shutdown' = shutdown, leased' \subseteq leased \/ ~Closed,
               UNCHANGED <<closers, llama>> \/ ~Closed \/ (UNCHANGED closers /\ llama' = NoActor)
        PROVE  ClosingIsAlone'
    BY <1>1 DEF ClosingIsAlone
  <1>2. ASSUME NEW a \in Actors, UseCatalog(a) \/ EndUse(a) \/ AskToLoad(a) \/ BeginLoad(a)
        PROVE  ClosingIsAlone'
    BY <1>1, <1>2 DEF UseCatalog, EndUse, AskToLoad, BeginLoad
  <1>3. ASSUME NEW a \in Actors, Fetched(a) \/ OpenCatalog(a) \/ PublishCatalog(a)
        PROVE  ClosingIsAlone'
    BY <1>1, <1>3 DEF Fetched, OpenCatalog, PublishCatalog
  <1>4. ASSUME NEW a \in Actors, OpenLate(a) \/ RegisterCloser(a) \/ AimAtModel(a)
        PROVE  ClosingIsAlone'
    BY <1>1, <1>4 DEF OpenLate, RegisterCloser, AimAtModel
  <1>5. ASSUME NEW a \in Actors, BeginModelChange(a) \/ StartModel(a) \/ CommitModel(a)
        PROVE  ClosingIsAlone'
    BY <1>1, <1>5 DEF BeginModelChange, StartModel, CommitModel, StillChosen
  <1>6. ASSUME NEW a \in Actors, ClearModel(a) \/ DropServer(a) \/ FinishModelChange(a)
        PROVE  ClosingIsAlone'
    BY <1>1, <1>6 DEF ClearModel, DropServer, FinishModelChange
  <1>7. CASE ShutdownStep
    BY <1>7 DEF ShutdownStep, BeginClose, TakeClosers, RunClosers, ClosingIsAlone
  <1>8. CASE UNCHANGED appVars
    BY <1>1, <1>8
  <1> QED
    BY <1>2, <1>3, <1>4, <1>5, <1>6, <1>7, <1>8 DEF AppNext, ActorStep, AppOver

\* What is used stays published until the lease is given back.
LEMMA PublishedStep == AppInv /\ [AppNext]_appVars => CatalogsArePublished'
  <1> SUFFICES ASSUME AppInv, [AppNext]_appVars
               PROVE  CatalogsArePublished'
    OBVIOUS
  <1> USE DEF AppInv, AppTypeOK, Act, Leave, OperationContext, Closed
  <1>1. ASSUME UNCHANGED role,
               \A r \in Actors : act[r] \in {"over", "using"} => act'[r] = act[r],
               \A r \in up : r \in up' \/ role[r] \notin {"ensure", "load"} \/ act[r] # "over"
        PROVE  \A r : Published(r) => Published(r)'
    BY <1>1 DEF Published
  <1>2. ASSUME UNCHANGED <<role, shutdown, using, runtime>>,
               \A r : Published(r) => Published(r)',
               \A r \in Actors : act[r] = "using" => act'[r] = "using" /\ (r \in leased => r \in leased')
        PROVE  CatalogsArePublished'
    BY <1>2 DEF CatalogsArePublished
  <1>3. ASSUME NEW a \in Actors, UseCatalog(a)
        PROVE  CatalogsArePublished'
    <2>1. \A r : Published(r) => Published(r)'
      BY <1>3 DEF UseCatalog, Published
    <2>2. CASE a \in stopped' \/ runtime = NoActor
      BY <1>3, <2>1, <2>2 DEF UseCatalog, CatalogsArePublished
    <2>3. CASE a \notin stopped' /\ runtime # NoActor
      <3>1. ~Closed /\ leased' = leased \cup {a}
        BY <1>3, <2>3 DEF UseCatalog
      <3>2. Published(runtime)
        BY <2>3, <3>1 DEF CatalogsArePublished
      <3> QED
        BY <1>3, <2>1, <2>3, <3>1, <3>2 DEF UseCatalog, CatalogsArePublished
    <2> QED
      BY <2>2, <2>3
  <1>4. ASSUME NEW a \in Actors, EndUse(a)
        PROVE  CatalogsArePublished'
    <2>1. \A r : Published(r) => Published(r)'
      BY <1>4 DEF EndUse, Published
    <2> QED
      BY <1>4, <2>1 DEF EndUse, CatalogsArePublished
  <1>5. ASSUME NEW a \in Actors, AskToLoad(a) \/ BeginLoad(a) \/ Fetched(a) \/ OpenCatalog(a)
        PROVE  CatalogsArePublished'
    <2>1. /\ UNCHANGED <<role, shutdown, using, runtime>> /\ up \subseteq up'
          /\ \A r \in Actors : act[r] \in {"over", "using"} => act'[r] = act[r]
          /\ leased \ {a} \subseteq leased' /\ act[a] # "using"
      BY <1>5 DEF AskToLoad, BeginLoad, Fetched, OpenCatalog
    <2> QED
      BY <1>1, <1>2, <2>1
  <1>6. ASSUME NEW a \in Actors, PublishCatalog(a)
        PROVE  CatalogsArePublished'
    <2>1. \A r : Published(r) => Published(r)'
      BY <1>1, <1>6 DEF PublishCatalog
    <2>2. CASE Closed
      BY <1>2, <1>6, <2>1, <2>2 DEF PublishCatalog
    <2>3. CASE ~Closed
      <3>1. \A r \in Actors : act[r] = "using" => act'[r] = "using" /\ (r \in leased => r \in leased')
        BY <1>6 DEF PublishCatalog
      <3>2. UNCHANGED <<role, using, shutdown>> /\ runtime' = a
        BY <1>6, <2>3 DEF PublishCatalog
      <3>3. a \in up /\ up' = up
        <4>1. up' = up
          BY <1>6, <2>3 DEF PublishCatalog
        <4>2. a \in up
          BY <1>6, <2>3 DEF PublishCatalog, OpenedIsUp
        <4> QED
          BY <4>1, <4>2
      <3>4. Published(a)'
        BY <1>6, <3>3 DEF PublishCatalog, Published
      <3> QED
        BY <2>1, <3>1, <3>2, <3>4 DEF CatalogsArePublished
    <2> QED
      BY <2>2, <2>3
  <1>7. ASSUME NEW a \in Actors, OpenLate(a) \/ RegisterCloser(a) \/ AimAtModel(a)
        PROVE  CatalogsArePublished'
    <2>1. /\ UNCHANGED <<role, shutdown, using, runtime, leased>> /\ up \ {a} \subseteq up'
          /\ \A r \in Actors : act[r] \in {"over", "using"} => act'[r] = act[r]
          /\ act[a] # "over"
      BY <1>7 DEF OpenLate, RegisterCloser, AimAtModel
    <2> QED
      BY <1>1, <1>2, <2>1
  <1>8. ASSUME NEW a \in Actors, BeginModelChange(a) \/ StartModel(a) \/ CommitModel(a)
        PROVE  CatalogsArePublished'
    <2>1. /\ UNCHANGED <<role, shutdown, using, runtime>> /\ up \subseteq up' /\ leased \subseteq leased'
          /\ \A r \in Actors : act[r] \in {"over", "using"} => act'[r] = act[r]
      BY <1>8 DEF BeginModelChange, StartModel, CommitModel
    <2> QED
      BY <1>1, <1>2, <2>1
  <1>9. ASSUME NEW a \in Actors, ClearModel(a)
        PROVE  CatalogsArePublished'
    BY <1>1, <1>2, <1>9 DEF ClearModel
  <1>10. ASSUME NEW a \in Actors, DropServer(a)
         PROVE  CatalogsArePublished'
    <2>1. \A r \in up \ up' : role[r] \notin {"ensure", "load"}
      BY <1>10 DEF DropServer, ServersAreModels, ModelsOnly
    <2> QED
      BY <1>1, <1>2, <1>10, <2>1 DEF DropServer
  <1>11. ASSUME NEW a \in Actors, FinishModelChange(a)
         PROVE  CatalogsArePublished'
    BY <1>1, <1>2, <1>11 DEF FinishModelChange
  <1>12. CASE BeginClose \/ TakeClosers
    BY <1>1, <1>12 DEF BeginClose, TakeClosers, CatalogsArePublished
  <1>13. CASE RunClosers
    BY <1>13 DEF RunClosers, CatalogsArePublished, ClosingIsAlone
  <1>14. CASE UNCHANGED appVars
    BY <1>1, <1>2, <1>14
  <1> QED
    BY <1>3, <1>4, <1>5, <1>6, <1>7, <1>8, <1>9, <1>10, <1>11, <1>12, <1>13, <1>14
       DEF AppNext, ActorStep, ShutdownStep, AppOver

\* What a call has just opened nobody else closes.
LEMMA OpenedStep == AppInv /\ [AppNext]_appVars => OpenedIsUp'
  <1> SUFFICES ASSUME AppInv, [AppNext]_appVars
               PROVE  OpenedIsUp'
    OBVIOUS
  <1> USE DEF AppInv, AppTypeOK, Act, Leave, OperationContext, Closed
  <1>1. ASSUME UNCHANGED role, Closed => Closed',
               \A a \in Actors : act'[a] = "opened" =>
                  \/ act[a] = "opened" /\ (a \in up => a \in up')
                  \/ a \in up' /\ role[a] \in {"ensure", "load", "late"}
        PROVE  OpenedIsUp'
    BY <1>1 DEF OpenedIsUp
  <1>2. ASSUME NEW a \in Actors, UseCatalog(a) \/ EndUse(a) \/ AskToLoad(a) \/ BeginLoad(a)
        PROVE  OpenedIsUp'
    BY <1>1, <1>2 DEF UseCatalog, EndUse, AskToLoad, BeginLoad
  <1>3. ASSUME NEW a \in Actors, Fetched(a) \/ OpenCatalog(a) \/ PublishCatalog(a)
        PROVE  OpenedIsUp'
    BY <1>1, <1>3 DEF Fetched, OpenCatalog, PublishCatalog
  <1>4. ASSUME NEW a \in Actors, OpenLate(a) \/ RegisterCloser(a) \/ AimAtModel(a)
        PROVE  OpenedIsUp'
    BY <1>1, <1>4 DEF OpenLate, RegisterCloser, AimAtModel
  <1>5. ASSUME NEW a \in Actors, BeginModelChange(a) \/ StartModel(a) \/ CommitModel(a)
        PROVE  OpenedIsUp'
    BY <1>1, <1>5 DEF BeginModelChange, StartModel, CommitModel
  <1>6. ASSUME NEW a \in Actors, ClearModel(a) \/ FinishModelChange(a)
        PROVE  OpenedIsUp'
    BY <1>1, <1>6 DEF ClearModel, FinishModelChange
  <1>7. ASSUME NEW a \in Actors, DropServer(a)
        PROVE  OpenedIsUp'
    <2>1. \A r \in up \ up' : role[r] \notin {"ensure", "load", "late"}
      BY <1>7 DEF DropServer, ServersAreModels, ModelsOnly
    <2>2. \A r \in Actors : act'[r] = "opened" => act[r] = "opened"
      BY <1>7 DEF DropServer
    <2>3. UNCHANGED <<role, shutdown>>
      BY <1>7 DEF DropServer
    <2> QED
      BY <2>1, <2>2, <2>3 DEF OpenedIsUp
  <1>8. CASE ShutdownStep
    BY <1>8 DEF ShutdownStep, BeginClose, TakeClosers, RunClosers, OpenedIsUp
  <1>9. CASE UNCHANGED appVars
    BY <1>1, <1>9
  <1> QED
    BY <1>2, <1>3, <1>4, <1>5, <1>6, <1>7, <1>8, <1>9 DEF AppNext, ActorStep, AppOver

\* Only models start servers.
LEMMA ServersStep == AppInv /\ [AppNext]_appVars => ServersAreModels'
  <1> SUFFICES ASSUME AppInv, [AppNext]_appVars
               PROVE  ServersAreModels'
    OBVIOUS
  <1> USE DEF AppInv, AppTypeOK, Act, Leave
  <1>1. ASSUME UNCHANGED role
        PROVE  \A x : ModelsOnly(x)' <=> ModelsOnly(x)
    BY <1>1 DEF ModelsOnly
  <1>2. ASSUME UNCHANGED <<role, llama, replaced>>,
               \A a \in Actors : act'[a] = "started" => act[a] = "started"
        PROVE  ServersAreModels'
    BY <1>1, <1>2 DEF ServersAreModels
  <1>3. ASSUME NEW a \in Actors, UseCatalog(a) \/ EndUse(a) \/ AskToLoad(a) \/ BeginLoad(a)
        PROVE  ServersAreModels'
    BY <1>2, <1>3 DEF UseCatalog, EndUse, AskToLoad, BeginLoad
  <1>4. ASSUME NEW a \in Actors, Fetched(a) \/ OpenCatalog(a) \/ PublishCatalog(a)
        PROVE  ServersAreModels'
    BY <1>2, <1>4 DEF Fetched, OpenCatalog, PublishCatalog
  <1>5. ASSUME NEW a \in Actors, OpenLate(a) \/ RegisterCloser(a) \/ AimAtModel(a)
        PROVE  ServersAreModels'
    BY <1>2, <1>5 DEF OpenLate, RegisterCloser, AimAtModel
  <1>6. ASSUME NEW a \in Actors, BeginModelChange(a) \/ FinishModelChange(a)
        PROVE  ServersAreModels'
    BY <1>2, <1>6 DEF BeginModelChange, FinishModelChange
  <1>7. ASSUME NEW a \in Actors, StartModel(a)
        PROVE  ServersAreModels'
    <2>1. ModelsOnly(a)'
      BY <1>7 DEF StartModel, ModelsOnly
    <2>2. \A b \in Actors \ {a} : act'[b] = act[b]
      BY <1>7 DEF StartModel
    <2>3. UNCHANGED <<role, llama, replaced>>
      BY <1>7 DEF StartModel
    <2> QED
      BY <1>1, <2>1, <2>2, <2>3 DEF ServersAreModels
  <1>8. ASSUME NEW a \in Actors, CommitModel(a)
        PROVE  ServersAreModels'
    <2>1. ModelsOnly(a) /\ ModelsOnly(llama)
      BY <1>8 DEF CommitModel, ServersAreModels
    <2>2. llama' \in {llama, a} /\ replaced'[a] \in {llama, a}
      BY <1>8 DEF CommitModel
    <2>3. \A b \in Actors \ {a} : replaced'[b] = replaced[b] /\ act'[b] = act[b]
      BY <1>8 DEF CommitModel
    <2>4. UNCHANGED role /\ act'[a] = "dropping"
      BY <1>8 DEF CommitModel
    <2> QED
      BY <1>1, <2>1, <2>2, <2>3, <2>4 DEF ServersAreModels
  <1>9. ASSUME NEW a \in Actors, ClearModel(a) \/ DropServer(a)
        PROVE  ServersAreModels'
    <2>1. llama' \in {llama, NoActor} /\ replaced'[a] \in {replaced[a], llama, NoActor}
      BY <1>9 DEF ClearModel, DropServer
    <2>2. \A b \in Actors \ {a} : replaced'[b] = replaced[b] /\ act'[b] = act[b]
      BY <1>9 DEF ClearModel, DropServer
    <2>3. UNCHANGED role /\ act'[a] # "started" /\ ModelsOnly(NoActor)
      BY <1>9 DEF ClearModel, DropServer, ModelsOnly
    <2> QED
      BY <1>1, <2>1, <2>2, <2>3 DEF ServersAreModels
  <1>10. CASE ShutdownStep
    <2>1. UNCHANGED <<role, replaced, act>> /\ llama' \in {llama, NoActor} /\ ModelsOnly(NoActor)
      BY <1>10 DEF ShutdownStep, BeginClose, TakeClosers, RunClosers, ModelsOnly
    <2> QED
      BY <1>1, <2>1 DEF ServersAreModels
  <1>11. CASE UNCHANGED appVars
    BY <1>2, <1>11
  <1> QED
    BY <1>3, <1>4, <1>5, <1>6, <1>7, <1>8, <1>9, <1>10, <1>11 DEF AppNext, ActorStep, AppOver

\* What leaves one keeper's hands is in another's.
LEMMA NothingIsLostStep == AppInv /\ [AppNext]_appVars => NothingIsLost'
  <1> SUFFICES ASSUME AppInv, [AppNext]_appVars
               PROVE  NothingIsLost'
    OBVIOUS
  <1> USE DEF AppInv, AppTypeOK, Act, Leave
  <1>1. ASSUME NEW a \in Actors, \A b \in Actors \ {a} : act'[b] = act[b] /\ replaced'[b] = replaced[b],
               NEW r \in Actors \ {a}, InHand(r), act[a] = "dropping" => replaced[a] # r
        PROVE  InHand(r)'
    BY <1>1 DEF InHand
  <1>2. ASSUME UNCHANGED <<act, replaced>>, NEW r
        PROVE  InHand(r)' <=> InHand(r)
    BY <1>2 DEF InHand
  \* One who keeps nothing goes on, and what is closed only grows.
  <1>3. ASSUME NEW a \in Actors, \A b \in Actors \ {a} : act'[b] = act[b] /\ replaced'[b] = replaced[b],
               act[a] \notin {"opened", "started", "dropping"}, up' \subseteq up,
               UNCHANGED <<closers, llama>>
        PROVE  NothingIsLost'
    <2>1. ASSUME NEW r \in up, InHand(r)
          PROVE  InHand(r)'
      BY <1>3, <2>1 DEF InHand
    <2> QED
      BY <1>3, <2>1 DEF NothingIsLost
  <1>4. ASSUME NEW a \in Actors, UseCatalog(a) \/ EndUse(a) \/ AskToLoad(a) \/ BeginLoad(a)
        PROVE  NothingIsLost'
    BY <1>3, <1>4 DEF UseCatalog, EndUse, AskToLoad, BeginLoad
  <1>5. ASSUME NEW a \in Actors, Fetched(a) \/ AimAtModel(a) \/ BeginModelChange(a) \/ FinishModelChange(a)
        PROVE  NothingIsLost'
    BY <1>3, <1>5 DEF Fetched, AimAtModel, BeginModelChange, FinishModelChange
  <1>6. ASSUME NEW a \in Actors, OpenCatalog(a) \/ OpenLate(a) \/ StartModel(a)
        PROVE  NothingIsLost'
    <2>1. CASE up' = up
      BY <1>3, <1>6, <2>1 DEF OpenCatalog, OpenLate, StartModel
    <2>2. CASE up' = up \cup {a} /\ act'[a] \in {"opened", "started"}
      <3>1. InHand(a)'
        BY <2>2 DEF InHand
      <3>2. /\ \A b \in Actors \ {a} : act'[b] = act[b]
            /\ act[a] # "dropping" /\ UNCHANGED <<replaced, closers, llama>>
        BY <1>6 DEF OpenCatalog, OpenLate, StartModel
      <3>3. ASSUME NEW r \in up \ {a}, InHand(r)
            PROVE  InHand(r)'
        BY <1>1, <3>2, <3>3
      <3> QED
        BY <2>2, <3>1, <3>2, <3>3 DEF NothingIsLost
    <2> QED
      BY <1>6, <2>1, <2>2 DEF OpenCatalog, OpenLate, StartModel
  <1>7. ASSUME NEW a \in Actors, PublishCatalog(a) \/ RegisterCloser(a)
        PROVE  NothingIsLost'
    <2>1. (up' = up \ {a} /\ closers' = closers) \/ (up' = up /\ closers' = closers \cup {a})
      BY <1>7 DEF PublishCatalog, RegisterCloser
    <2>2. /\ \A b \in Actors \ {a} : act'[b] = act[b]
          /\ act[a] # "dropping" /\ UNCHANGED <<replaced, llama>>
      BY <1>7 DEF PublishCatalog, RegisterCloser
    <2>3. ASSUME NEW r \in up \ {a}, InHand(r)
          PROVE  InHand(r)'
      BY <1>1, <2>2, <2>3
    <2> QED
      BY <2>1, <2>2, <2>3 DEF NothingIsLost
  <1>8. ASSUME NEW a \in Actors, CommitModel(a)
        PROVE  NothingIsLost'
    <2>1. /\ \A b \in Actors \ {a} : act'[b] = act[b] /\ replaced'[b] = replaced[b]
          /\ act[a] = "started" /\ act'[a] = "dropping" /\ UNCHANGED <<up, closers>>
          /\ (llama' = a /\ replaced'[a] = llama) \/ (llama' = llama /\ replaced'[a] = a)
      BY <1>8 DEF CommitModel
    <2>2. ASSUME NEW r \in up \ {a}, InHand(r)
          PROVE  InHand(r)'
      BY <1>1, <2>1, <2>2
    <2>3. ASSUME NEW r, r = replaced'[a]
          PROVE  InHand(r)'
      BY <2>1, <2>3 DEF InHand
    <2> QED
      BY <2>1, <2>2, <2>3 DEF NothingIsLost
  <1>9. ASSUME NEW a \in Actors, ClearModel(a)
        PROVE  NothingIsLost'
    <2>1. CASE UNCHANGED <<llama, replaced>>
      BY <1>3, <1>9, <2>1 DEF ClearModel
    <2>2. CASE /\ llama' = NoActor /\ replaced' = [replaced EXCEPT ![a] = llama]
               /\ Act(a, "dropping")
      <3>1. ASSUME NEW r, r = llama
            PROVE  InHand(r)'
        BY <2>2, <3>1 DEF InHand
      <3>2. /\ \A b \in Actors \ {a} : act'[b] = act[b] /\ replaced'[b] = replaced[b]
            /\ act[a] = "idle" /\ UNCHANGED <<up, closers>>
        BY <1>9, <2>2 DEF ClearModel
      <3>3. ASSUME NEW r \in up, InHand(r)
            PROVE  InHand(r)'
        <4>1. r # a \/ \E b \in Actors \ {a} : act[b] = "dropping" /\ replaced[b] = r
          BY <3>2, <3>3 DEF InHand
        <4>2. CASE r # a
          BY <1>1, <3>2, <3>3, <4>2
        <4>3. CASE \E b \in Actors \ {a} : act[b] = "dropping" /\ replaced[b] = r
          BY <3>2, <4>3 DEF InHand
        <4> QED
          BY <4>1, <4>2, <4>3
      <3> QED
        BY <3>1, <3>2, <3>3 DEF NothingIsLost
    <2> QED
      BY <1>9, <2>1, <2>2 DEF ClearModel
  <1>10. ASSUME NEW a \in Actors, DropServer(a)
         PROVE  NothingIsLost'
    <2>1. /\ \A b \in Actors \ {a} : act'[b] = act[b] /\ replaced'[b] = replaced[b]
          /\ act[a] = "dropping" /\ up' = up \ {replaced[a]} /\ UNCHANGED <<closers, llama>>
      BY <1>10 DEF DropServer
    <2>2. ASSUME NEW r \in up', InHand(r)
          PROVE  InHand(r)'
      BY <2>1, <2>2 DEF InHand
    <2> QED
      BY <2>1, <2>2 DEF NothingIsLost
  <1>11. CASE BeginClose \/ TakeClosers
    BY <1>2, <1>11 DEF BeginClose, TakeClosers, NothingIsLost
  <1>12. CASE RunClosers
    BY <1>2, <1>12 DEF RunClosers, NothingIsLost
  <1>13. CASE UNCHANGED appVars
    BY <1>2, <1>13 DEF NothingIsLost
  <1> QED
    BY <1>4, <1>5, <1>6, <1>7, <1>8, <1>9, <1>10, <1>11, <1>12, <1>13
       DEF AppNext, ActorStep, ShutdownStep, AppOver

\* A change is settled at the latest revision, and revisions only grow.
LEMMA SettledStep ==
    AppInv /\ [AppNext]_appVars => SettledIsBegun' /\ settled' >= settled
  <1> SUFFICES ASSUME AppInv, [AppNext]_appVars
               PROVE  SettledIsBegun' /\ settled' >= settled
    OBVIOUS
  <1> USE DEF AppInv, AppTypeOK, SettledIsBegun
  <1>1. ASSUME NEW a \in Actors, UseCatalog(a) \/ EndUse(a) \/ AskToLoad(a) \/ BeginLoad(a)
        PROVE  UNCHANGED <<settled, modelRevision>>
    BY <1>1 DEF UseCatalog, EndUse, AskToLoad, BeginLoad
  <1>2. ASSUME NEW a \in Actors, Fetched(a) \/ OpenCatalog(a) \/ PublishCatalog(a)
        PROVE  UNCHANGED <<settled, modelRevision>>
    BY <1>2 DEF Fetched, OpenCatalog, PublishCatalog
  <1>3. ASSUME NEW a \in Actors, OpenLate(a) \/ RegisterCloser(a) \/ AimAtModel(a) \/ StartModel(a)
        PROVE  UNCHANGED <<settled, modelRevision>>
    BY <1>3 DEF OpenLate, RegisterCloser, AimAtModel, StartModel
  <1>4. ASSUME NEW a \in Actors, DropServer(a) \/ FinishModelChange(a)
        PROVE  UNCHANGED <<settled, modelRevision>>
    BY <1>4 DEF DropServer, FinishModelChange
  <1>5. CASE ShutdownStep \/ UNCHANGED appVars
    BY <1>5 DEF ShutdownStep, BeginClose, TakeClosers, RunClosers
  <1>6. ASSUME NEW a \in Actors, BeginModelChange(a) \/ CommitModel(a) \/ ClearModel(a)
        PROVE  SettledIsBegun' /\ settled' >= settled
    <2>1. \/ settled' = settled /\ modelRevision' \in {modelRevision, modelRevision + 1}
          \/ settled' = modelRevision' /\ modelRevision' \in {modelRevision, modelRevision + 1}
      BY <1>6 DEF BeginModelChange, CommitModel, StillChosen, ClearModel
    <2> QED
      BY <2>1
  <1> QED
    BY <1>1, <1>2, <1>3, <1>4, <1>5, <1>6 DEF AppNext, ActorStep, AppOver

\* The invariant holds throughout.
LEMMA AppInvHolds == AppSpec => []AppInv
  <1>1. AppInv /\ [AppNext]_appVars => AppInv'
    BY AppTypesStep, ClosingStep, PublishedStep, OpenedStep, ServersStep, NothingIsLostStep,
       SettledStep DEF AppInv
  <1> QED
    BY AppInvInit, <1>1, PTL DEF AppSpec

\* UsedIsOpen: Close waits for the leases, and gives none once it has begun.
THEOREM UsedStaysOpen == AppSpec => []UsedIsOpen
  <1>1. AppInv => UsedIsOpen
    BY DEF AppInv, CatalogsArePublished, Published, UsedIsOpen
  <1> QED
    BY AppInvHolds, <1>1, PTL

\* NothingLeftOpen: what is open has a keeper who will close it, and after Close
\* only a call that is on its way is one.
THEOREM NothingStaysOpen == AppSpec => []NothingLeftOpen
  <1>1. AppInv => NothingLeftOpen
    BY DEF AppInv, AppTypeOK, ClosingIsAlone, NothingIsLost, NothingLeftOpen
  <1> QED
    BY AppInvHolds, <1>1, PTL

\* NeverUndone: a model is published only while its revision is the latest.
THEOREM ChoicesStand == AppSpec => NeverUndone
  <1>1. AppInv /\ [AppNext]_appVars => [settled' >= settled]_appVars
    BY SettledStep
  <1> QED
    BY AppInvHolds, <1>1, PTL DEF AppSpec, NeverUndone

HIDE CastsAssumption

-----------------------------------------------------------------------------
(* All components *)

\* Every behaviour of all is one of each component: it starts as the component
\* does, and leaves it alone where it is another's.
LEMMA EachRuns ==
    MCSpec => /\ AudioSpec /\ CatalogSpec /\ PackSpec /\ QuerySpec /\ TasteSpec
              /\ AppSpec /\ UpdaterSpec
  <1>1. MCInit => /\ AudioInit /\ CatalogInit /\ PackInit /\ QueryInit /\ TasteInit
                  /\ AppInit /\ UpdaterInit
    BY DEF MCInit
  <1>2. [MCNext]_desktopVars =>
          /\ [AudioNext]_audioVars /\ [CatalogNext]_catalogVars /\ [PackNext]_packVars
          /\ [QueryNext]_queryVars /\ [TasteNext]_tasteVars /\ [AppNext]_appVars
          /\ [UpdaterNext]_updateVars
    BY DEF MCNext, desktopVars
  <1> QED
    BY <1>1, <1>2, PTL
       DEF MCSpec, AudioSpec, CatalogSpec, PackSpec, QuerySpec, TasteSpec, AppSpec, UpdaterSpec

\* The stages of a query and of its channels, which go on one by one and are put
\* back together.
LEMMA QueryTyped == QuerySpec => []QueryTypeOK
  <1>1. QueryInit => QueryTypeOK
    BY CapacityAssumption DEF QueryInit, QueryTypeOK, Quiet
  <1>2. ASSUME QueryTypeOK, [QueryNext]_queryVars
        PROVE  QueryTypeOK'
    <2> USE <1>2 DEF QueryTypeOK
    <2>1. ASSUME NEW c \in Catalogs, Submit(c) \/ Admit(c) \/ LeaveRequests(c)
          PROVE  QueryTypeOK'
      BY <2>1 DEF Submit, Admit, LeaveRequests, Query
    <2>2. ASSUME NEW c \in Catalogs, PinGeneration(c) \/ MergeChannels(c)
          PROVE  QueryTypeOK'
      <3> DEFINE Reports == [Channels -> {"none", "queued", "slotted", "reading", "over"}]
      <3>1. PICK s \in {"running", "over"} : query' = [query EXCEPT ![c] = s]
        BY <2>2 DEF PinGeneration, MergeChannels, Query
      <3>2. channel' = channel \/ \E r \in Reports : channel' = [channel EXCEPT ![c] = r]
        <4>1. Quiet \in Reports /\ [k \in Channels |-> "queued"] \in Reports
          BY DEF Quiet
        <4> QED
          BY <2>2, <4>1 DEF PinGeneration, MergeChannels
      <3>3. UNCHANGED <<pin, hits, gaveUp>>
        BY <2>2 DEF PinGeneration, MergeChannels
      <3> QED
        BY <3>1, <3>2, <3>3
    <2>3. ASSUME NEW c \in Catalogs, GiveUp(c) \/ AskToClose(c) \/ CloseStep(c)
          PROVE  QueryTypeOK'
      BY <2>3 DEF GiveUp, AskToClose, CloseStep, ShutCatalog, ReleasePin
    <2>4. ASSUME NEW c \in Catalogs, NEW k \in Channels, ChannelStep(c, k)
          PROVE  QueryTypeOK'
      <3>1. PICK s \in {"none", "queued", "slotted", "reading", "over"} :
              channel' = [channel EXCEPT ![c] = [channel[c] EXCEPT ![k] = s]]
        BY <2>4 DEF ChannelStep, TakeChannelSlot, LeaveChannel, ReadChannel, LookUpNext,
                    EndChannel, Channel
      <3>2. UNCHANGED <<pin, query, gaveUp>>
        BY <2>4 DEF ChannelStep, TakeChannelSlot, LeaveChannel, ReadChannel, LookUpNext, EndChannel
      <3>3. hits' \in [Catalogs -> 0..MaxHits]
        <4>1. CASE UNCHANGED hits
          BY <4>1
        <4>2. CASE LookUpNext(c)
          BY <4>2, CapacityAssumption DEF LookUpNext
        <4> QED
          BY <2>4, <4>1, <4>2
             DEF ChannelStep, TakeChannelSlot, LeaveChannel, ReadChannel, EndChannel
      <3> QED
        BY <3>1, <3>2, <3>3
    <2>5. CASE UNCHANGED queryVars
      BY <2>5 DEF queryVars
    <2> QED
      BY <2>1, <2>2, <2>3, <2>4, <2>5 DEF QueryNext, RequestStep, Elsewhere
  <1> QED
    BY <1>1, <1>2, PTL DEF QuerySpec

\* Types: each component keeps to its own, whatever of it is done, and in
\* whatever order.
THEOREM DesktopTyped == MCSpec => []TypeOK
  <1>1. AudioInv => AudioTypeOK
    BY DEF AudioInv
  <1>2. CatalogInv => CatalogTypeOK
    BY DEF CatalogInv
  <1>3. PackInv => PackTypeOK
    BY DEF PackInv, PackTypes
  <1>4. TasteInv => TasteTypeOK
    BY DEF TasteInv, TasteTypes
  <1>5. AppInv => AppTypeOK
    BY DEF AppInv
  <1>6. UpdaterInv => UpdaterTypeOK
    BY DEF UpdaterInv, UpdaterTypes
  <1>7. ( /\ AudioTypeOK /\ CatalogTypeOK /\ PackTypeOK
          /\ QueryTypeOK /\ TasteTypeOK /\ AppTypeOK /\ UpdaterTypeOK ) => TypeOK
    BY DEF TypeOK
  <1> QED
    BY <1>1, <1>2, <1>3, <1>4, <1>5, <1>6, <1>7, EachRuns, AudioInvHolds, CatalogInvHolds,
       PackInvHolds, QueryTyped, TasteInvHolds, AppInvHolds, UpdaterInvHolds, PTL

=============================================================================
