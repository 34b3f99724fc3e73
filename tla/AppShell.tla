------------------------------ MODULE AppShell ------------------------------
(***************************************************************************)
(* app.Container: operations lease the runtime, Close cancels them, waits  *)
(* for them, and closes what they used; the catalog is loaded and the      *)
(* language model replaced meanwhile (internal/app).                       *)
(*                                                                         *)
(* Each actor makes one call, by its role:                                 *)
(*   "use"     a recommendation: it leases the runtime and uses the catalog *)
(*   "ensure"  EnsureCatalog        "load"  LoadCatalog, without a lease    *)
(*   "late"    a component that opens a resource and registers its closer   *)
(*   "set"     SetModel or DownloadModel      "clear"  ClearModel           *)
(*   "device"  SetModelDevice                                               *)
(* What an actor opens goes by its name.  Every action between two locks    *)
(* of the code is one here.                                                *)
(***************************************************************************)
EXTENDS Integers, FiniteSets

CONSTANTS
    Actors, NoActor,
    Casts        \* the roles the actors may have

Roles == {"use", "ensure", "load", "late", "set", "clear", "device"}

ASSUME CastsAssumption ==
    /\ Casts \subseteq [Actors -> Roles]
    /\ NoActor \notin Actors

VARIABLES
    role,
    shutdown,     \* "open", "waiting" (work.Wait), "closing", "done"
    leased,       \* who is counted in `work'
    stopped,      \* whose context has ended
    act,          \* where each actor is
    up,           \* whose catalog, resource or llama-server is up
    using,        \* of each actor, the owner of the catalog it uses, or NoActor
    loadMu,       \* who holds catalogLoadMu, or NoActor
    runtime,      \* the owner of the published catalog, or NoActor
    closers,      \* the owners whose closers are registered
    llama,        \* the owner of the published model, or NoActor
    replaced,     \* of each actor, the server it is about to close, or NoActor
    modelRevision,
    revisionOf,   \* of each model change, the revision it got
    modelCancel,  \* whose context the next change cancels, or NoActor
    settled       \* history: the revision of the last model change that held

runVars == <<shutdown, leased, stopped>>
loadVars == <<using, loadMu, runtime, closers>>
modelVars == <<llama, replaced, modelRevision, revisionOf, modelCancel, settled>>
appVars == <<role, runVars, act, up, loadVars, modelVars>>

AppInit ==
    /\ role \in Casts
    /\ shutdown = "open" /\ leased = {} /\ stopped = {}
    /\ act = [a \in Actors |-> "idle"]
    /\ up = {}
    /\ using = [a \in Actors |-> NoActor]
    /\ loadMu = NoActor /\ runtime = NoActor /\ closers = {}
    /\ llama = NoActor
    /\ replaced = [a \in Actors |-> NoActor]
    /\ modelRevision = 0 /\ revisionOf = [a \in Actors |-> 0]
    /\ modelCancel = NoActor
    /\ settled = 0

AppTypeOK ==
    /\ role \in Casts
    /\ shutdown \in {"open", "waiting", "closing", "done"}
    /\ leased \subseteq Actors /\ stopped \subseteq Actors /\ up \subseteq Actors
    /\ closers \subseteq Actors
    /\ act \in [Actors -> {"idle", "using", "queued", "fetching", "opened", "aimed",
                           "starting", "started", "dropping", "leaving", "over"}]
    /\ {loadMu, runtime, llama, modelCancel} \subseteq Actors \cup {NoActor}
    /\ using \in [Actors -> Actors \cup {NoActor}]
    /\ replaced \in [Actors -> Actors \cup {NoActor}]
    /\ modelRevision \in Nat /\ settled \in Nat
    /\ revisionOf \in [Actors -> Nat]

-----------------------------------------------------------------------------
\* Leases.

Closed == shutdown # "open"
Act(a, place) == act' = [act EXCEPT ![a] = place]

\* Mutant of OperationContext: a closed container still hands out its runtime.
OperationContextAlways(a) ==
    /\ leased' = leased \cup {a}
    /\ UNCHANGED stopped

\* The lease is counted, or the context has ended from the start.
OperationContext(a) ==
    IF Closed THEN stopped' = stopped \cup {a} /\ UNCHANGED leased
              ELSE leased' = leased \cup {a} /\ UNCHANGED stopped

\* The deferred release, whatever the end of the call.
Leave(a) ==
    /\ leased' = leased \ {a}
    /\ Act(a, "over")

-----------------------------------------------------------------------------
\* A recommendation.

UseCatalog(a) ==
    /\ role[a] = "use" /\ act[a] = "idle"
    /\ OperationContext(a)
    /\ IF a \in stopped' \/ runtime = NoActor
       THEN Act(a, "leaving") /\ UNCHANGED using
       ELSE Act(a, "using") /\ using' = [using EXCEPT ![a] = runtime]
    /\ UNCHANGED <<role, shutdown, up, loadMu, runtime, closers, modelVars>>

\* It ends by itself or at its context's end.
EndUse(a) ==
    /\ role[a] = "use" /\ act[a] \in {"using", "leaving"}
    /\ using' = [using EXCEPT ![a] = NoActor]
    /\ Leave(a)
    /\ UNCHANGED <<role, shutdown, stopped, up, loadMu, runtime, closers, modelVars>>

-----------------------------------------------------------------------------
\* The catalog, under catalogLoadMu.

AskToLoad(a) ==
    /\ role[a] \in {"ensure", "load"} /\ act[a] = "idle"
    /\ IF role[a] = "ensure" THEN OperationContext(a) ELSE UNCHANGED <<leased, stopped>>
    /\ Act(a, "queued")
    /\ UNCHANGED <<role, shutdown, up, loadVars, modelVars>>

\* With the lock: the context's end, a closed container or a loaded catalog end
\* the call; EnsureCatalog may have to fetch the files first.
BeginLoad(a) ==
    /\ act[a] = "queued" /\ loadMu = NoActor
    /\ IF a \in stopped \/ Closed \/ runtime # NoActor
       THEN Leave(a) /\ UNCHANGED loadMu
       ELSE /\ loadMu' = a
            /\ Act(a, IF role[a] = "ensure" THEN "fetching" ELSE "starting")
            /\ UNCHANGED leased
    /\ UNCHANGED <<role, shutdown, stopped, up, using, runtime, closers, modelVars>>

\* The files are there, or they cannot be had.
Fetched(a) ==
    /\ act[a] = "fetching"
    /\ \/ a \notin stopped /\ Act(a, "starting") /\ UNCHANGED <<leased, loadMu>>
       \/ Leave(a) /\ loadMu' = NoActor
    /\ UNCHANGED <<role, shutdown, stopped, up, using, runtime, closers, modelVars>>

\* loadCatalog looks at `closed' again, and opens catalog, overlay and sidecar.
OpenCatalog(a) ==
    /\ role[a] \in {"ensure", "load"} /\ act[a] = "starting"
    /\ \/ ~Closed /\ up' = up \cup {a} /\ Act(a, "opened") /\ UNCHANGED <<leased, loadMu>>
       \/ Leave(a) /\ loadMu' = NoActor /\ UNCHANGED up
    /\ UNCHANGED <<role, shutdown, stopped, using, runtime, closers, modelVars>>

\* It is published with its closers, or closed again if the container was.
PublishCatalog(a) ==
    /\ role[a] \in {"ensure", "load"} /\ act[a] = "opened"
    /\ IF Closed
       THEN up' = up \ {a} /\ UNCHANGED <<runtime, closers>>
       ELSE runtime' = a /\ closers' = closers \cup {a} /\ UNCHANGED up
    /\ loadMu' = NoActor
    /\ Leave(a)
    /\ UNCHANGED <<role, shutdown, stopped, using, modelVars>>

\* A component is made on first use (discoveryManager): it looks at `closed' ...
OpenLate(a) ==
    /\ role[a] = "late" /\ act[a] = "idle" /\ ~Closed
    /\ up' = up \cup {a}
    /\ Act(a, "opened")
    /\ UNCHANGED <<role, runVars, loadVars, modelVars>>

\* Mutant of RegisterCloser: a closer that comes too late is only kept.
RegisterCloserLate(a) ==
    /\ role[a] = "late" /\ act[a] = "opened"
    /\ closers' = closers \cup {a}
    /\ Act(a, "over")
    /\ UNCHANGED <<role, runVars, up, using, loadMu, runtime, modelVars>>

\* ... and RegisterCloser runs the closer at once if Close came in between.
RegisterCloser(a) ==
    /\ role[a] = "late" /\ act[a] = "opened"
    /\ IF Closed THEN up' = up \ {a} /\ UNCHANGED closers
                 ELSE closers' = closers \cup {a} /\ UNCHANGED up
    /\ Act(a, "over")
    /\ UNCHANGED <<role, runVars, using, loadMu, runtime, modelVars>>

-----------------------------------------------------------------------------
\* The language model.

\* SetModelDevice reads the active model before it begins, or the configured one
\* if another change is under way; without one it only records the choice.
AimAtModel(a) ==
    /\ role[a] = "device" /\ act[a] = "idle"
    /\ \/ (llama # NoActor \/ modelCancel # NoActor) /\ Act(a, "aimed")
       \/ llama = NoActor /\ Act(a, "over")
    /\ UNCHANGED <<role, runVars, up, loadVars, modelVars>>

\* beginModelChange: the previous change is canceled.
BeginModelChange(a) ==
    /\ \/ role[a] = "set" /\ act[a] = "idle"
       \/ act[a] = "aimed"
    /\ LET before == {modelCancel} \ {NoActor}
       IN IF Closed THEN stopped' = stopped \cup before \cup {a} /\ UNCHANGED leased
                    ELSE stopped' = stopped \cup before /\ leased' = leased \cup {a}
    /\ modelRevision' = modelRevision + 1
    /\ revisionOf' = [revisionOf EXCEPT ![a] = modelRevision + 1]
    /\ modelCancel' = a
    /\ Act(a, "starting")
    /\ UNCHANGED <<role, shutdown, up, loadVars, llama, replaced, settled>>

\* startModel: the server becomes healthy, or it fails or is canceled and is
\* stopped again.
StartModel(a) ==
    /\ role[a] \in {"set", "device"} /\ act[a] = "starting"
    /\ \/ a \notin stopped /\ up' = up \cup {a} /\ Act(a, "started")
       \/ Act(a, "leaving") /\ UNCHANGED up
    /\ UNCHANGED <<role, runVars, loadVars, modelVars>>

\* Mutant of StillChosen: whatever was chosen since, the started model is taken.
StillChosenUnlessClosed(a) == ~Closed

StillChosen(a) == a \notin stopped /\ ~Closed /\ modelRevision = revisionOf[a]

\* commitModel, and SetModelDevice's own: the model is published with the
\* preferences, or the started server is to be closed.
CommitModel(a) ==
    /\ act[a] = "started"
    /\ \/ /\ StillChosen(a)
          /\ llama' = a
          /\ replaced' = [replaced EXCEPT ![a] = llama]
          /\ settled' = revisionOf[a]
       \/ \* not chosen any more, or the preferences cannot be saved
          /\ replaced' = [replaced EXCEPT ![a] = a]
          /\ UNCHANGED <<llama, settled>>
    /\ Act(a, "dropping")
    /\ UNCHANGED <<role, runVars, up, loadVars, modelRevision, revisionOf, modelCancel>>

\* ClearModel, under mu.
ClearModel(a) ==
    /\ role[a] = "clear" /\ act[a] = "idle"
    /\ \/ /\ ~Closed
          /\ modelRevision' = modelRevision + 1
          /\ stopped' = stopped \cup ({modelCancel} \ {NoActor})
          /\ modelCancel' = NoActor
          /\ llama' = NoActor
          /\ replaced' = [replaced EXCEPT ![a] = llama]
          /\ settled' = modelRevision + 1
          /\ Act(a, "dropping")
       \/ \* closed, or the preferences cannot be saved
          /\ Act(a, "over")
          /\ UNCHANGED <<stopped, modelRevision, modelCancel, llama, replaced, settled>>
    /\ UNCHANGED <<role, shutdown, leased, up, loadVars, revisionOf>>

\* The server that lost its place is closed, without the lock.
DropServer(a) ==
    /\ act[a] = "dropping"
    /\ up' = up \ {replaced[a]}
    /\ replaced' = [replaced EXCEPT ![a] = NoActor]
    /\ Act(a, IF role[a] = "clear" THEN "over" ELSE "leaving")
    /\ UNCHANGED <<role, runVars, loadVars, llama, modelRevision, revisionOf, modelCancel, settled>>

\* finish of beginModelChange.
FinishModelChange(a) ==
    /\ role[a] \in {"set", "device"} /\ act[a] = "leaving"
    /\ modelCancel' = IF modelRevision = revisionOf[a] THEN NoActor ELSE modelCancel
    /\ Leave(a)
    /\ UNCHANGED <<role, shutdown, stopped, up, loadVars, llama, replaced, modelRevision,
                   revisionOf, settled>>

-----------------------------------------------------------------------------
\* Container.Close.

BeginClose ==
    /\ shutdown = "open"
    /\ shutdown' = "waiting"
    /\ stopped' = stopped \cup leased \cup ({modelCancel} \ {NoActor})
    /\ UNCHANGED <<role, leased, act, up, loadVars, modelVars>>

\* work.Wait and catalogLoadMu; the closers and the model are taken.
TakeClosers ==
    /\ shutdown = "waiting" /\ leased = {} /\ loadMu = NoActor
    /\ shutdown' = "closing"
    /\ UNCHANGED <<role, leased, stopped, act, up, loadVars, modelVars>>

\* The model is stopped, then the closers run.
RunClosers ==
    /\ shutdown = "closing"
    /\ shutdown' = "done"
    /\ up' = up \ (closers \cup {llama})
    /\ closers' = {} /\ llama' = NoActor
    /\ UNCHANGED <<role, leased, stopped, act, using, loadMu, runtime, replaced, modelRevision,
                   revisionOf, modelCancel, settled>>

-----------------------------------------------------------------------------

ActorStep(a) ==
    \/ UseCatalog(a) \/ EndUse(a)
    \/ AskToLoad(a) \/ BeginLoad(a) \/ Fetched(a) \/ OpenCatalog(a) \/ PublishCatalog(a)
    \/ OpenLate(a) \/ RegisterCloser(a)
    \/ AimAtModel(a) \/ BeginModelChange(a) \/ StartModel(a) \/ CommitModel(a)
    \/ ClearModel(a) \/ DropServer(a) \/ FinishModelChange(a)

ShutdownStep == BeginClose \/ TakeClosers \/ RunClosers

\* Close has returned.
AppOver == shutdown = "done" /\ UNCHANGED appVars

AppNext == (\E a \in Actors : ActorStep(a)) \/ ShutdownStep \/ AppOver

AppSpec == AppInit /\ [][AppNext]_appVars

-----------------------------------------------------------------------------

\* What an operation uses is open until it gives its lease back, and nobody
\* gets a lease on what is being closed (lifecycle.go:8-32, app.go:504-548).
UsedIsOpen == \A a \in Actors : using[a] # NoActor => using[a] \in up

\* After Close nothing stays open but in the hands of a call that is about to
\* close it: whatever was being loaded, registered or started when Close began,
\* and however its call was canceled (catalog.go:153-160, app.go:488-497,
\* model.go:339-344, :431-452).
InHand(r) ==
    \/ act[r] \in {"opened", "started"}
    \/ \E a \in Actors : act[a] = "dropping" /\ replaced[a] = r
NothingLeftOpen == shutdown = "done" => \A r \in up : InHand(r)

\* A model that is slow to start never undoes a later choice (model.go:428-430).
NeverUndone == [][settled' >= settled]_appVars
=============================================================================
