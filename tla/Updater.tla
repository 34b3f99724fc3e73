------------------------------- MODULE Updater -------------------------------
(***************************************************************************)
(* Replacing the application (internal/updater).  A session stages a       *)
(* release beside the application and starts a helper; the helper is       *)
(* ready, the session approves and quits; the helper waits for its end,    *)
(* moves the old application into its staging directory, the new one into  *)
(* place, and opens it, or undoes that.  A later session reads the         *)
(* outcomes and sweeps what is over.                                       *)
(*                                                                         *)
(* Nothing keeps two sessions from updating at once, each with a staging   *)
(* directory and a helper of its own.  A session hands over at most once,  *)
(* so its name is that of its directory and its helper too.  Sessions and  *)
(* helpers may end at any moment.  Windows' installer, and the download,   *)
(* which only this session's directory sees, are left out.                 *)
(***************************************************************************)
EXTENDS Integers

CONSTANTS
    AppSessions,
    FirstSession,  \* the session that is open at the start
    Updaters,      \* those that are asked to update
    Releases,      \* the releases there are; a greater one is newer
    MaxMisfortunes \* helpers that die, renames that fail, other installers

ASSUME UpdaterAssumption ==
    /\ FirstSession \in AppSessions /\ Updaters \subseteq AppSessions
    /\ Releases \subseteq Nat \ {0} /\ Releases # {}
    /\ MaxMisfortunes \in Nat

Missing == 0

VARIABLES
    application, \* the release at the application's path, or Missing
    session,     \* of each session: "unopened", "open", "closed"
    version,     \* the release it runs
    checked,     \* Manager.checked: it has read the outcomes and what is offered
    installing,  \* Manager.installing
    payload,     \* in its staging directory: the staged release,
    previous,    \* the release moved out of the way,
    readied,     \* the helper's marker,
    commit,      \* the session's,
    oldHash,     \* and the job: what the application was
    helper,      \* where its helper is
    outcome,     \* its directory's result file, and
    older,       \* which result file was written before which
    misfortunes

appSessionVars == <<session, version, checked, installing>>
stagingVars == <<payload, previous, readied, commit, oldHash>>
results == <<outcome, older>>
updateVars == <<application, appSessionVars, stagingVars, helper, results, misfortunes>>

\* Where a helper is: before its end ...
Working == {"starting", "waiting", "check", "retain", "put", "launch", "undo", "restore",
            "succeeded", "failed"}
\* ... and before it may touch the application.
Waiting == {"starting", "waiting"}

UpdaterInit ==
    /\ application \in Releases
    /\ session = [s \in AppSessions |-> IF s = FirstSession THEN "open" ELSE "unopened"]
    /\ version = [s \in AppSessions |-> IF s = FirstSession THEN application ELSE Missing]
    /\ checked = {} /\ installing = {}
    /\ payload = [s \in AppSessions |-> Missing] /\ previous = [s \in AppSessions |-> Missing]
    /\ readied = {} /\ commit = {} /\ oldHash = [s \in AppSessions |-> Missing]
    /\ helper = [s \in AppSessions |-> "none"]
    /\ outcome = [s \in AppSessions |-> "none"] /\ older = {}
    /\ misfortunes = 0

UpdaterTypeOK ==
    /\ application \in Releases \cup {Missing}
    /\ session \in [AppSessions -> {"unopened", "open", "closed"}]
    /\ {checked, installing, readied, commit} \subseteq SUBSET AppSessions
    /\ {version, payload, previous, oldHash} \subseteq [AppSessions -> Releases \cup {Missing}]
    /\ helper \in [AppSessions -> Working \cup {"none", "over"}]
    /\ outcome \in [AppSessions -> {"none", "success", "failure"}]
    /\ older \subseteq AppSessions \X AppSessions

-----------------------------------------------------------------------------
\* AppSessions.

Goes(s, place) == helper' = [helper EXCEPT ![s] = place]
Misfortune == misfortunes < MaxMisfortunes /\ misfortunes' = misfortunes + 1

\* What is at the path is run.
Opened(s) ==
    /\ session[s] = "unopened"
    /\ session' = [session EXCEPT ![s] = "open"]
    /\ version' = [version EXCEPT ![s] = application]
    /\ UNCHANGED <<checked, installing>>

OpenSession(s) ==
    /\ application # Missing /\ Opened(s)
    /\ UNCHANGED <<application, stagingVars, helper, results, misfortunes>>

\* The user quits, InstallUpdate does, or the process dies.
CloseSession(s) ==
    /\ session[s] = "open"
    /\ session' = [session EXCEPT ![s] = "closed"]
    /\ UNCHANGED <<application, version, checked, installing, stagingVars, helper, results, misfortunes>>

\* os.RemoveAll of the staging directories of S.
RemoveStaging(S) ==
    /\ payload' = [s \in AppSessions |-> IF s \in S THEN Missing ELSE payload[s]]
    /\ previous' = [s \in AppSessions |-> IF s \in S THEN Missing ELSE previous[s]]
    /\ oldHash' = [s \in AppSessions |-> IF s \in S THEN Missing ELSE oldHash[s]]
    /\ readied' = readied \ S /\ commit' = commit \ S

\* Of the outcomes, what previousResult may remove with its directory ...
Finished == {s \in AppSessions : outcome[s] = "success"}
\* ... and whether the latest one supersedes the failures before it.
Failures == {s \in AppSessions : outcome[s] = "failure"}
Superseding == \E s \in Finished : \A t \in Failures : <<t, s>> \in older

\* A helper writes its result, and a result goes.
Record(s, result) ==
    /\ outcome' = [outcome EXCEPT ![s] = result]
    /\ older' = older \cup ((Finished \cup Failures) \X {s})
Forget(S) ==
    /\ outcome' = [s \in AppSessions |-> IF s \in S THEN "none" ELSE outcome[s]]
    /\ older' = {o \in older : o[1] \notin S /\ o[2] \notin S}

\* CheckForUpdate: only successes older than a minute are swept.
CheckForUpdate(s) ==
    /\ session[s] = "open" /\ s \notin checked
    /\ checked' = checked \cup {s}
    /\ \E aged \in SUBSET Finished :
        /\ RemoveStaging(aged)
        /\ Forget(aged \cup (IF Superseding THEN Failures ELSE {}))
    /\ UNCHANGED <<application, session, version, installing, helper, misfortunes>>

\* Install, up to the start of the helper.
StageUpdate(s) ==
    /\ session[s] = "open" /\ s \in (Updaters \cap checked) \ installing
    /\ application # Missing
    /\ \E v \in Releases :
        /\ v > version[s]
        /\ payload' = [payload EXCEPT ![s] = v]
    /\ oldHash' = [oldHash EXCEPT ![s] = application]
    /\ installing' = installing \cup {s}
    /\ Goes(s, "starting")
    /\ UNCHANGED <<application, session, version, checked, previous, readied, commit, results, misfortunes>>

HandingOver(s) == session[s] = "open" /\ s \in installing \ commit

Approve(s) ==
    /\ HandingOver(s) /\ s \in readied
    /\ commit' = commit \cup {s}
    /\ UNCHANGED <<application, appSessionVars, payload, previous, readied, oldHash, helper, results, misfortunes>>

\* Canceled, or the helper is not ready in time: it is killed, and its directory
\* goes with whatever it says.
Abandon(s) ==
    /\ HandingOver(s)
    /\ installing' = installing \ {s}
    /\ RemoveStaging({s})
    /\ Goes(s, "none")
    /\ Forget({s})
    /\ UNCHANGED <<application, session, version, checked, misfortunes>>

-----------------------------------------------------------------------------
\* The helper: RunWorker.

HelperReady(s) ==
    /\ helper[s] = "starting"
    /\ readied' = readied \cup {s}
    /\ Goes(s, "waiting")
    /\ UNCHANGED <<application, appSessionVars, payload, previous, commit, oldHash, results, misfortunes>>

\* Two minutes are over, or it cannot be told whether the session is.
ExitTooLate(s) ==
    /\ helper[s] = "waiting" /\ session[s] = "open"
    /\ Record(s, "failure")
    /\ Goes(s, "over")
    /\ UNCHANGED <<application, appSessionVars, stagingVars, misfortunes>>

\* Mutant of Approved: that the session is over is enough.
ApprovedByExit(s) == session[s] = "closed"

Approved(s) == s \in commit

SessionGone(s) ==
    /\ helper[s] = "waiting" /\ session[s] = "closed"
    /\ Goes(s, IF Approved(s) THEN "check" ELSE "over")
    /\ UNCHANGED <<application, appSessionVars, stagingVars, results, misfortunes>>

\* replace: the application is what it was when the update was staged.
CheckHash(s) ==
    /\ helper[s] = "check"
    /\ Goes(s, IF application = oldHash[s] THEN "retain" ELSE "failed")
    /\ UNCHANGED <<application, appSessionVars, stagingVars, results, misfortunes>>

\* A rename moves what is there now ...
Retain(s) ==
    /\ helper[s] = "retain" /\ application # Missing
    /\ previous' = [previous EXCEPT ![s] = application]
    /\ application' = Missing
    /\ Goes(s, "put")
    /\ UNCHANGED <<appSessionVars, payload, readied, commit, oldHash, results, misfortunes>>

\* ... and takes the place of what another put there meanwhile.
Put(s) ==
    /\ helper[s] = "put"
    /\ application' = payload[s]
    /\ payload' = [payload EXCEPT ![s] = Missing]
    /\ Goes(s, "launch")
    /\ UNCHANGED <<appSessionVars, previous, readied, commit, oldHash, results, misfortunes>>

Launched(s) ==
    /\ helper[s] = "launch" /\ application # Missing
    /\ \/ \E t \in AppSessions : Opened(t)
       \/ UNCHANGED appSessionVars
    /\ Goes(s, "succeeded")
    /\ UNCHANGED <<application, stagingVars, results, misfortunes>>

\* The new application does not start, or is no longer there.
LaunchFailed(s) ==
    /\ helper[s] = "launch"
    /\ Goes(s, "undo")
    /\ UNCHANGED <<application, appSessionVars, stagingVars, results, misfortunes>>

UndoMove(s) ==
    /\ helper[s] = "undo" /\ application # Missing
    /\ payload' = [payload EXCEPT ![s] = application]
    /\ application' = Missing
    /\ Goes(s, "restore")
    /\ UNCHANGED <<appSessionVars, previous, readied, commit, oldHash, results, misfortunes>>

\* rollback
RollBack(s) ==
    /\ helper[s] = "restore"
    /\ application' = previous[s]
    /\ previous' = [previous EXCEPT ![s] = Missing]
    /\ Goes(s, "failed")
    /\ UNCHANGED <<appSessionVars, payload, readied, commit, oldHash, results, misfortunes>>

\* Each rename may fail, and must where nothing is to be moved or a bundle is in
\* the way; that of Put is followed by the rollback.
RenameFailed(s) ==
    /\ \/ helper[s] \in {"retain", "undo"} /\ application = Missing /\ UNCHANGED misfortunes
       \/ helper[s] \in {"put", "restore"} /\ application # Missing /\ UNCHANGED misfortunes
       \/ helper[s] \in {"retain", "put", "undo", "restore"} /\ Misfortune
    /\ Goes(s, IF helper[s] = "put" THEN "restore" ELSE "failed")
    /\ UNCHANGED <<application, appSessionVars, stagingVars, results>>

RecordSuccess(s) ==
    /\ helper[s] = "succeeded"
    /\ Record(s, "success")
    /\ Goes(s, "over")
    /\ UNCHANGED <<application, appSessionVars, stagingVars, misfortunes>>

\* The failure is recorded, and the old application opened where it is in place.
RecordFailure(s) ==
    /\ helper[s] = "failed"
    /\ Record(s, "failure")
    /\ \/ application = oldHash[s] /\ \E t \in AppSessions : Opened(t)
       \/ UNCHANGED appSessionVars
    /\ Goes(s, "over")
    /\ UNCHANGED <<application, stagingVars, misfortunes>>

HelperDies(s) ==
    /\ helper[s] \in Working /\ Misfortune
    /\ Goes(s, "over")
    /\ UNCHANGED <<application, appSessionVars, stagingVars, results>>

\* Somebody installs a release over the application by other means.
Reinstall ==
    /\ Misfortune
    /\ application' \in Releases
    /\ UNCHANGED <<appSessionVars, stagingVars, helper, results>>

-----------------------------------------------------------------------------

Replace(s) ==
    \/ CheckHash(s) \/ Retain(s) \/ Put(s) \/ Launched(s) \/ LaunchFailed(s)
    \/ UndoMove(s) \/ RollBack(s) \/ RenameFailed(s)

HelperStep(s) ==
    HelperReady(s) \/ ExitTooLate(s) \/ SessionGone(s) \/ Replace(s) \/ RecordSuccess(s) \/ RecordFailure(s) \/ HelperDies(s)

SessionStep(s) ==
    OpenSession(s) \/ CloseSession(s) \/ CheckForUpdate(s) \/ StageUpdate(s) \/ Approve(s) \/ Abandon(s)

\* Nobody is at it; where no application is in its place, nobody can begin.
UpdatesOver ==
    /\ \A s \in AppSessions : session[s] # "open" /\ helper[s] \notin Working
    /\ UNCHANGED updateVars

UpdaterNext ==
    (\E s \in AppSessions : SessionStep(s) \/ HelperStep(s)) \/ Reinstall \/ UpdatesOver

UpdaterSpec == UpdaterInit /\ [][UpdaterNext]_updateVars

-----------------------------------------------------------------------------

\* The user is never left without an application: it is in its place or in a
\* helper's keeping (1), and in its place once the helpers are through, however
\* they fail or get in each other's way, unless one died or a rename failed (2).
\* It is moved only for a session that approved and is over (3).
ApplicationKept ==
    /\ application # Missing \/ \E s \in AppSessions : previous[s] # Missing
    /\ misfortunes = 0 /\ (\A s \in AppSessions : helper[s] \notin Working) => application # Missing
    /\ \A s \in AppSessions : previous[s] # Missing => s \in commit /\ session[s] = "closed"
=============================================================================
