---------------------------- MODULE MCJobQueue ----------------------------
(* One file, two job kinds, two contracts and two revisions of JobQueue.   *)
EXTENDS JobQueue, FiniteSetsExt, TLC

MCFiles == {"f"}
MCKinds == {"metadata", "audio"}
MCKeys == {"v1", "v2"}
MCCommands == {("metadata" :> "v1" @@ "audio" :> "v1"),
               ("metadata" :> "v2")}
MCRevs == {1, 2}

\* Bound: claims and retries of all jobs together ...
FewClaims == MapThenSumSet(LAMBDA j : jobs[j].attempt + jobs[j].retries, Job) <= 3

\* ... and claims of one kind, whatever their contracts.
FewOfAKind ==
    \A k \in Kinds :
        MapThenSumSet(LAMBDA j : jobs[j].attempt, {i \in Job : i.kind = k}) <= 2
=============================================================================
