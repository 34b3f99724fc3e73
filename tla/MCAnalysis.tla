---------------------------- MODULE MCAnalysis ----------------------------
(* Two files, metadata and audio, one contract, a worker for each kind.    *)
(* f is new and g has its metadata from an earlier run; in a run over all   *)
(* jobs f has its metadata, and that of g has failed.                      *)
EXTENDS Analysis, TLC

MCFiles == {"f", "g"}
MCFile == {"f"}
MCKinds == {"metadata", "audio"}
MCKeys == {"v1"}
MCCommands == {[k \in MCKinds |-> "v1"]}
MCRev == {1}
MCRevs == {1, 2}
MCThreeRevs == {1, 2, 3}
MCPasts == {"f" :> "new" @@ "g" :> "completed"}
MCFailedPast == {"f" :> "completed" @@ "g" :> "failed"}
MCOnePast == {"f" :> "completed"}
MCBeating == {"metadata"}
MCWorkers == MCKinds
MCKindOf == [w \in MCWorkers |-> w]
MCTrio == {"m1", "a1", "a2"}
MCTrioKindOf == [w \in MCTrio |-> IF w = "m1" THEN "metadata" ELSE "audio"]
=============================================================================
