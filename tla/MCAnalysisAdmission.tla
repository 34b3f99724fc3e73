------------------------ MODULE MCAnalysisAdmission ------------------------
(* Two audio workers and a metadata worker on two CPUs.                     *)
EXTENDS AnalysisAdmission, TLC

MCResources == {"cpu", "source", "pcm"}
MCCapacity == "cpu" :> 2 @@ "source" :> 2 @@ "pcm" :> 2
MCAudioWorkers == {"a", "b"}
MCMetadataWorkers == {"m"}
MCClients == MCAudioWorkers \X {"track", "dsp", "mert"} \cup MCMetadataWorkers \X {"probe"}
MCRequests == {Ask(c, s, p) : c \in 0..2, s \in 0..1, p \in 0..2}
=============================================================================
