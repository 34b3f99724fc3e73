------------------------------ MODULE MCState ------------------------------
(***************************************************************************)
(* The State of internal/libraryindex in one run: its job queue, and the   *)
(* writer that everything settling passes through.  Here the two share no  *)
(* state, since the queue's actions are the transactions the writer runs   *)
(* and the writer's requests only settle rows: each behaviour is one of a  *)
(* component, chosen at the start, while the other stays as it began.      *)
(*                                                                         *)
(* The writer has a control request and three settling calls, two of them  *)
(* and the control request about the same row.                             *)
(***************************************************************************)
EXTENDS MCJobQueue, StateWriter

VARIABLE part

stateVars == <<part, vars, writerVars>>

MCCalls == {"k", "a", "b", "c"}
MCControl == {"k"}
MCImpatient == {"k", "a"}
MCRows == {"r", "s"}
MCRowOf == [x \in MCCalls |-> IF x = "c" THEN "s" ELSE "r"]

Writing == part = "writer"

MCInit == part \in {"queue", "writer"} /\ Init /\ WriterInit

MCNext ==
    /\ UNCHANGED part
    /\ \/ part = "queue" /\ Next /\ UNCHANGED writerVars
       \/ Writing /\ WriterNext /\ UNCHANGED vars

\* WriterFairness, asked of the writer's behaviours.
Fairness ==
    /\ WF_writerVars(Writing /\ Write)
    /\ \A c \in Calls : WF_writerVars(Writing /\ Wait(c))

MCSpec == MCInit /\ [][MCNext]_stateVars /\ Fairness

\* Every caller of the writer returns, when the writer is closed under it too,
\* or just before it.
CallsReturn == []<>(Writing => AllReturned)
=============================================================================
