------------------------------ MODULE DiffRun ------------------------------
(***************************************************************************)
(* What one analysis promises of the jobs it was given: each is settled at *)
(* most once, never reopened, and the run ends, well only when none of     *)
(* them is left open.                                                      *)
(***************************************************************************)
CONSTANT Tasks \* the jobs a run may be given

VARIABLES
    open,     \* jobs not yet completed or failed
    outcome   \* "running", "drained", or "interrupted"

vars == <<open, outcome>>

Init == open \subseteq Tasks /\ outcome = "running"

\* A transaction settles some jobs: one, or all that are blocked.
Settle ==
    /\ outcome = "running"
    /\ open' \subseteq open
    /\ UNCHANGED outcome

Drain ==
    /\ outcome = "running"
    /\ open = {}
    /\ outcome' = "drained"
    /\ UNCHANGED open

\* A stop, a cancellation or an error: what is open stays for the next run.
Interrupt ==
    /\ outcome = "running"
    /\ outcome' = "interrupted"
    /\ UNCHANGED open

Next == Settle \/ Drain \/ Interrupt

Ends == outcome = "running" ~> outcome # "running"

Spec == Init /\ [][Next]_vars /\ Ends

=============================================================================
