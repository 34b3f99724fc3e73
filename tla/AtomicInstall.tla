---------------------------- MODULE AtomicInstall ----------------------------
(***************************************************************************)
(* What installing a catalog promises: the files of a manifest take the    *)
(* place of those before them all at once, or not at all.                  *)
(***************************************************************************)
CONSTANTS
    Files,
    Absent,
    Manifests,  \* what each manifest says of each file; Absent: nothing
    Before      \* the directories an install may find

VARIABLE content  \* what is in each file

\* The directory after manifest m is installed over c.
Over(c, m) == [f \in Files |-> IF m[f] = Absent THEN c[f] ELSE m[f]]

Init == content \in Before
Install == \E m \in Manifests : content' = Over(content, m)
Spec == Init /\ [][Install]_content
=============================================================================
