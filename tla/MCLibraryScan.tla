---------------------------- MODULE MCLibraryScan ----------------------------
(* A root and a directory in it, with a path in each.                        *)
EXTENDS LibraryScan, TLC

MCDirs == {".", "d"}
MCParent == "d" :> "."
MCPaths == {"a", "d/b"}
MCDirOf == "a" :> "." @@ "d/b" :> "d"
=============================================================================
