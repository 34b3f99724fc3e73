CONSTANTS
    Dirs <- MCDirs
    Root = "."
    Parent <- MCParent
    Paths <- MCPaths
    DirOf <- MCDirOf
    Batch = 2
    MaxChanges = 3
    MaxEpochs = 2
SPECIFICATION Spec
INVARIANTS
    ObservationsApply
