CONSTANTS
    Resources <- MCResources
    Capacity <- MCCapacity
    Clients <- MCClients
    Requests <- MCRequests
    AudioWorkers <- MCAudioWorkers
    MetadataWorkers <- MCMetadataWorkers
    DSPSlots = 1
    MERTWorkers = 1
    InferenceThreads = 2
SPECIFICATION Spec
INVARIANTS
    ATypeOK
    UsedIsHeld
    NoneForgotten
PROPERTIES
    TracksFinish
