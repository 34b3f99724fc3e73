\* MERT supervision, catalog installs, packs, queries, taste data, shutdown and updates.
SPECIFICATION MCSpec
CONSTANTS
    Sessions = {s1, s2}
    Workers = {w1, w2}
    Claimants = {w1, w2}
    Nobody = Nobody
    Probe = Probe
    Recovery = Recovery
    NoFlight = NoFlight
    MaxFaults = 2
    Recordings = {"recording"}
    Tracks = {"t1", "t2"}
    RecordingOf <- MCRecordingOf
    NoKey = NoKey
    NoTrack = NoTrack
    Processes = {p1, p2}
    NoProcess = NoProcess
    Files <- MCFiles
    Absent = Absent
    None = None
    Entry = "manifest"
    Manifests <- MCManifests
    Before <- MCBefore
    MaxMishaps = 2
    MaxFetches = 2
    MaxTries = 2
    Packs = {1, 2}
    MaxDirs = 2
    Leases = {l1, l2}
    MaxTroubles = 1
    Catalogs = {c1, c2}
    Channels = {"metadata", "mert"}
    Metadata = "metadata"
    Capacity = 2
    MaxHits = 1
    Feedbacks = {f1}
    Generations = {g1, g2}
    NoGeneration = NoGeneration
    MaxClears = 1
    MaxPresentations = 1
    Actors <- MCActors
    NoActor = NoActor
    Casts <- MCCasts
    AppSessions = {u1, u2, u3}
    FirstSession = u1
    Updaters = {u1, u2}
    Releases = {1, 2}
    MaxMisfortunes = 1
INVARIANTS
    TypeOK
    OutageSupervised
    QuarantineIsAnOutage
    ComputedOnce
    LeaseSeesWhole
    PinnedIsWhole
    RecordOpens
    UsedIsOpen
    NothingLeftOpen
    StaysForgotten
    ApplicationKept
PROPERTIES
    TracksSettle
    InstallIsAtomic
    CallsReturn
    NeverUndone
