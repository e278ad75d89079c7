SPECIFICATION Spec
CONSTANTS
    Rpcs = {r1}
    Monitors = {m}
    Paths = {p1, p2}
    Calls = {"stage", "publish", "unpublish", "unstage"}
    Mutexes = {1, 2}
    Vols = {1, 2, 3}
    Gens = {1, 2, 3, 4, 5}
    None = None
    Bare = Bare
    UnstageOverlaps = FALSE
    HasContext = TRUE
    DeviceLookupFails = FALSE
    MaxFaults = 3
    MaxRestarts = 0
SYMMETRY Symmetry
INVARIANTS
    TypeOK
    VolumeSerialized
    OnlyLateDeletion
    TrackingExact
PROPERTIES
    NoLiveTeardown
