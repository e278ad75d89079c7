SPECIFICATION Spec
CONSTANTS
    Rpcs = {r1}
    Monitors = {m}
    Paths = {p1}
    Calls = {"stage", "publish", "unpublish"}
    Mutexes = {1, 2}
    Vols = {1, 2, 3}
    Gens = {1, 2, 3, 4, 5}
    None = None
    Bare = Bare
    UnstageOverlaps = FALSE
    HasContext = TRUE
    DeviceLookupFails = FALSE
    MaxFaults = 1
    MaxRestarts = 0
INVARIANTS
    NoDeletionThroughMount
