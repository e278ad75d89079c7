SPECIFICATION Spec
CONSTANTS
    Rpcs = {r1}
    Monitors = {m}
    Paths = {p1}
    Calls = {"stage", "publish", "unpublish", "unstage"}
    Mutexes = {1, 2, 3}
    Vols = {1, 2, 3, 4}
    Gens = {1, 2, 3, 4, 5}
    None = None
    Bare = Bare
    UnstageOverlaps = TRUE
    HasContext = TRUE
    DeviceLookupFails = FALSE
    MaxFaults = 1
    MaxRestarts = 0
INVARIANTS
    OnlyLateDeletion
