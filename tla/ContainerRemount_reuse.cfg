CONSTANTS
    m1 = m1
    m2 = m2
    m3 = m3
    c1 = c1
    c2 = c2
    NumVols = 2
    Mounts <- MCMounts
    Containers <- MCContainers
    VolOf <- MCVolOf
    In <- MCIn
    RootOf <- MCRootOf
    ReadOnly = {1}
    MaxSessions = 4
    MaxFaults = 0
SPECIFICATION Spec
PROPERTY
    KeyPicksOwnDead
CHECK_DEADLOCK FALSE
