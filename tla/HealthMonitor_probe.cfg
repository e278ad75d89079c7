CONSTANTS
    Probes <- MCProbes
    MaxMounts = 2
    Base = 1
    MaxWait = 2
    MaxShift = 1
    Width = 3
    Monitor = monitor
    Stats = stats
    None = none
SPECIFICATION Spec
INVARIANTS
    TypeOK
    NoPileUp
    NoFinishedProbeJoined
    FreshVerdict
    
PROPERTIES
    DetachOnlyDead
    AttemptsSpaced
