SPECIFICATION FairSpec
CONSTANTS
    v1 = v1
    t1 = t1
    None = None
    Volumes = {v1}
    Targets = {t1}
    VolumeOf <- MCVolumeOf
    Handlers = {c1, c2}
    Procs = {p1, p2}
INVARIANTS
    TypeOK
    OneServerPerVolume
    MountsOnBareTarget
    RecordedCleanupIsOwn
PROPERTIES
    EntryOutlivesProcess
    UnmountedMeansStopped
    ListedIsTracked
    EveryRequestReturns
    StaleEntryCleared
    ImplementsService
