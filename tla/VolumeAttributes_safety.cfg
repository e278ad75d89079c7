SPECIFICATION Spec
CONSTANTS
    StaticParams <- MCStatic
    ClassParams <- MCClasses
    Sizes = {1, 2, 3}
    None = None
    MaxVolumes = 2
INVARIANTS
    TypeOK
    ModifiedVolumeStages
    QuotaFollowsExpansion
PROPERTIES
    StageAppliesClass
