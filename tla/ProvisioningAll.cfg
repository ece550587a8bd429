SPECIFICATION Spec
CONSTANTS
    Inputs <- MCInputs
    Options <- MCOptions
    Topologies <- MCTopologies
    MinimumDiskSizeGiB = 1
    PerformancePlusMinimumDiskSizeGiB = 3
    SourceDiskSearchMaxDepth = 1
    MaxCalls = 2
INVARIANTS
    OneDiskPerName
    TopologyIsWhereTheDiskIs
    CachingFitsSku
    CreatedCanBeUsed
    ParametersHonoured
    SizeInRange
    UltraInRange
CHECK_DEADLOCK FALSE
