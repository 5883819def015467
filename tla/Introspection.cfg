SPECIFICATION Spec
CONSTANTS
    NoDescription = NoDescription
    Collections = {"authors", "posts"}
    Order <- MCOrder
    System = {"authors"}
    Samples <- MCTwoSamples
    Validators <- MCValidators
    UserSchemas <- MCUserSchemas
    MaxUpdates = 5
    MaxChanges = 1
INVARIANTS
    ConfiguredTopLevelKept
    OnlySampledFilesWritten
    OnlyFileBeingWrittenIsTorn
    SampledFieldsAdded
    ReintrospectionSettles
PROPERTIES
    UpdateEnds
CHECK_DEADLOCK FALSE
