SPECIFICATION Spec
CONSTANTS
    NoDescription = NoDescription
    Collections = {"posts"}
    Order <- MCOnePosts
    System = {}
    Samples <- MCTwoSamples
    Validators <- MCNoValidator
    UserSchemas <- MCNoUserSchemas
    MaxUpdates = 2
    MaxChanges = 2
INVARIANTS
    NestedTypesDefined
CHECK_DEADLOCK FALSE
