\* A query ends with its response.
CHECK_DEADLOCK FALSE
SPECIFICATION Spec
CONSTANTS
    Null = Null
    Missing = Missing
    Failed = Failed
    TypeMismatch = TypeMismatch
    UnsafeNames <- MCUnsafeNames
    OtherInitials <- MCOtherInitials
    Strings <- MCStrings
    NativeQueries <- MCNativeQueries
    CollectionTypes <- MCCollectionTypes
    CollectionArguments <- MCCollectionArguments
    Relationships <- MCRelationships
    Databases <- MCDatabases
    Requests <- MCRequests
INVARIANTS
    ResponseIsRight
    PlannedIsAnswered
    RowSetPerVariableSet
