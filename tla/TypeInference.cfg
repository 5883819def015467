SPECIFICATION Spec
CONSTANTS
    Null = Null
    Words <- MCWords
    ObjectTypes <- MCObjectTypes
    QueryName <- MCQueryName
    Problems <- MCProblems
    Databases <- MCDatabases
    ArgumentPool <- MCArgumentPool
INVARIANTS
    OrderMattersOnlyToUnneeded
    ResultDescribesOutput
    ParametersDeclared
PROPERTIES
    InferenceEnds
CHECK_DEADLOCK FALSE
