CHECK_DEADLOCK FALSE
SPECIFICATION Spec
CONSTANTS
    Null = Null
    Expressions <- MCExpressions
    Relations <- MCRelations
    Missing = Missing
    Refused = Refused
    NativeQueries <- MCNativeQueries
    Databases <- PlainDatabases
    Requests <- MCRequests
    Nesting = 3
    Depth = 1
INVARIANTS
    SemiJoinsReturnRows
