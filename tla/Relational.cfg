\* A query ends with its response.
CHECK_DEADLOCK FALSE
SPECIFICATION Spec
CONSTANTS
    Null = Null
    Expressions <- MCExpressions
    Relations <- MCRelations
    Missing = Missing
    Refused = Refused
    NativeQueries <- MCNativeQueries
    Databases <- MCDatabases
    Requests <- MCRequests
    Nesting = 3
    Depth = 2
INVARIANTS
    PassesAreComplete
    ResponseIsRight
    NativeQueriesFirst
    PassesPreserveRows
