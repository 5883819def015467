\* Two queries compete for one connection of the pool
SPECIFICATION Spec
CONSTANTS
    Collections = {"authors", "posts"}
    Order <- MCOrder
    TypeNames = {"address", "posts"}
    Definitions = {1, 2}
    Schemas <- MCSchemas
    Deleted = Deleted
    r1 = r1
    r2 = r2
    Requests = {r1, r2}
    Shapes <- MCShapes
    Environments <- MCEnvironments
    MaxSize = 1
    MaxChanges = 1
INVARIANTS
    TypeOK
    ConnectionsAreReturned
    SchemasAreFresh
    KnownCollectionsPlan
    SameSchemasSameTypes
PROPERTIES
    EveryRequestEnds
CHECK_DEADLOCK FALSE
