\* A query ends when it is planned.
CHECK_DEADLOCK FALSE
SPECIFICATION Spec
CONSTANTS
    None = None
    x = x
    y = y
    aggregate = aggregate
    limit = limit
    Relationships = {r, s}
    Collections = {c}
    Arguments = {a}
    FieldNames = {x, y}
    NestedNames = {"part"}
    FieldQueries <- MCFieldQueries
    ExistsPredicates <- MCExistsPredicates
    PathElements <- MCPathElements
    MaxUses = 4
    MaxDepth = 2
SYMMETRY MCSymmetry
INVARIANTS
    UsesCovered
    ScopesUnique
    SeparateOnlyIfIncompatible
PROPERTIES
    JoinsOnlyGrow
