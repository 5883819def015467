\* Requests of up to four operations; the large join is the one of four
SPECIFICATION Spec
CONSTANTS
    MaxOps = 4
    SmallLimit = 3
INVARIANTS
    TypeOK
    InvalidRequestsRunNothing
    AtMostOnce
    SuccessMeansAllDone
    InterpolationStopsTheRest
    LargeJoinFailsInOrder
PROPERTIES
    NothingSentAfterwards
    EventuallyAnswered
    ImplementsService
CHECK_DEADLOCK FALSE
