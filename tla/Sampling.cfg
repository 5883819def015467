SPECIFICATION Spec
CONSTANTS
    CollectionTypeName <- MCTypeName
    Documents <- MCDocuments
    CandidateTypes <- MCCandidateTypes
    MaxNesting = 4
    MaxSample = 3
INVARIANTS
    SampledDocumentsConform
    OrderIndependent
    LeastFieldTypes
    ReferencesClosed
CHECK_DEADLOCK FALSE
