CONSTANTS
    MaxUnwindTableSize = 7
    MaxBinarySearchDepth = 4
    Pcs = {0, 1}
    Pow2 <- const_Pow2
SPECIFICATION SearchSpec
INVARIANTS AnswersInChunk
PROPERTIES ImplementsLookup
CHECK_DEADLOCK FALSE
