SPECIFICATION SearchSpec
CONSTANTS
    Chunk = 2
    Searches <- MCSearches
INVARIANTS
    NothingIsMissed
CHECK_DEADLOCK FALSE
