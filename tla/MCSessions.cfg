SPECIFICATION Spec
CONSTANTS
    Chunk = 2
    Searches <- MCSearches
    Handles = {h1, h2}
    NoHandle = none
    Outputs = 1
    Asked <- MCOperations
INVARIANTS
    OutcomeIsTrue
    RunsAreEnded
    CloseIsLostOnlyByFailure
    SavedHitsAreTrue
    MissesAreExplained
SYMMETRY MCSymmetry
CHECK_DEADLOCK FALSE
