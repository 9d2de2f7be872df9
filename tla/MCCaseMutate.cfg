SPECIFICATION FairSpec
CONSTANTS
    c1 = c1
    c2 = c2
    Calls = {c1, c2}
    Keys = {"k"}
    Fingerprints = {"f", "g"}
    MaxAttempts = 4
    NoCall = NoCall
    NoKey = NoKey
    NoRequest = NoRequest
INVARIANTS
    AuditIntact
    OneEffectPerKey
    AnswersAreTrue
PROPERTIES
    QuietVerifyIsClean
    ImplementsAuditedLog
    CallsEnd
CHECK_DEADLOCK FALSE
