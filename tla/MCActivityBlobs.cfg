SPECIFICATION FairSpec
CONSTANTS
    a1 = a1
    e1 = e1
    e2 = e2
    h1 = h1
    b1 = b1
    b2 = b2
    k1 = k1
    Activities = {a1}
    Entities = {e1, e2}
    Handles = {h1}
    Blobs = {b1, b2}
    Keys = {k1}
    Outcomes = {"succeeded", "interrupted"}
    Asked = {"object", "evidence"}
    NoActivity = NoActivity
    NoEntity = NoEntity
    NoHandle = NoHandle
    NoBlob = NoBlob
    NoKey = NoKey
    NoRequest = NoRequest
INVARIANTS
    NoDanglingBlob
    OneResultPerKey
    StagingLeftByCrashOnly
    AnswersAreRecorded
PROPERTIES
    FinishReturns
CHECK_DEADLOCK FALSE
