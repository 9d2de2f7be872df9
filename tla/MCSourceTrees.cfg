SPECIFICATION Spec
CONSTANTS
    c1 = c1
    c2 = c2
    f1 = f1
    f2 = f2
    d1 = d1
    k1 = k1
    Calls = {c1, c2}
    Keys = {k1}
    NoKey = NoKey
    NoCall = NoCall
    NoTree = NoTree
    Paths = {1, 2}
    DotGit = 2
    Nodes = {f1, f2, d1}
    NoNode = NoNode
    KindOf <- MCKindOf
    NodesAtFirst <- MCNodesAtFirst
    ContentAtFirst <- MCContentAtFirst
    MaxEntries = 2
    MaxFiles = 2
    MaxBytes = 2
    IncludeGitDir = FALSE
    MaxChanges = 3
    MaxSize = 3
SYMMETRY Symmetry
CONSTRAINT FewActors
INVARIANTS
    EntriesAreWhole
    LimitsAreKept
    TreesAreBacked
    ImportsAreSwept
PROPERTIES
    ImplementsKeyedEffects
CHECK_DEADLOCK FALSE
