SPECIFICATION Spec
CONSTANTS
    a = a
    b = b
    c = c
    d = d
    e = e
    Kinds = {"pbtree"}
    Vals = {1, 2}
    MAX_LEVELS = 2
    Hash <- MCHash
    BITS_PER_LEVEL = 1
    B = 2
    EMPTY = EMPTY
    NotFound = NotFound
    NoMerge = NoMerge
    Initial <- MCInitial
    Puts <- MCPuts
    Removals <- MCRemovals
    Swept = {"pbtree"}
    MaxOurs <- MCMaxOurs
    MaxLive <- MCMaxLive
    MaxRounds <- MCMaxRounds
    MaxLen = 6
INVARIANT LiveNodesSurvive
