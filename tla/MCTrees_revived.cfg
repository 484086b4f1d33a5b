SPECIFICATION Spec
CONSTANTS
    a = a
    b = b
    c = c
    d = d
    e = e
    Kinds = {"pmap"}
    Vals = {1, 2}
    MAX_LEVELS = 2
    Hash <- HashOfShared
    BITS_PER_LEVEL = 1
    B = 2
    EMPTY = EMPTY
    NotFound = NotFound
    NoMerge = NoMerge
    Initial <- InitialOfShared
    Puts <- MorePutsOfShared
    Removals <- RemovalOfShared
    Swept = {"pmap", "pvec"}
    MaxOurs <- MCMaxOurs
    MaxLive <- MCMaxLive
    MaxRounds <- MCMaxRounds
    MaxLen = 6
INVARIANT DisjointMergeIsSerial
