SPECIFICATION Spec
CONSTANTS
    x = x
    y = y
    m = m
    N = 3
    Cells = {x, y, m}
    MapCells = {m}
    UnlistedDefault = {}
    Modulus = 3
    Absent = Absent
    NoMerge = NoMerge
    Value <- MCValue
    DefaultOf <- MCDefaultOf
    Program <- MCProgram
    ReadsOf <- MCReadsOf
    Effect <- MCEffect
    Fails <- MCFails
    Answers <- Numbers
    Answer <- MCAnswer
    MergeThreeWay <- MCMerge
    Batches <- MCBatches
    Separate <- MCSeparate
    Stores <- PlainStores
INVARIANTS TypeOK ReportsAreSerial OnlyConflictsReexecute
PROPERTIES ImplementsSerialStore ImplementsMergingStore
