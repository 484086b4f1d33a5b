SPECIFICATION Spec
CONSTANTS
    m = m
    x = x
    Txs = {t1, t2}
    Deploys = {}
    Queries = {q1}
    Cells = {m, x}
    MapCells = {m}
    UnlistedDefault = {}
    MaxBalance = 7
    Absent = Absent
    NoMerge = NoMerge
    None = None
    Committer = Committer
    NoConstructor = "none"
    Artifact = {}
    Value <- MCValue
    DefaultOf <- MCDefaultOf
    Program <- MCProgram
    Assignments <- DistinctAmounts
    ReadsOf <- MCReadsOf
    Effect <- MCEffect
    Fails <- MCFails
    NeedsArtifact <- MCNeedsArtifact
    MergeThreeWay <- MCMerge
    Durable = FALSE
    MAX_BATCH = 2
    CHANNEL_CAP = 2
    COMMIT_MAX_ATTEMPTS = 2
    MaxCrashes = 1
    MaxFaults = 0
SYMMETRY Symmetric
PROPERTIES ImplementsSerialStore ImplementsMergingStore
