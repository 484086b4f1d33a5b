SPECIFICATION Spec
CONSTANTS
    m = m
    x = x
    Txs = {t1, t2}
    Deploys = {}
    Queries = {}
    Cells = {m, x}
    MapCells = {m}
    UnlistedDefault = {}
    MaxBalance = 7
    Absent = Absent
    NoMerge = NoMerge
    None = None
    Committer = Committer
    NoConstructor = "none"
    Artifact = {}
    Value <- MCValue
    DefaultOf <- MCDefaultOf
    Program <- MCProgram
    Assignments <- SameCredit
    ReadsOf <- MCReadsOf
    Effect <- MCEffect
    Fails <- MCFails
    NeedsArtifact <- MCNeedsArtifact
    MergeThreeWay <- MCMerge
    Durable = TRUE
    MAX_BATCH = 2
    CHANNEL_CAP = 2
    COMMIT_MAX_ATTEMPTS = 2
    MaxCrashes = 0
    MaxFaults = 0
SYMMETRY Symmetric
PROPERTY ImplementsSerialStore
