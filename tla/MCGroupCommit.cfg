SPECIFICATION FairSpec
CONSTANTS
    x = x
    y = y
    Txs = {t1, t2}
    Deploys = {d1}
    Queries = {}
    Cells = {x, y}
    MapCells = {}
    UnlistedDefault = {}
    Modulus = 2
    Absent = Absent
    NoMerge = NoMerge
    None = None
    Committer = Committer
    NoConstructor = "none"
    Artifact = {code}
    Value <- MCValue
    DefaultOf <- MCDefaultOf
    Program <- MCProgram
    Assignments <- MCAssignments
    ReadsOf <- MCReadsOf
    Effect <- MCEffect
    Fails <- MCFails
    NeedsArtifact <- MCNeedsArtifact
    MergeThreeWay <- MCMerge
    Durable = TRUE
    MAX_BATCH = 2
    CHANNEL_CAP = 1
    COMMIT_MAX_ATTEMPTS = 2
    MaxCrashes = 1
    MaxFaults = 1
INVARIANTS TypeOK SerialHistory ExactlyOnce NobodyForgotten CodeOutlivesState
PROPERTIES ConflictMeansOverwritten ImplementsSerialStore EveryRequestAnswered
