CONSTANTS
  MaxU64 = 7
  Fuel = 200
  MaxOther = 1
  Artifact <- MCArtifact
  Jobs <- MCJobs
  Store <- MCStore
SPECIFICATION Spec
INVARIANT IndexComplete
INVARIANT NoReentry
INVARIANT NothingSpentTwice
INVARIANT EffectsBoundBehaviour
PROPERTY Serializable
PROPERTY Terminates
