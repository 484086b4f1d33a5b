CONSTANTS
  MaxU64 = 7
  Fuel = 200
  MaxOther = 1
  Artifact <- MCArtifact
  Jobs <- MCTornJobs
  Store <- MCStore
SPECIFICATION Spec
PROPERTY FirstObserved
