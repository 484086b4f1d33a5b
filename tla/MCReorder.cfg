CONSTANTS
  MaxU64 = 7
  Fuel = 200
  MaxOther = 1
  Artifact <- MCArtifact
  Jobs <- MCReorderJobs
  Store <- MCStore
SPECIFICATION Spec
PROPERTY ReorderingPreservesSemantics
