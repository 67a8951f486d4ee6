CONSTANTS
  Paths = {1, 2}
  Tags = {1, 2}
  MaxSize = 2
  FaultKinds <- MCFaultsRead
  MaxFault = 1
SPECIFICATION Spec
INVARIANTS ReadReportsFile
