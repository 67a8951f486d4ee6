CONSTANTS
  Paths = {1, 2}
  Tags = {1, 2}
  MaxSize = 2
  FaultKinds <- MCFaultsWrite
  MaxFault = 1
SPECIFICATION Spec
PROPERTIES WriteDurable
