CONSTANTS
  Paths = {1, 2}
  Tags = {1, 2}
  MaxSize = 2
  FaultKinds <- MCFaultsStat
  MaxFault = 1
SPECIFICATION Spec
PROPERTIES FirstChunkTruncates
