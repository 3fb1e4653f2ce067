SPECIFICATION Spec
CONSTANTS
  File <- MCFile
  Code <- MCCode
  Table <- MCTable
  Bias <- MCBias
  UserLayouts <- MCUserLayouts
  KernelLayouts <- MCKernelLayouts
  Depth = 2
  Unknown = Unknown
CHECK_DEADLOCK FALSE
INVARIANTS
  ResolvesClosest
  RightFunction
