SPECIFICATION Spec
CONSTANTS
  ByteBase = 2
  SizeMod = 32
  CountMod = 8
  None = None
  Entries <- MCEntries
  MaxTotals = 5
  StackId = {k1, k2, k3}
  Block = {b1, b2, b3}
  BlockSize = {3, 20}
  nTopStacks = 2
SYMMETRY Symmetric
CONSTRAINT FewTotals
ACTION_CONSTRAINT CloseInWalk
INVARIANTS
  TypeOK
  ReportIsTop
  ReportHonest
  LargestShown
