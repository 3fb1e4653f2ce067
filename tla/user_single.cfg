SPECIFICATION LibcSpec
CONSTANTS
  SizeMod = 4
  CountMod = 2
  None = None
  NULL = NULL
  EEXIST = EEXIST
  p1 = p1
  tr1 = tr1
  tr2 = tr2
  b1 = b1
  Pid = {p1}
  TargetPid = p1
  Tgid <- MCTgid
  Clock = {0}
  SampleRate = 1
  Thread = {t1}
  Addr = {a1, a2}
  Size = {0, 1, 2}
  Nmemb = {1, 5}
  Used = {"malloc", "aligned_alloc", "valloc", "memalign", "pvalloc"}
  OomFn = {"malloc", "calloc", "posix_memalign"}
  PointerBefore = {NULL}
  ProbeRead = {TRUE}
  InitAttached <- UserProgram
  AllocsElem = {e1, e2, e3}
  AllocsMax = 2
  CombinedMax = 2
  StackHash <- MCHashInjective
  Trace = {tr1, tr2}
  MinSize = 1
  MaxSize = 7
  SizesElem = {s1, s2}
  SizesMax = 1
SYMMETRY Symmetric
VIEW LibcView
INVARIANTS
  SizeTruthful
  LeaksRecorded
  AggregatesAllocs
