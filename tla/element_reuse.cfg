SPECIFICATION Spec
CONSTANTS
  SizeMod = 4
  CountMod = 4
  None = None
  NULL = NULL
  EEXIST = EEXIST
  p1 = p1
  tr1 = tr1
  tr2 = tr2
  b1 = b1
  Pid = {p1}
  TargetPid = p1
  Tgid <- MCTgid
  Clock = {0}
  SampleRate = 1
  Thread = {t1, t2}
  Addr = {a1, a2}
  Size = {1, 2}
  Nmemb = {}
  Used = {"malloc"}
  OomFn = {}
  InitAttached <- Probe
  AllocsElem = {e1, e2, e3}
  AllocsMax = 2
  CombinedMax = 1
  StackHash <- MCHashInjective
  Trace = {tr1}
  MinSize = 1
  MaxSize = 15
  SizesElem = {s1, s2}
  SizesMax = 1
SYMMETRY Symmetric
INVARIANTS
  AggregatesAllocs
