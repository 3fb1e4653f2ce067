SPECIFICATION Spec
CONSTANTS
  SizeMod = 4
  CountMod = 2
  None = None
  NULL = NULL
  EEXIST = EEXIST
  p1 = p1
  p2 = p2
  t1 = t1
  tr1 = tr1
  Pid = {p1, p2}
  TargetPid = None
  Tgid <- MCTgid
  Clock = {0, 1}
  SampleRate = 2
  Thread = {t1, t2}
  Addr = {a1, g1, c1, NoPage}
  Slab = {a1}
  Page = {g1}
  Percpu = {c1}
  NoPage = NoPage
  KSize = {1}
  Order = {1}
  page_size = 1
  WaMissingFree = TRUE
  Btf = {"kmem_alloc", "kmem_alloc_node", "kmem_free"}
  AllocsElem = {e1, e2, e3}
  AllocsMax = 2
  CombinedMax = 1
  StackHash <- MCStackHash
  Trace = {tr1}
  MinSize = 0
  MaxSize = 7
  SizesElem = {s1, s2}
  SizesMax = 1
SYMMETRY Symmetric
VIEW LiveView
CONSTRAINT NoDriftYet
INVARIANTS
  WorkaroundEffective
  StatisticsExact
PROPERTIES
  OnlyLostFreesLeak
  StatisticsRefined
