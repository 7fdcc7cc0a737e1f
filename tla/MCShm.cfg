CONSTANTS
  p1 = p1
  p2 = p2
  p3 = p3
  g1 = g1
  g2 = g2
  NoPage = NoPage
  InitProc = p1
  Proc <- Procs
  Page <- Pages
  Key <- Keys
  MAX_SHM = 2
  MaxRef = 1
SPECIFICATION Spec
SYMMETRY Symmetry
INVARIANTS TypeOK RefCountExact NoDanglingMapping PagesPartitioned OneSlotPerKey
PROPERTIES LastUnmapReleases
