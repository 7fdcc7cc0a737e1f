CONSTANTS
  p1 = p1
  p2 = p2
  Proc = {p1, p2}
  Name = {"a", "b"}
  Path <- Paths
  Target <- Short
  NINODES = 3
  NFILE = 1
  MaxRef = 2
  MaxFollow = 2
  MaxGroup = 2
SPECIFICATION Spec
SYMMETRY Symmetry
INVARIANTS TypeOK LinksAreCounted NothingDangles NoOrphans DirectoriesAreATree
