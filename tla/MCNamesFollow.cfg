CONSTANTS
  p1 = p1
  p2 = p2
  Proc = {p1}
  Name = {"a", "b"}
  Path <- Paths
  Target <- Long
  NINODES = 3
  NFILE = 1
  MaxRef = 1
  MaxFollow = 10
  MaxGroup = 2
SPECIFICATION Spec
PROPERTY FollowsTheTarget
