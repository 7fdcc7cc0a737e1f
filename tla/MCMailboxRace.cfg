CONSTANTS
  p1 = p1
  p2 = p2
  p3 = p3
  Proc <- Procs
  Creators = {p1, p2}
  Key = {7, 8}
  Msg = {1, 2}
  MAX_MBOX = 2
  MBOX_CAP = 2
  MaxSends = 2
SPECIFICATION Spec
PROPERTY CreateReturnsItsBox
