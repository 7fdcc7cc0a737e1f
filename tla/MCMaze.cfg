CONSTANTS
  Pid = {2, 3, 11}
  MaxL = 4
  MAX_MBOX = 4
  MBOX_CAP = 2
  argv <- Arguments
SPECIFICATION FairSpec
INVARIANTS TypeOK MovesInStep OneMessagePerBox NotWithoutA OwnGame
PROPERTIES GameIsWon
CHECK_DEADLOCK FALSE
