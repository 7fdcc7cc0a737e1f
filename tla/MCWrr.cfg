CONSTANTS
  c1 = c1
  None = None
  CPU = {c1}
  NPROC = 3
  DEFAULT_PRIORITY = 1
  MAX_PRIORITY = 2
SPECIFICATION FairSpec
INVARIANTS TypeOK QuantumIsBounded
PROPERTIES NoSecondTurn NoStarvation
