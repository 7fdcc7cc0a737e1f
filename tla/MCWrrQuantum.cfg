CONSTANTS
  c1 = c1
  None = None
  CPU = {c1}
  NPROC = 2
  DEFAULT_PRIORITY = 2
  MAX_PRIORITY = 3
SPECIFICATION Spec
PROPERTY PreemptOnlyWhenQuantumConsumed
