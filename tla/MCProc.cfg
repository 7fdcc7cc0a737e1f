CONSTANTS
  NPROC = 4
  MaxPid = 4
  MaxPause = 2
  Pauser = {2}
SPECIFICATION FairSpec
INVARIANTS TypeOK ParentsAreAlive SleepersHaveCause FreshSlots
PROPERTIES InitReaps PauseEnds
