CONSTANTS
  p1 = p1
  p2 = p2
  p3 = p3
  Proc <- Procs
  Creators = {p1}
  Key = {7, 8}
  Msg = {0, 1}
  MAX_MBOX = 2
  MBOX_CAP = 2
  MaxSends = 3
SPECIFICATION FairSpec
INVARIANTS TypeOK SleepersHaveCause OneBoxPerKey
PROPERTIES ImplementsChannel BlockedGetThrough
