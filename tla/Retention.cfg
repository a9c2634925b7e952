SPECIFICATION FairSpec
CONSTANTS
  s1 = s1
  s2 = s2
  b1 = b1
  b2 = b2
  w1 = w1
  w2 = w2
  Schedules = {s1, s2}
  Backups = {b1, b2}
  Sweeps = {w1}
  Days = {0, 1}
  MaxClock = 2
  None = None
INVARIANTS
  TypeOK
  StoredIsListed
  ListedIsStored
PROPERTIES
  PrunedWasOld
  SweepIsThorough
  SweepReturns
  SweepWorksOff
CHECK_DEADLOCK FALSE
