SPECIFICATION FairSpec
CONSTANTS
  r1 = r1
  r2 = r2
  prefix = prefix
  Runs = {r1, r2}
  Labels = {prefix}
  Label <- MCLabel
  DumpLen <- MCDumpLen
  MaxClock = 1
  NoObject = NoObject
INVARIANT EveryRecordedIsComplete
CHECK_DEADLOCK FALSE
