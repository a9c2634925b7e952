SPECIFICATION Spec
CONSTANTS
  i1 = i1
  v1 = v1
  h1 = h1
  h2 = h2
  sixFields = sixFields
  Ids = {i1}
  Specs = {v1}
  Handlers = {h1, h2}
  CronFields <- MCCronFields
  StorageTypes = {"local"}
  Listings = {TRUE, FALSE}
  MaxEntries = 1
  None = None
SYMMETRY Symmetry
INVARIANTS
  JobsDoNotPanic
CHECK_DEADLOCK FALSE
