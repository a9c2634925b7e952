SPECIFICATION Spec
CONSTANTS
  i1 = i1
  v1 = v1
  v2 = v2
  sixFields = sixFields
  h1 = h1
  h2 = h2
  Ids = {i1}
  Specs = {v1, v2, sixFields}
  Handlers = {h1, h2}
  CronFields <- MCCronFields
  StorageTypes = {"s3", "local"}
  Listings = {TRUE, FALSE}
  MaxEntries = 3
  None = None
SYMMETRY Symmetry
INVARIANTS
  TypeOK
  RecordedEntryIsLive
  UndisturbedInSync
PROPERTIES
  DeletedStaysDeleted
CHECK_DEADLOCK FALSE
