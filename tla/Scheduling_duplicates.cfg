SPECIFICATION Spec
CONSTANTS
  i1 = i1
  v1 = v1
  v2 = v2
  h1 = h1
  h2 = h2
  sixFields = sixFields
  Ids = {i1}
  Specs = {v1, v2}
  Handlers = {h1, h2}
  CronFields <- MCCronFields
  StorageTypes = {"s3"}
  Listings = {TRUE, FALSE}
  MaxEntries = 2
  None = None
SYMMETRY Symmetry
INVARIANTS
  NoDuplicateEntries
CHECK_DEADLOCK FALSE
