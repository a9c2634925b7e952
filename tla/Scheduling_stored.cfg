SPECIFICATION FairSpec
CONSTANTS
  i1 = i1
  v1 = v1
  sixFields = sixFields
  Ids = {i1}
  Specs = {v1}
  Handlers = {}
  CronFields <- MCCronFields
  StorageTypes = {"s3"}
  Listings = {TRUE}
  MaxEntries = 1
  None = None
PROPERTIES
  StoredSchedulesRun
CHECK_DEADLOCK FALSE
