SPECIFICATION FairSpec
CONSTANTS
  k1 = k1
  k2 = k2
  c1 = c1
  u1 = u1
  url1 = url1
  url2 = url2
  s1 = s1
  s2 = s2
  Controllers = {k1}
  Commands = {c1}
  Environments <- MCEnvironments
  Databases = {url1, url2}
  Secrets = {s1, s2}
  DefaultURL = url1
  DevSecret = s1
  Migrations = 2
  Blank = Blank
  Unset = Unset
  Users = {u1}
  PerSecond = 2
  Lifetime = 1
  MaxClock = 4
  MaxTokens = 2
INVARIANTS
  TypeOK
  UpIsReady
  SessionsLastAsTold
  TokensNameAccounts
PROPERTIES
  ControllersComeUp
CHECK_DEADLOCK FALSE
