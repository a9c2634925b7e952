SPECIFICATION Spec
CONSTANTS
  lower = lower
  upper = upper
  other = other
  Ids = {u1, u2, u3}
  Addresses = {lower, upper, other}
  Fold <- MCFold
  Passwords = {p1, p2}
  Googles = {g1, g2}
  Clients = {c1, c2}
  None = None
SYMMETRY Symmetry
INVARIANTS
  TypeOK
  OneAccountEach
  SignInIsRepeatable
PROPERTIES
  LinksAreForGood
  IsDirectory
CHECK_DEADLOCK FALSE
