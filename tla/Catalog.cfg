SPECIFICATION Spec
CONSTANTS
  b1 = b1
  b2 = b2
  slash = slash
  backslash = backslash
  t1 = t1
  h1 = h1
  c1 = c1
  c2 = c2
  Backups = {b1, b2}
  Paths = {slash, backslash}
  OpensAs <- MCOpensAs
  Targets = {t1}
  Size = 2
  Handlers = {h1}
  Commands = {c1, c2}
  None = None
SYMMETRY Symmetry
INVARIANTS
  TypeOK
  ListedIsStored
  DeletedIsGone
  WrittenIsPrefix
PROPERTIES
  RestoredIsWhole
CHECK_DEADLOCK FALSE
