SPECIFICATION Spec
CONSTANTS
  MaxText = 4
  Buffer = 3
INVARIANTS
  EncryptedComesBack
CHECK_DEADLOCK FALSE
