SPECIFICATION Spec
CONSTANTS
  MaxText = 4
  Buffer = 3
INVARIANTS
  TypeOK
  AllOrAnError
PROPERTIES
  StreamsEnd
CHECK_DEADLOCK FALSE
