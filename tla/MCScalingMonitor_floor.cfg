\* A small range: only the first call matters.
CONSTANTS
  MinShares = 1
  MaxShares = 3
  Unset = Unset
SPECIFICATION Spec
PROPERTY SinkSeesARealValue
CHECK_DEADLOCK FALSE
