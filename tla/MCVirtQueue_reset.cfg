SPECIFICATION SpecWithReset
CONSTANTS
  N = 2
  IdxMod = 4
INVARIANT TakesOnlyPosted
CHECK_DEADLOCK FALSE
