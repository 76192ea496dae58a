\* Files of up to four sectors, and a footer whose size wraps (14 + 2 = 16).
CONSTANTS
  Sector = 2
  Word = 16
  Lengths = {0, 1, 2, 3, 4, 6, 8}
  OriginalSizes = {0, 1, 2, 4, 6, 12, 14}
SPECIFICATION OpenSpec
INVARIANTS OpenTypeOK SectorsInsideFile FixedIsFixed NothingForeign
CHECK_DEADLOCK FALSE
