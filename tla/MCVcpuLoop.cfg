\* Every guest of up to four exits, on both back ends.
CONSTANTS
  Kinds = {"out", "outs", "reg", "poll", "in", "pio", "mmio"}
  MaxBody = 3
SPECIFICATION Spec
INVARIANTS TypeOK ConsoleIsOutput
PROPERTY GuestEndsLoop
CHECK_DEADLOCK FALSE
