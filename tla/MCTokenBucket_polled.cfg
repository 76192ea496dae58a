\* A constant rate, and callers that poll.
CONSTANTS
  Callers = {c1, c2}
  UNIT = 5
  Rates = {3}
  Capacities = {4}
  Wants = {1, 2, 4}
  StarveWait = 10
  WordSize = 1000
  MaxTime = 12
SYMMETRY CallerSymmetry
SPECIFICATION Spec
INVARIANT SteadyRate
CHECK_DEADLOCK FALSE
