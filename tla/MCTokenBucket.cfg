\* Two callers, rates below and above one token a tick, and a cast
\* that truncates what the highest rate earns in three ticks.
CONSTANTS
  Callers = {c1, c2}
  UNIT = 3
  Rates = {2, 10}
  Capacities = {1, 3}
  Wants = {1, 3}
  StarveWait = 2
  WordSize = 8
  MaxTime = 6
SYMMETRY CallerSymmetry
SPECIFICATION Spec
INVARIANTS TypeOK NeverFasterThanHighestRate AtLeastHalfLowestRate BoundedRetries
CHECK_DEADLOCK FALSE
