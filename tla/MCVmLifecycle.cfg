\* One start on either system; up to two polls' worth of CPU time between two
\* good readings.
SPECIFICATION Spec
CONSTANTS
  MinShares = 6
  MaxShares = 8
  Unset = Unset
  Chunks <- MCChunks
  MaxUnits = 10
INVARIANTS
  RamOutlivesMapping
  FailedStartLeavesQuota
  NoOrphanMonitor
  StepsFollowHost
PROPERTIES ImplementsMonitor StartEnds
CHECK_DEADLOCK FALSE
