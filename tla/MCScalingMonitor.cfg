\* Ranges from 1 share on: near the floor every quarter rounds to zero.
CONSTANTS
  MinShares = 1
  MaxShares = 24
  Unset = Unset
SPECIFICATION Spec
INVARIANTS TypeOK BelievedIsEnforced AtMostOneLateCall
PROPERTIES QuarterSteps BurstReachesCeiling IdleReturnsToFloor ShutdownStopsMonitor
CHECK_DEADLOCK FALSE
