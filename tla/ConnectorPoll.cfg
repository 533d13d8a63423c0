SPECIFICATION Spec
CONSTANTS
  Interval = 2
  Threshold = 5
  Flap = 3
  MaxLookback = 10
  Buffer = 2
  Slack = 1
  Faults = {"read", "write", "backfill", "stop"}
  MaxFaults = 2
  MaxTime = 17
INVARIANT FaultFreeHolesWithinGap
PROPERTY BackfillsSpaced
CHECK_DEADLOCK FALSE
