SPECIFICATION Spec
CONSTANTS
  Interval = 2
  Threshold = 5
  Flap = 3
  MaxLookback = 9
  Buffer = 4
  Slack = 1
  Faults = {"backfill"}
  MaxFaults = 1
  MaxTime = 20
INVARIANT OutageLeavesNoHole
CHECK_DEADLOCK FALSE
