SPECIFICATION Spec
CONSTANTS
  Replicas = {r1, r2}
  Free = Free
  Orphan = Orphan
  Ttl = 4
  Retry = 2
  MaxLag = 1
  AcquireFails = FALSE
  MaxFaults = 1
  MaxStops = 0
INVARIANT OnlyOneReplica
