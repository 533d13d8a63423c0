SPECIFICATION HFairSpec
CONSTANTS
  Replicas = {r1, r2}
  Free = Free
  Orphan = Orphan
  Ttl = 4
  Retry = 2
  MaxLag = 1
  AcquireFails = TRUE
  MaxFaults = 1
  MaxStops = 1
  Hunts = {h1}
  MaxPeriods = 2
  MaxErrors = 1
INVARIANTS OneCasePerPeriod OneRenewedWorker ExclusiveWhenHealthy
PROPERTIES DueHuntsRun NoForeignRelease
