SPECIFICATION FairSpec
CONSTANTS
  ana = ana
  bo = bo
  cy = cy
  c1 = c1
  c2 = c2
  c3 = c3
  p1 = p1
  p2 = p2
  Users = {ana, bo, cy}
  Claims = {c1, c2, c3}
  Patches = {p1, p2}
  UserOf <- MCUserOf
  Nobody = Nobody
  Gone = Gone
  NoRequest = NoRequest
CHECK_DEADLOCK FALSE
INVARIANT OneWinner
PROPERTY AtomicClaim
PROPERTY EveryRequestAnswered
