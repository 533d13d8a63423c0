SPECIFICATION FairSpec
CONSTANTS
  e1 = e1
  e2 = e2
  e3 = e3
  t1 = t1
  t2 = t2
  n1 = n1
  n2 = n2
  c1 = c1
  c2 = c2
  Events = {e1, e2, e3}
  Tenants = {t1, t2}
  TenantOf <- MCTenantOf
  EntityOf <- MCEntityOf
  Clients = {c1, c2}
  ClientTenant <- MCClientTenant
  Handlers = {h1, h2}
  None = None
  QueueSize = 1
  BatchSize = 2
  BufferSize = 1
  MaxOutages = 1
INVARIANTS AcceptedIsAccounted LiveTail
PROPERTY ShutdownEnds
CHECK_DEADLOCK FALSE
