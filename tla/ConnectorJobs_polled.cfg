SPECIFICATION Spec
CONSTANTS
  Connectors = {c1}
  Signatures = {s1}
  None = None
  MaxWrites = 1
  MaxFaults = 0
PROPERTY EnabledIsPolled
