SPECIFICATION Spec
CONSTANTS
  Requests = {r1, r2, r3}
  Comments = {reason}
  Null = Null
CHECK_DEADLOCK FALSE
INVARIANT UncontestedAgrees
INVARIANT RefusalIsJustified
PROPERTY DecisionSettles
