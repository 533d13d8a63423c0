SPECIFICATION Spec
CONSTANTS
  Requests = {r1, r2}
  Comments = {reason}
  Null = Null
CHECK_DEADLOCK FALSE
INVARIANT FlipIs409
