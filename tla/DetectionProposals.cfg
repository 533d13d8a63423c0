SPECIFICATION ProposalSpec
CONSTANTS
  ApiRequests = {r1, r2, r3, r4}
  Null = Null
  MaxFaults = 1
SYMMETRY Symmetry
INVARIANTS RulesAreReviewed UncontestedIsExact SequentialLogVerifies
CHECK_DEADLOCK FALSE
