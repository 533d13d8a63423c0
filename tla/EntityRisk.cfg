SPECIFICATION RSpec
CONSTANTS
  r1 = r1
  r2 = r2
  r3 = r3
  a1 = a1
  a2 = a2
  f1 = f1
  f2 = f2
  k1 = k1
  n1 = n1
  n2 = n2
  Entities = {n1, n2}
  EntitiesOf <- MCEntitiesOf
  Points <- MCPoints
  Threshold = 3
  MaxContributors = 1
  Runs = {r1, r2, r3}
  Alerts = {a1, a2}
  Fingerprints = {f1, f2}
  Keys = {k1}
  AlertOf <- MCAlertOf
  Fingerprint <- MCFingerprint
  CorrKey <- MCCorrKey
  None = None
  MaxAlerts = 2
  MaxErrors = 1
  MaxExpiries = 1
INVARIANTS RiskIsJustified UncontestedRiskIsExact IncidentBounded
INVARIANTS SuppressionIsJustified SequentialRunsAreExact
SYMMETRY Copies
CHECK_DEADLOCK FALSE
