SPECIFICATION OSpec
CONSTANTS
  Connectors = {c1, c2}
  Signatures = {s1, s2}
  None = None
  MaxWrites = 3
  MaxFaults = 2
  OAuthConnectors = {c1}
  Alarm = 2
  MaxTokens = 3
INVARIANTS CacheMatchesJobs TokenKept
PROPERTY JobsConverge DueIsSettled
