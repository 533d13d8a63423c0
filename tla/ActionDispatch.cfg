SPECIFICATION DFairSpec
CONSTANTS
  a1 = a1
  ActionIds = {a1}
  Types <- MCTypes
  OtherTypes <- MCOtherTypes
  Handlers = {h1, h2, h3}
  Choices = {yes}
  NoRecord = NoRecord
  NoChoice = NoChoice
  MaxSubmits = 2
  MaxEvents = 1
  MaxRestarts = 1
  Proposals <- MCProposals
  Calls <- MCCalls
  MaxCalls = 1
  NoPost = NoPost
INVARIANTS RunsAtMostOnce CompletedMeansRun VetoStands ReportIsHonest
PROPERTIES OneDecision AutoApprovedSettles
CHECK_DEADLOCK FALSE
