SPECIFICATION PlaybookSpec
CONSTANTS
  Playbooks <- MCPlaybooks
  MaxUpdates = 1
INVARIANTS CallsAreBounded AbortIsFinal
PROPERTY EveryRunEnds
CHECK_DEADLOCK FALSE
