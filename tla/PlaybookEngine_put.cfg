SPECIFICATION PlaybookSpec
CONSTANTS
  Playbooks <- MCPlaybooks
  MaxUpdates = 1

PROPERTY EveryRunIsReported
CHECK_DEADLOCK FALSE
