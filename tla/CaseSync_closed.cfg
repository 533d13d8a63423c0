SPECIFICATION FairSpec
CONSTANTS
  Handlers = {h1, h2}
  Jira = {j1}
  ServiceNow = {s1}
  NoTicket = NoTicket
  NoStatus = NoStatus
  MaxInputs = 2
  MaxFaults = 1

PROPERTY DoneLeavesClosed
CHECK_DEADLOCK FALSE
