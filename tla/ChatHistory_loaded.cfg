SPECIFICATION MCSpec
CONSTANTS
  Client = {"a"}
  Other = {"o", "p"}
  Own = Own
  Contact = Contact
  None = None
  Servers <- ThreeServers
  Nodes <- FirstNodes
  Budgets <- NoLogin
  Scenarios <- Reconnect
  Roster <- OneContact
  PageSize = 1
INVARIANT HistoryLoaded
CHECK_DEADLOCK FALSE
