SPECIFICATION MCSpec
CONSTANTS
  Client = {"a"}
  Other = {"o", "p"}
  Own = Own
  Contact = Contact
  None = None
  Servers <- ThreeServers
  Nodes <- FirstNodes
  Budgets <- OneLogin
  Scenarios <- NoMessages
  Roster <- OneContact
  PageSize = 1
INVARIANT OwnListAnswered
CHECK_DEADLOCK FALSE
