SPECIFICATION FairMCSpec
CONSTANTS
  Client = {"a", "b"}
  Other = {"o", "p"}
  Own = Own
  Contact = Contact
  None = None
  Servers <- ThreeServers
  Nodes <- FirstNodes
  Budgets <- FirstBudgets
  Scenarios <- AllScenarios
  Roster <- OneContact
  PageSize = 1
INVARIANTS
  ListComplete
  KnowsListed
  SessionsFollowFetch
  ShownOnce
  ScreenIsTable
  NoneOverlooked
PROPERTIES
  RequestsEnd
  SelectionKept
  EventuallyShown
CHECK_DEADLOCK FALSE
