SPECIFICATION FairItemsSpec
CONSTANTS
  None = None
  Part = {"sync", "text"}
  Contact = {c1}
  Event = {v1}
  Todo = {d1}
  Slot = {1, 2}
  MaxChanges = 2
  MaxFaults = 1
  Protocols = {"dav", "jmap"}
  Accounts = {"contacts", "calendar"}
INVARIANTS FreshAfterSync NoLostUpdate SavedAsWritten
PROPERTIES EventuallyInStep Settles
