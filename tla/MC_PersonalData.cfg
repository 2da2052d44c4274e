SPECIFICATION FairDataSpec
CONSTANTS
  None = None
  Part = {"accounts", "mail", "filters"}
  Slot = {1, 2}
  Email = {e1, e2}
  Box = {inbox}
  MaxChanges = 2
  MaxFaults = 1
  Kinds <- TwoKinds
  Config = {g1, g2}
  MaxSaves = 2
  MaxStarts = 3
  MaxKeyringFaults = 1
  Name = {n1, n2}
  Script <- TwoScripts
  BlockLine = {"{"}
  MaxFilterChanges = 1
  MaxFilterFaults = 1
INVARIANTS FreshAfterSync DeletedStaysDeleted SecretsOfRows IntendedInUse FiltersAsStored
PROPERTIES EventuallyInStep
