SPECIFICATION Spec
CONSTANTS
  Peer = {a, b}
  Device = {d}
  None = None
  MaxChains = 3
  MaxSends = 3
  MaxQuits = 2
  MaxFaults = 0
  Faults = {}
INVARIANTS
  IdentityKept
PROPERTIES
  ImplementsAtomicStore
