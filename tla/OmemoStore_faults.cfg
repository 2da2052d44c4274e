SPECIFICATION Spec
CONSTANTS
  Peer = {a}
  Device = {}
  None = None
  MaxChains = 2
  MaxSends = 2
  MaxQuits = 1
  MaxFaults = 1
  Faults = {"crash", "error", "qr"}
INVARIANTS
  ReuseOnlyOfUnsavedSends
  SessionsOfIdentity
