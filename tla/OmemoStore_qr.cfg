SPECIFICATION Spec
CONSTANTS
  Peer = {a}
  Device = {d}
  None = None
  MaxChains = 1
  MaxSends = 0
  MaxQuits = 0
  MaxFaults = 1
  Faults = {"qr"}
INVARIANTS
  IdentityKept
