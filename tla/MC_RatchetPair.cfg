SPECIFICATION FairSpec
CONSTANTS
  MAX_FORWARD_JUMPS = 1
  Device = {Alice, Bob}
  None = None
  Alice = Alice
  Bob = Bob
  AliceSends = 5
  BobSends = 3
  Networks <- AllNetworks
INVARIANTS
  TypeOK
  NoKeyReuse
  KeyInv
  ReadOnce
  ReadKeysErased
  InOrderReadable
  RootsInStep
PROPERTIES
  SkippedKeysBounded
  EventuallyRead
CHECK_DEADLOCK FALSE
