SPECIFICATION Spec
CONSTANTS
  MAX_FORWARD_JUMPS = 1
  Device = {Alice, Bob}
  None = None
  Alice = Alice
  Bob = Bob
  AliceSends = 3
  BobSends = 1
  Networks <- LateNetwork
INVARIANT LateMessageReadable
CHECK_DEADLOCK FALSE
