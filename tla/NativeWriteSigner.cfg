SPECIFICATION Spec
CONSTANTS
  sender = alice
  active_address = carol
  recipient = bob
  max_attempts = 2
  MaxEpoch = 4
INVARIANT Tx2SignedByOwner
CHECK_DEADLOCK FALSE
