SPECIFICATION Spec
CONSTANTS
  sender = alice
  active_address = alice
  recipient = bob
  max_attempts = 2
  MaxEpoch = 4
INVARIANT RegisteredIsReceipted
CHECK_DEADLOCK FALSE
