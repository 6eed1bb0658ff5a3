SPECIFICATION FairSpec
CONSTANTS
  sender = alice
  active_address = alice
  recipient = bob
  max_attempts = 2
  MaxEpoch = 4
INVARIANTS
  CertificateIsRebuilt
  EachRetryFollowsAChange
PROPERTIES
  WriteEnds
  ImplementsPaidBlob
CHECK_DEADLOCK FALSE
