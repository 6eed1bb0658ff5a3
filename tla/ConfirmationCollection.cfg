SPECIFICATION FairSpec
CONSTANTS
  r1 = r1  r2 = r2  r3 = r3
  Requests <- MCRequests
  position <- MCPosition
  weight <- MCWeight
  committee_size = 3
  n_shards = 4
  max_confirmation_requests = 2
  Messages = {"expected", "other epoch"}
  expected_message = "expected"
INVARIANTS
  CertificateIsBacked
  BadSignaturesAreTolerated
  PermitsBalance
PROPERTY ImplementsFanout
CHECK_DEADLOCK FALSE
