SPECIFICATION FairSpec
CONSTANTS
  n1 = n1  n2 = n2  n3 = n3
  Nodes <- MCNodes
  shards <- MCShards
  n_shards = 4
INVARIANTS
  CreditIsEarned
  NoPutOutlivesItsNode
  FailureHasACause
PROPERTY ImplementsFanout
CHECK_DEADLOCK FALSE
