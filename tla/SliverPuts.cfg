SPECIFICATION FairPuts
CONSTANTS
  a = a  b = b
  Arguments <- MCArguments
  primary_size = 3
  secondary_size = 2
  max_node_connections = 2
  max_concurrent_writes = 5
INVARIANTS
  GatesBalance
  BytesNeverBlock
PROPERTY EveryPutEnds
CHECK_DEADLOCK FALSE
