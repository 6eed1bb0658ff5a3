SPECIFICATION FairSpec
CONSTANTS
  n1 = n1  n2 = n2  n3 = n3
  Members <- MCMembers
  shard_indices <- MCShards
  n_shards = 4
  blob_id <- MCBlobId
  MaxFaulty = 2
INVARIANTS
  ReadIsOfBlobAsked
  OneBadNodeIsSurvived
PROPERTY ReadEnds
CHECK_DEADLOCK FALSE
