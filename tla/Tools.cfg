SPECIFICATION Spec
CONSTANTS
  MaxShards = 8
  MaxLength = 40
  BlobIds <- MCBlobIds
  Weight <- MCWeight
  NShards = 7
  Orders <- MCOrders
  StakingObjects <- MCStakingObjects
  PoolEntries <- MCPoolEntries
  MaxListed = 3
  MaxAmount = 7
  MaxBalance = 3
  MaxCoins = 3
  Custom = {"custom"}
  Groups = {"g"}
  Profiles = {"p", "q"}
  Relays = {"mine"}
  Paths = {"one", "two"}
  Added <- MCAdded
  Overrides <- MCOverrides
  RelayNetworks <- MCRelayNetworks
  MAX_NUM_SLIVERS_FOR_QUILT_INDEX = 2
  RS2_MAX_SYMBOL_SIZE = 20
INVARIANTS
  ThresholdsSuffice
  GeometryAgrees
  QuiltIsReadBack
  PlansMatchMove
  PaymentIsExact
  VerdictIsEarned
  EventsAreReadByLayout
  CommitteeIsWhole
PROPERTY SessionIsConsistent
