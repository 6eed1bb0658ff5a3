SPECIFICATION CommandSpec
CONSTANTS
  Starts <- MCStarts
  OtherCalls <- MCOtherCalls
  MAX_OPS_PER_PTB = 2
  LastEpoch = 3
  MaxOthers = 1
INVARIANTS
  PreflightPredictsChain
  FalseReportsNeedEpochs
PROPERTY ActiveSpaceIsSpared
CHECK_DEADLOCK FALSE
