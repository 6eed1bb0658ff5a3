SPECIFICATION FairSpec
CONSTANTS
  Kinds <- MCKinds
  encoded_length <- MCEncodedLength
  max_tip = 3
  max_upload_attempts = 3
  weight <- MCWeight
  committee_size = 3
  n_shards = 4
  Payloads <- MCPayloads
  MaxEpoch = 3
INVARIANTS
  PaysWhatWasShown
  TokensMatchPayment
  PaidIsReceipted
  Tx2IsWorthItsGas
PROPERTIES
  RelayWriteEnds
  ImplementsPaidBlob
CHECK_DEADLOCK FALSE
