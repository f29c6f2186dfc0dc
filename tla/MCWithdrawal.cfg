\* Three withdrawals of different denominations at the same time, the last of a
\* size that the bank refuses; each may commit to its numbers anew before it
\* makes its request.
SPECIFICATION LiveSpec
CONSTANTS
  s1 = s1
  s2 = s2
  s3 = s3
  NULL = NULL
  Sessions = {s1, s2, s3}
  Size <- Sizes
  Denom <- Denoms
  Once = TRUE
  MaxDraws = 2
  MaxRequests = 1
CHECK_DEADLOCK FALSE
INVARIANTS WalletsAreGood RequestsAreAccepted OneWalletPerTool
PROPERTY WithdrawalEnds
