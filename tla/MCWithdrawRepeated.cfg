\* A second withdrawal, of another denomination than the first
\* (testWithdrawRepeated).
SPECIFICATION Spec
CONSTANTS
  s1 = s1
  s2 = s2
  s3 = s3
  NULL = NULL
  Sessions = {s1, s2}
  Size <- Sizes
  Denom <- Denoms
  Once = TRUE
  MaxDraws = 1
  MaxRequests = 1
CHECK_DEADLOCK FALSE
INVARIANT OtherDenominationFails
