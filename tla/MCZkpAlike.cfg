SPECIFICATION Spec
CONSTANTS
  Sessions <- MCSessions
  Jobs <- MCAlikeJobs
  JobOf <- MCAlike
  NameOrder <- MCNameOrder
  RSA_DRAWS = 64
  CHALLENGES = 7
CHECK_DEADLOCK FALSE
PROPERTY
  CachedIsFresh
