SPECIFICATION Spec
CONSTANTS
  Sessions <- MCSessions
  Jobs <- MCJobs
  JobOf <- MCJobOf
  NameOrder <- MCNameOrder
  RSA_DRAWS = 64
  CHALLENGES = 7
CHECK_DEADLOCK FALSE
INVARIANTS
  TypeOK
  HonestIsAccepted
PROPERTIES
  AcceptedIsTrue
  SecretsStayPrivate
  CachedIsFresh
