\* Two rounds of buying or bartering without the arbiter.
SPECIFICATION Spec
CONSTANTS
  a1 = a1
  b1 = b1
  NULL = NULL
  Garbage = Garbage
  NoKey = NoKey
  FilesA <- OneFileA
  FilesB <- OneFileB
  Deals = {"buy", "barter"}
  StrayKeys <- NoKeys
  MistakenKeys <- NoKeys
  Arbitration = FALSE
  FilesMayChange = FALSE
  MaxRounds = 2
  MaxCoins = 1
  MaxDecrypted = 3
  MaxTime = 3
  ShortKeys <- NoKeys
  TimeoutLength = 1
  Tolerance = 1
CHECK_DEADLOCK FALSE
INVARIANTS TypeOK SameRound
PROPERTY IsFair
