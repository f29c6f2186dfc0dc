\* A wrong key arrives, and the responder turns to the arbiter for the right one.
SPECIFICATION Spec
CONSTANTS
  a1 = a1
  b1 = b1
  NULL = NULL
  Garbage = Garbage
  NoKey = NoKey
  FilesA <- OneFileA
  FilesB <- OneFileB
  Deals = {"barter"}
  StrayKeys <- WrongKey
  MistakenKeys <- NoKeys
  Arbitration = TRUE
  FilesMayChange = FALSE
  MaxRounds = 1
  MaxCoins = 1
  MaxDecrypted = 2
  MaxTime = 2
  ShortKeys <- NoKeys
  TimeoutLength = 1
  Tolerance = 1
CHECK_DEADLOCK FALSE
PROPERTY NoDisputeOverRightKeys
