\* Two rounds of bartering with the arbiter. Wrong keys may be in escrow, the first
\* right one loses a byte there, and the responder may encrypt its file again.
SPECIFICATION LiveSpec
CONSTANTS
  a1 = a1
  b1 = b1
  NULL = NULL
  Garbage = Garbage
  NoKey = NoKey
  FilesA <- OneFileA
  FilesB <- OneFileB
  Deals = {"barter"}
  StrayKeys <- NoKeys
  MistakenKeys <- WrongKey
  Arbitration = TRUE
  FilesMayChange = TRUE
  MaxRounds = 2
  MaxCoins = 1
  MaxDecrypted = 2
  MaxTime = 3
  ShortKeys <- FirstKeyShort
  TimeoutLength = 1
  Tolerance = 1
CHECK_DEADLOCK FALSE
INVARIANT InTimeRequestAccepted
PROPERTIES KeysForKeys ResponderIsServed
