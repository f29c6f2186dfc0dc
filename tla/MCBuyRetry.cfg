\* One session, tried again: two purchases, a wrong key, and a seller that
\* may encrypt the file again at any time.
SPECIFICATION Spec
CONSTANTS
  s1 = s1
  s2 = s2
  b1 = b1
  b2 = b2
  k1 = k1
  k2 = k2
  a1 = a1
  a2 = a2
  NULL = NULL
  Garbage = Garbage
  NoKey = NoKey
  Sessions = {s1}
  Offers <- TwoBlocks
  StrayKeys <- WrongKey
  OneAtATime = TRUE
  FilesMayChange = TRUE
  MaxCoins = 2
  MaxDecrypted = 4
  MaxTime = 4
  TimeoutLength = 1
  Tolerance = 1
INVARIANTS StoredInTime StoredKeysAreRight
PROPERTY IsFair
