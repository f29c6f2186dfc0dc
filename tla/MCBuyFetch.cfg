\* One session: does the buyer get the keys the arbiter stored?
SPECIFICATION Spec
CONSTANTS
  s1 = s1
  s2 = s2
  b1 = b1
  b2 = b2
  k1 = k1
  k2 = k2
  a1 = a1
  a2 = a2
  NULL = NULL
  Garbage = Garbage
  NoKey = NoKey
  Sessions = {s1}
  Offers <- SameOffer
  StrayKeys <- NoKeys
  OneAtATime = TRUE
  FilesMayChange = FALSE
  MaxCoins = 1
  MaxDecrypted = 1
  MaxTime = 2
  TimeoutLength = 1
  Tolerance = 1
INVARIANT BuyerCanFetch
