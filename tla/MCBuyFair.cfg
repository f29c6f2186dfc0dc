\* Two sessions over one ciphertext, resolved one at a time, with fairness for sellers and arbiter.
SPECIFICATION LiveSpec
CONSTANTS
  s1 = s1
  s2 = s2
  b1 = b1
  b2 = b2
  k1 = k1
  k2 = k2
  a1 = a1
  a2 = a2
  NULL = NULL
  Garbage = Garbage
  NoKey = NoKey
  Sessions = {s1, s2}
  Offers <- SameOffer
  StrayKeys <- NoKeys
  OneAtATime = TRUE
  FilesMayChange = FALSE
  MaxCoins = 1
  MaxDecrypted = 1
  MaxTime = 3
  TimeoutLength = 1
  Tolerance = 1
INVARIANTS TypeOK AnswerIsOurs CoinSoldOnce
PROPERTIES IsFair SellerIsPaid
