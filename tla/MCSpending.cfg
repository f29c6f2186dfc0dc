\* Three coins in the wallet, two made; a group of order 5 with both orders of
\* the R values and all values of T's random exponent that matter.
SPECIFICATION SpendSpec
CONSTANTS
  WalletSize = 3
  Q = 5
  sk_u = 2
  s = 1
  t = 2
  RValues = {1, 3}
  Randoms = {1, 3}
  MaxCoins = 2
INVARIANTS VerdictIsRight BoundCoinsIdentify
PROPERTY SavedCoinsStayOut
