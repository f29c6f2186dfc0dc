\* As MCSpending.cfg, for the promise that every double spender is identified.
SPECIFICATION SpendSpec
CONSTANTS
  WalletSize = 3
  Q = 5
  sk_u = 2
  s = 1
  t = 2
  RValues = {1, 3}
  Randoms = {1, 3}
  MaxCoins = 2
INVARIANT DoubleSpenderIdentified
