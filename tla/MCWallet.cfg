\* Four coins: every spend order, and every mix of nextCoinIndex, replaceCoin.
SPECIFICATION Spec
CONSTANT WalletSize = 4
INVARIANTS TypeOK CounterIsExact SuffixIsExact
PROPERTY PoolSpec
