------------------------------- MODULE Wallet -------------------------------
(***************************************************************************)
(* The wallet of one withdrawal (Wallet.h, Wallet.cpp): a vector           *)
(* spendOrder with the coin indices in a random order, and a counter       *)
(* numCoinsUsed of those already handed out.  The constructor's shuffle is *)
(* a phase of its own (`filled' is the loop variable); a wallet is used    *)
(* once it is over.                                                        *)
(***************************************************************************)
EXTENDS Integers, FiniteSets

CONSTANT WalletSize         \* walletSize, the number of coins withdrawn

ASSUME WalletSizeAssumption == WalletSize \in Nat \ {0}

VARIABLES spendOrder,       \* vector<int> spendOrder, indexed from 0
          filled,           \* i of the constructor's shuffle
          numCoinsUsed,     \* int numCoinsUsed
          outstanding,      \* history: coins returned by nextCoinIndex and
                            \* not put back by replaceCoin since
          answer            \* what the last call returned or threw

walletVars == <<spendOrder, filled, numCoinsUsed, outstanding, answer>>

Coins == 0 .. WalletSize - 1

\* Mutant: the loop of replaceCoin starts one entry too late.
UnspentFromNext == {spendOrder[i] : i \in numCoinsUsed + 1 .. WalletSize - 1}

\* The entries of spendOrder that the loop of replaceCoin looks through.
Unspent == {spendOrder[i] : i \in numCoinsUsed .. WalletSize - 1}

Init == /\ spendOrder = [i \in Coins |-> i]
        /\ filled = 0
        /\ numCoinsUsed = 0
        /\ outstanding = {}
        /\ answer = [op |-> "none"]

\* Mutant: an entry is copied rather than exchanged.
ShuffleCopies ==
  /\ filled < WalletSize
  /\ \E index \in Coins :
        spendOrder' = [spendOrder EXCEPT ![filled] = spendOrder[index]]
  /\ filled' = filled + 1
  /\ UNCHANGED <<numCoinsUsed, outstanding, answer>>

\* One iteration of the shuffle: entry `filled' changes places with any entry.
Shuffle ==
  /\ filled < WalletSize
  /\ \E index \in Coins :
        spendOrder' = [spendOrder EXCEPT ![filled] = spendOrder[index],
                                         ![index] = spendOrder[filled]]
  /\ filled' = filled + 1
  /\ UNCHANGED <<numCoinsUsed, outstanding, answer>>

Constructed == filled = WalletSize

NextCoinIndex ==
  /\ Constructed
  /\ numCoinsUsed < WalletSize
  /\ numCoinsUsed' = numCoinsUsed + 1
  /\ outstanding' = outstanding \cup {spendOrder[numCoinsUsed]}
  /\ answer' = [op |-> "next", coin |-> spendOrder[numCoinsUsed]]
  /\ UNCHANGED <<spendOrder, filled>>

\* The exception of nextCoinIndex.
NextCoinIndexThrows ==
  /\ Constructed
  /\ numCoinsUsed >= WalletSize
  /\ answer' = [op |-> "empty"]
  /\ UNCHANGED <<spendOrder, filled, numCoinsUsed, outstanding>>

\* replaceCoin when neither of its tests returns false.
ReplaceCoin(index) ==
  /\ Constructed
  /\ index \in Coins
  /\ index \notin Unspent
  /\ numCoinsUsed' = numCoinsUsed - 1
  /\ spendOrder' = [spendOrder EXCEPT ![numCoinsUsed - 1] = index]
  /\ outstanding' = outstanding \ {index}
  /\ answer' = [op |-> "replace", coin |-> index, done |-> TRUE]
  /\ UNCHANGED filled

ReplaceCoinRefused(index) ==
  /\ Constructed
  /\ index \notin Coins \/ index \in Unspent
  /\ answer' = [op |-> "replace", coin |-> index, done |-> FALSE]
  /\ UNCHANGED <<spendOrder, filled, numCoinsUsed, outstanding>>

\* The arguments of replaceCoin: one index out of range on each side stands
\* for all of them.
Requests == -1 .. WalletSize

Next == \/ Shuffle
        \/ NextCoinIndex
        \/ NextCoinIndexThrows
        \/ \E index \in Requests :
              ReplaceCoin(index) \/ ReplaceCoinRefused(index)

Spec == Init /\ [][Next]_walletVars
-----------------------------------------------------------------------------
\* Indices stay indices and the counter stays within the vector: nextCoinIndex
\* and the loop of replaceCoin never read outside spendOrder.
TypeOK == /\ spendOrder \in [Coins -> Coins]
          /\ filled \in 0 .. WalletSize
          /\ numCoinsUsed \in 0 .. WalletSize
          /\ outstanding \subseteq Coins

\* getNumCoinsLeft() and getRemainingValue() tell the truth: numCoinsUsed is
\* the number of coins out, and never leaves 0..walletSize although
\* replaceCoin decrements it without looking.
CounterIsExact == Cardinality(outstanding) = numCoinsUsed

\* The part of spendOrder still to be used lists every coin that is not out,
\* each once: no coin is lost or duplicated by any mix of nextCoinIndex and
\* replaceCoin, whatever stale entries replaceCoin leaves before the counter.
SuffixIsExact ==
  /\ Unspent = Coins \ outstanding
  /\ \A i, j \in numCoinsUsed .. WalletSize - 1 :
        spendOrder[i] = spendOrder[j] => i = j

\* A wallet implements the coin pool: nextCoinIndex returns only coins that
\* are not out and throws only when every coin is, replaceCoin takes back
\* exactly the coins that are out.
Pool == INSTANCE CoinPool
PoolSpec == Pool!PoolSpec
=============================================================================
