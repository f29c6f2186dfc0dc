--------------------------- MODULE SpendingProofs ---------------------------
(***************************************************************************)
(* Proofs about Wallet.tla and Spending.tla, for a wallet of any size and  *)
(* an e-cash group of any prime order: the wallet implements the coin      *)
(* pool, what restarts leave of that, and what the bank finds out from two *)
(* coins.                                                                  *)
(***************************************************************************)
EXTENDS Spending, FiniteSetTheorems, LoopProofs

-----------------------------------------------------------------------------
(* The wallet.  The inductive invariant says that the entries of           *)
(* spendOrder from numCoinsUsed on list exactly the coins that are not     *)
(* out, each once, and that numCoinsUsed counts the coins that are out.    *)
(* The counter is needed for replaceCoin: it decrements numCoinsUsed       *)
(* without a test, and only the count tells that some coin is out, hence   *)
(* that the counter is not 0.                                              *)

IInv == /\ TypeOK
        /\ CounterIsExact
        /\ SuffixIsExact
        /\ Constructed \/ numCoinsUsed = 0

\* The set of coins is finite, and so is every set of coins that is out.
LEMMA CoinsFinite ==
  ASSUME NEW S \in SUBSET Coins
  PROVE  IsFiniteSet(S) /\ Cardinality(S) \in Nat
<1>1. WalletSize - 1 \in Int
  BY WalletSizeAssumption
<1>2. IsFiniteSet(Coins)
  BY <1>1, FS_Interval DEF Coins
<1>. QED
  BY <1>2, FS_Subset, FS_CardinalityType

\* A new wallet satisfies the invariant.
LEMMA InitIInv == Init => IInv
<1>. SUFFICES ASSUME Init PROVE IInv
  OBVIOUS
<1>1. TypeOK
  BY WalletSizeAssumption DEF Init, TypeOK, Coins
<1>2. CounterIsExact
  BY FS_EmptySet DEF Init, CounterIsExact
<1>3. SuffixIsExact
  BY WalletSizeAssumption DEF Init, SuffixIsExact, Unspent, Coins
<1>. QED
  BY <1>1, <1>2, <1>3 DEF Init, IInv

\* Two entries that change places leave the listed coins as they were.
LEMMA ShuffleIInv ==
  ASSUME IInv, Shuffle
  PROVE  IInv'
<1>. USE WalletSizeAssumption
<1>1. PICK index \in Coins :
        spendOrder' = [spendOrder EXCEPT ![filled] = spendOrder[index],
                                         ![index] = spendOrder[filled]]
  BY DEF Shuffle
<1>2. /\ numCoinsUsed = 0 /\ numCoinsUsed' = 0
      /\ filled \in Coins /\ filled' \in 0 .. WalletSize
      /\ outstanding' = outstanding
  BY DEF IInv, TypeOK, Constructed, Shuffle, Coins
<1>3. TypeOK'
  BY <1>1, <1>2 DEF IInv, TypeOK
<1>4. \A i \in Coins : spendOrder'[i] = IF i = index THEN spendOrder[filled]
                                        ELSE IF i = filled THEN spendOrder[index]
                                        ELSE spendOrder[i]
  BY <1>1, <1>2 DEF IInv, TypeOK
<1>5. Coins = numCoinsUsed .. WalletSize - 1 /\ Coins' = Coins
  BY <1>2 DEF Coins
<1>6. Unspent' = Unspent
  <2>1. Unspent = {spendOrder[i] : i \in Coins}
    BY <1>5 DEF Unspent
  <2>2. Unspent' = {spendOrder'[i] : i \in Coins}
    BY <1>2, <1>5 DEF Unspent
  <2>3. ASSUME NEW i \in Coins
        PROVE  spendOrder'[i] \in Unspent /\ spendOrder[i] \in Unspent'
    BY <1>2, <1>4, <2>1, <2>2
  <2>. QED
    BY <2>1, <2>2, <2>3
<1>7. ASSUME NEW i \in Coins, NEW j \in Coins, spendOrder'[i] = spendOrder'[j]
      PROVE  i = j
  BY <1>2, <1>4, <1>5, <1>7 DEF IInv, SuffixIsExact
<1>8. SuffixIsExact'
  BY <1>2, <1>5, <1>6, <1>7 DEF IInv, SuffixIsExact
<1>9. CounterIsExact'
  BY <1>2 DEF IInv, CounterIsExact
<1>. QED
  BY <1>2, <1>3, <1>8, <1>9 DEF IInv

\* The coin handed out was not out, and leaves the unspent part.
LEMMA NextCoinIndexIInv ==
  ASSUME IInv, NextCoinIndex
  PROVE  /\ spendOrder[numCoinsUsed] \in Coins \ outstanding
         /\ IInv'
<1>. USE WalletSizeAssumption
<1>. DEFINE coin == spendOrder[numCoinsUsed]
<1>1. /\ numCoinsUsed \in Coins /\ numCoinsUsed' = numCoinsUsed + 1
      /\ spendOrder' = spendOrder /\ filled' = filled
      /\ outstanding' = outstanding \cup {coin}
  BY DEF IInv, TypeOK, NextCoinIndex, Coins
<1>2. coin \in Unspent
  BY <1>1 DEF Unspent, Coins
<1>3. coin \in Coins \ outstanding
  BY <1>2 DEF IInv, SuffixIsExact
<1>4. TypeOK'
  <2>1. numCoinsUsed' \in 0 .. WalletSize
    BY <1>1 DEF Coins
  <2>. QED
    BY <1>1, <1>3, <2>1 DEF IInv, TypeOK
<1>5. CounterIsExact'
  <2>1. IsFiniteSet(outstanding)
    BY CoinsFinite DEF IInv, TypeOK
  <2>. QED
    BY <1>1, <1>3, <2>1, FS_AddElement DEF IInv, CounterIsExact
<1>6. SuffixIsExact'
  <2>1. (numCoinsUsed .. WalletSize - 1)' \subseteq numCoinsUsed .. WalletSize - 1
    BY <1>1 DEF Coins
  <2>2. \A i \in numCoinsUsed .. WalletSize - 1 :
           i = numCoinsUsed \/ i \in (numCoinsUsed .. WalletSize - 1)'
    BY <1>1 DEF Coins
  <2>3. numCoinsUsed \notin (numCoinsUsed .. WalletSize - 1)'
    BY <1>1 DEF Coins
  <2>4. numCoinsUsed \in numCoinsUsed .. WalletSize - 1
    BY <1>1 DEF Coins
  <2>5. \A i, j \in numCoinsUsed .. WalletSize - 1 :
           spendOrder[i] = spendOrder[j] => i = j
    BY DEF IInv, SuffixIsExact
  <2>6. Unspent' = Unspent \ {coin}
    BY <1>1, <2>1, <2>2, <2>3, <2>4, <2>5 DEF Unspent
  <2>. QED
    BY <1>1, <2>1, <2>5, <2>6 DEF IInv, SuffixIsExact, Coins
<1>. QED
  BY <1>1, <1>3, <1>4, <1>5, <1>6 DEF IInv, Constructed, NextCoinIndex

\* replaceCoin finds the coin among those that are out, so the counter it
\* decrements is positive.
LEMMA ReplaceCoinIInv ==
  ASSUME IInv, NEW index \in Requests, ReplaceCoin(index)
  PROVE  index \in outstanding /\ IInv'
<1>. USE WalletSizeAssumption
<1>1. index \in outstanding /\ index \in Coins /\ index \notin Unspent
  BY DEF IInv, SuffixIsExact, ReplaceCoin
<1>2. IsFiniteSet(outstanding) /\ Cardinality(outstanding) \in Nat
  BY CoinsFinite DEF IInv, TypeOK
<1>3. numCoinsUsed \in 1 .. WalletSize
  BY <1>1, <1>2, FS_EmptySet DEF IInv, TypeOK, CounterIsExact
<1>4. /\ numCoinsUsed' = numCoinsUsed - 1 /\ filled' = filled
      /\ spendOrder' = [spendOrder EXCEPT ![numCoinsUsed - 1] = index]
      /\ outstanding' = outstanding \ {index}
  BY DEF ReplaceCoin
<1>5. TypeOK'
  <2>1. numCoinsUsed' \in 0 .. WalletSize
    BY <1>3, <1>4
  <2>. QED
    BY <1>1, <1>4, <2>1 DEF IInv, TypeOK
<1>6. CounterIsExact'
  BY <1>1, <1>2, <1>3, <1>4, FS_RemoveElement DEF IInv, CounterIsExact
<1>7. SuffixIsExact'
  <2>. DEFINE Old == numCoinsUsed .. WalletSize - 1
  <2>1. (numCoinsUsed .. WalletSize - 1)' = Old \cup {numCoinsUsed - 1}
    BY <1>3, <1>4
  <2>2. numCoinsUsed - 1 \notin Old
    BY <1>3
  <2>3. /\ spendOrder'[numCoinsUsed - 1] = index
        /\ \A i \in Old : spendOrder'[i] = spendOrder[i]
    BY <1>3, <1>4, <2>2 DEF IInv, TypeOK, Coins
  <2>4. Unspent = {spendOrder[i] : i \in Old}
    BY DEF Unspent
  <2>5. Unspent' = {spendOrder'[i] : i \in Old \cup {numCoinsUsed - 1}}
    BY <2>1 DEF Unspent
  <2>6. Unspent' = Unspent \cup {index}
    BY <2>3, <2>4, <2>5
  <2>7. ASSUME NEW i \in Old \cup {numCoinsUsed - 1},
               NEW j \in Old \cup {numCoinsUsed - 1},
               spendOrder'[i] = spendOrder'[j]
        PROVE  i = j
    BY <1>1, <2>3, <2>4, <2>7 DEF IInv, SuffixIsExact
  <2>8. Unspent' = Coins \ outstanding'
    BY <1>1, <1>4, <2>6 DEF IInv, SuffixIsExact
  <2>. QED
    BY <2>1, <2>7, <2>8 DEF SuffixIsExact, Coins
<1>. QED
  BY <1>1, <1>4, <1>5, <1>6, <1>7 DEF IInv, Constructed, ReplaceCoin

\* Every step of the wallet, and every stuttering step, keeps the invariant.
LEMMA NextIInv == IInv /\ [Next]_walletVars => IInv'
<1>. SUFFICES ASSUME IInv, [Next]_walletVars PROVE IInv'
  OBVIOUS
<1>. USE DEF IInv, TypeOK, CounterIsExact, SuffixIsExact, Unspent,
             Constructed, Coins
<1>1. CASE Shuffle
  BY <1>1, ShuffleIInv
<1>2. CASE NextCoinIndex
  BY <1>2, NextCoinIndexIInv
<1>3. CASE NextCoinIndexThrows
  BY <1>3 DEF NextCoinIndexThrows
<1>4. ASSUME NEW index \in Requests, ReplaceCoin(index) PROVE IInv'
  BY <1>4, ReplaceCoinIInv
<1>5. ASSUME NEW index \in Requests, ReplaceCoinRefused(index) PROVE IInv'
  BY <1>5 DEF ReplaceCoinRefused
<1>6. CASE UNCHANGED walletVars
  BY <1>6 DEF walletVars
<1>. QED
  BY <1>1, <1>2, <1>3, <1>4, <1>5, <1>6 DEF Next

\* The inductive invariant holds in every reachable state.
THEOREM Inductive == Spec => []IInv
<1>. QED
  BY InitIInv, NextIInv, PTL DEF Spec

\* Every variable of the wallet keeps its type: numCoinsUsed never leaves
\* 0..walletSize and every index into spendOrder is in range.
THEOREM TypeCorrect == Spec => []TypeOK
<1>1. IInv => TypeOK
  BY DEF IInv
<1>. QED
  BY <1>1, Inductive, PTL

\* numCoinsUsed is the number of coins that are out (getNumCoinsLeft,
\* getRemainingValue and empty are right about the wallet).
THEOREM CounterCorrect == Spec => []CounterIsExact
<1>1. IInv => CounterIsExact
  BY DEF IInv
<1>. QED
  BY <1>1, Inductive, PTL

\* The unspent part of spendOrder lists exactly the coins not out, each once.
THEOREM SuffixCorrect == Spec => []SuffixIsExact
<1>1. IInv => SuffixIsExact
  BY DEF IInv
<1>. QED
  BY <1>1, Inductive, PTL

\* Every step of the wallet is one of the coin pool, or leaves its variables
\* alone: the shuffle does.
LEMMA StepRefines == IInv /\ [Next]_walletVars => [Pool!PoolNext]_(Pool!poolVars)
<1>. SUFFICES ASSUME IInv, [Next]_walletVars
              PROVE  Pool!PoolNext \/ UNCHANGED Pool!poolVars
  BY DEF Pool!poolVars
<1>. USE WalletSizeAssumption
<1>1. CASE Shuffle
  BY <1>1 DEF Shuffle, Pool!poolVars
<1>2. CASE NextCoinIndex
  <2>1. spendOrder[numCoinsUsed] \in Coins \ outstanding
    BY <1>2, NextCoinIndexIInv
  <2>2. Pool!HandOut
    BY <1>2, <2>1 DEF NextCoinIndex, Pool!HandOut
  <2>. QED
    BY <2>2 DEF Pool!PoolNext
<1>3. CASE NextCoinIndexThrows
  <2>1. Unspent = {}
    BY <1>3 DEF IInv, TypeOK, NextCoinIndexThrows, Unspent
  <2>2. outstanding = Coins
    BY <2>1 DEF IInv, TypeOK, SuffixIsExact
  <2>3. Pool!Refuse
    BY <1>3, <2>2 DEF NextCoinIndexThrows, Pool!Refuse
  <2>. QED
    BY <2>3 DEF Pool!PoolNext
<1>4. ASSUME NEW index \in Requests, ReplaceCoin(index) PROVE Pool!PoolNext
  <2>1. index \in outstanding
    BY <1>4, ReplaceCoinIInv
  <2>2. Pool!PutBack
    BY <1>4, <2>1 DEF ReplaceCoin, Pool!PutBack
  <2>. QED
    BY <2>2 DEF Pool!PoolNext
<1>5. ASSUME NEW index \in Requests, ReplaceCoinRefused(index)
      PROVE  Pool!PoolNext
  <2>1. index \notin outstanding
    BY <1>5 DEF IInv, TypeOK, SuffixIsExact, ReplaceCoinRefused
  <2>2. Pool!RefusePutBack
    BY <1>5, <2>1 DEF ReplaceCoinRefused, Pool!RefusePutBack
  <2>. QED
    BY <2>2 DEF Pool!PoolNext
<1>6. CASE UNCHANGED walletVars
  BY <1>6 DEF walletVars, Pool!poolVars
<1>. QED
  BY <1>1, <1>2, <1>3, <1>4, <1>5, <1>6 DEF Next

\* The wallet implements the coin pool: whatever the shuffle and whatever the
\* calls, no coin is returned twice without having been put back in between,
\* and the wallet throws only when every coin is out.
THEOREM ImplementsPool == Spec => PoolSpec
<1>1. Init => Pool!PoolInit
  BY DEF Init, Pool!PoolInit
<1>. QED
  BY <1>1, StepRefines, Inductive, PTL DEF Spec, PoolSpec, Pool!PoolSpec

-----------------------------------------------------------------------------
(* Spending, restarts and double spending.                                 *)

\* The entries that a wallet with this order and counter has still to hand out
\* are coins, each listed once, and none of them is in out.
Spendable(order, used, out) ==
  /\ order \in [Coins -> Coins]
  /\ used \in 0 .. WalletSize
  /\ \A i \in used .. WalletSize - 1 : order[i] \notin out
  /\ \A i, j \in used .. WalletSize - 1 : order[i] = order[j] => i = j

\* A wallet that was loaded may count as used a coin that was put back after it
\* was saved: CounterIsExact and SuffixIsExact are lost, and this stays.
PoolInv ==
  /\ filled \in 0 .. WalletSize
  /\ Constructed \/ numCoinsUsed = 0
  /\ Spendable(spendOrder, numCoinsUsed, outstanding)
  /\ file = [spendOrder |-> file.spendOrder, numCoinsUsed |-> file.numCoinsUsed]
  /\ Spendable(file.spendOrder, file.numCoinsUsed, savedOut)
  /\ savedOut \subseteq outstanding
  /\ ~Constructed => outstanding = {}

\* Every coin is one that the constructor makes of an index of the wallet.
MadeByWallet ==
  \A c \in coins : \E J \in Coins, rValue \in RValues, x1, x2, r \in Randoms :
     c = NewCoin(J, rValue, x1, x2, r)
-----------------------------------------------------------------------------
(* The pool.                                                               *)

\* A counter of 0 means that every coin is listed: its entries are distinct.
LEMMA AllUnspent ==
  ASSUME NEW order \in [Coins -> Coins],
         \A i, j \in Coins : order[i] = order[j] => i = j, NEW J \in Coins
  PROVE  \E i \in Coins : order[i] = J
<1>1. order \in Injection(Coins, Coins)
  BY DEF Injection, IsInjective
<1>2. IsFiniteSet(Coins)
  BY CoinsFinite
<1>3. order \in Surjection(Coins, Coins)
  BY <1>1, <1>2, FS_Injection
<1>. QED
  BY <1>3 DEF Surjection

\* A new wallet and its file.
LEMMA InitPool == SpendInit => PoolInv
<1>. SUFFICES ASSUME SpendInit PROVE PoolInv
  OBVIOUS
<1>1. /\ spendOrder = [i \in Coins |-> i] /\ filled = 0 /\ numCoinsUsed = 0
      /\ outstanding = {} /\ savedOut = {} /\ file = OnDisk
  BY DEF SpendInit, Init
<1>2. Spendable(spendOrder, numCoinsUsed, outstanding)
  BY <1>1, WalletSizeAssumption DEF Spendable, Coins
<1>3. /\ file = [spendOrder |-> file.spendOrder, numCoinsUsed |-> file.numCoinsUsed]
      /\ file.spendOrder = spendOrder /\ file.numCoinsUsed = numCoinsUsed
  BY <1>1 DEF OnDisk
<1>. QED
  BY <1>1, <1>2, <1>3, WalletSizeAssumption DEF PoolInv

\* Two entries that change places stay distinct.
LEMMA ConstructPool ==
  ASSUME PoolInv, Construct
  PROVE  PoolInv'
<1>. USE WalletSizeAssumption
<1>1. PICK index \in Coins :
        spendOrder' = [spendOrder EXCEPT ![filled] = spendOrder[index],
                                         ![index] = spendOrder[filled]]
  BY DEF Construct, Shuffle
<1>2. /\ numCoinsUsed = 0 /\ numCoinsUsed' = 0
      /\ filled \in Coins /\ filled' \in 0 .. WalletSize
      /\ outstanding = {} /\ outstanding' = {} /\ savedOut' = {}
      /\ file' = OnDisk'
  BY DEF PoolInv, Constructed, Construct, Shuffle, Coins
<1>3. 0 .. WalletSize - 1 = Coins
  BY DEF Coins
<1>4. /\ spendOrder \in [Coins -> Coins]
      /\ \A i, j \in Coins : spendOrder[i] = spendOrder[j] => i = j
  BY <1>2, <1>3 DEF PoolInv, Spendable
<1>5. spendOrder' \in [Coins -> Coins]
  BY <1>1, <1>2, <1>4
<1>6. \A i, j \in Coins : spendOrder'[i] = spendOrder'[j] => i = j
  BY <1>1, <1>2, <1>4
<1>7. Spendable(spendOrder', 0, {})
  BY <1>3, <1>5, <1>6 DEF Spendable
<1>8. /\ file' = [spendOrder |-> (file').spendOrder, numCoinsUsed |-> (file').numCoinsUsed]
      /\ (file').spendOrder = spendOrder' /\ (file').numCoinsUsed = 0
  BY <1>2 DEF OnDisk
<1>. QED
  BY <1>2, <1>7, <1>8 DEF PoolInv

\* The next coin is not out, and is listed no more.
LEMMA NextCoinPool ==
  ASSUME PoolInv, NEW rValue, NextCoin(rValue)
  PROVE  PoolInv' /\ answer'.coin \notin outstanding
<1>. USE WalletSizeAssumption
<1>1. /\ Constructed /\ numCoinsUsed < WalletSize
      /\ numCoinsUsed' = numCoinsUsed + 1
      /\ outstanding' = outstanding \cup {spendOrder[numCoinsUsed]}
      /\ answer' = [op |-> "next", coin |-> spendOrder[numCoinsUsed]]
      /\ UNCHANGED <<spendOrder, filled, file, savedOut>>
  BY DEF NextCoin, NextCoinIndex
<1>2. numCoinsUsed \in 0 .. WalletSize /\ numCoinsUsed \in numCoinsUsed .. WalletSize - 1
  BY <1>1 DEF PoolInv, Spendable
<1>3. spendOrder[numCoinsUsed] \notin outstanding
  BY <1>2 DEF PoolInv, Spendable
<1>4. /\ numCoinsUsed' \in 0 .. WalletSize
      /\ \A i \in numCoinsUsed' .. WalletSize - 1 :
            i \in numCoinsUsed .. WalletSize - 1 /\ i # numCoinsUsed
  BY <1>1, <1>2
<1>5. Spendable(spendOrder, numCoinsUsed', outstanding')
  BY <1>1, <1>2, <1>4 DEF PoolInv, Spendable
<1>. QED
  BY <1>1, <1>3, <1>5 DEF PoolInv, Constructed

\* replaceCoin finds no coin to take back when every coin is listed, so the
\* counter it decrements is positive, loaded or not.
LEMMA PutBackPool ==
  ASSUME PoolInv, NEW index, PutBack(index)
  PROVE  PoolInv'
<1>. USE WalletSizeAssumption
<1>1. /\ Constructed /\ index \in Coins /\ index \notin Unspent
      /\ numCoinsUsed' = numCoinsUsed - 1
      /\ spendOrder' = [spendOrder EXCEPT ![numCoinsUsed - 1] = index]
      /\ outstanding' = outstanding \ {index}
      /\ savedOut' = savedOut \ {index}
      /\ UNCHANGED <<filled, file>>
  BY DEF PutBack, ReplaceCoin
<1>2. Spendable(spendOrder, numCoinsUsed, outstanding)
  BY DEF PoolInv
<1>3. numCoinsUsed # 0
  <2>. SUFFICES ASSUME numCoinsUsed = 0 PROVE FALSE
    OBVIOUS
  <2>1. Coins = numCoinsUsed .. WalletSize - 1
    BY DEF Coins
  <2>2. /\ spendOrder \in [Coins -> Coins]
        /\ \A i, j \in Coins : spendOrder[i] = spendOrder[j] => i = j
    BY <1>2, <2>1 DEF Spendable
  <2>3. \E i \in Coins : spendOrder[i] = index
    BY <1>1, <2>2, AllUnspent
  <2>. QED
    BY <1>1, <2>1, <2>3 DEF Unspent
<1>4. /\ numCoinsUsed - 1 \in Coins /\ numCoinsUsed - 1 \in 0 .. WalletSize
      /\ \A i \in numCoinsUsed - 1 .. WalletSize - 1 :
            i \in Coins /\ (i = numCoinsUsed - 1 \/ i \in numCoinsUsed .. WalletSize - 1)
  BY <1>2, <1>3 DEF Spendable, Coins
<1>5. \A i \in numCoinsUsed .. WalletSize - 1 : spendOrder[i] # index
  BY <1>1 DEF Unspent
<1>6. /\ spendOrder' \in [Coins -> Coins]
      /\ spendOrder'[numCoinsUsed - 1] = index
      /\ \A i \in Coins \ {numCoinsUsed - 1} : spendOrder'[i] = spendOrder[i]
  BY <1>1, <1>2, <1>4 DEF Spendable
<1>7. Spendable(spendOrder', numCoinsUsed', outstanding')
  BY <1>1, <1>2, <1>4, <1>5, <1>6 DEF Spendable
<1>8. Spendable((file').spendOrder, (file').numCoinsUsed, savedOut')
  BY <1>1 DEF PoolInv, Spendable
<1>. QED
  BY <1>1, <1>7, <1>8 DEF PoolInv, Constructed

\* The file holds what the wallet holds, and the wallet what its file held.
LEMMA FilePool ==
  ASSUME PoolInv, SaveFile \/ LoadFile
  PROVE  PoolInv'
<1>1. CASE SaveFile
  <2>1. UNCHANGED walletVars /\ savedOut' = outstanding /\ file' = OnDisk
    BY <1>1 DEF SaveFile
  <2>2. /\ file' = [spendOrder |-> (file').spendOrder, numCoinsUsed |-> (file').numCoinsUsed]
        /\ (file').spendOrder = spendOrder /\ (file').numCoinsUsed = numCoinsUsed
    BY <2>1 DEF OnDisk
  <2>. QED
    BY <2>1, <2>2 DEF PoolInv, walletVars, Constructed
<1>2. CASE LoadFile
  BY <1>2 DEF LoadFile, PoolInv, Constructed
<1>. QED
  BY <1>1, <1>2

\* Every step keeps the pool, and hands out only what is not out.
LEMMA NextPool ==
  ASSUME PoolInv, [SpendNext]_vars
  PROVE  PoolInv'
<1>1. CASE UNCHANGED vars
  BY <1>1 DEF vars, walletVars, PoolInv, Spendable, Constructed
<1>. QED
  BY <1>1, ConstructPool, NextCoinPool, PutBackPool, FilePool DEF SpendNext

\* A coin that was out when the wallet was written to its file is not handed out
\* again, however often the wallet is loaded, unless replaceCoin took it back.
THEOREM SavedCoinsAreNotReissued == SpendSpec => SavedCoinsStayOut
<1>1. PoolInv /\ [SpendNext]_vars
        => [\A rValue \in RValues : NextCoin(rValue) => answer'.coin \notin savedOut]_vars
  <2>. SUFFICES ASSUME PoolInv, NEW rValue \in RValues, NextCoin(rValue)
                PROVE  answer'.coin \notin savedOut
    OBVIOUS
  <2>. QED
    BY NextCoinPool DEF PoolInv
<1>. QED
  BY <1>1, InitPool, NextPool, PTL DEF SpendSpec, SavedCoinsStayOut
-----------------------------------------------------------------------------
(* Arithmetic modulo Q.                                                    *)

\* Division with a remainder, and that there is one remainder only.
LEMMA Division ==
  ASSUME NEW n \in Nat \ {0}, NEW x \in Int
  PROVE  /\ x = n * (x \div n) + (x % n)
         /\ x % n \in 0 .. n - 1 /\ x \div n \in Int
OBVIOUS

LEMMA OneRemainder ==
  ASSUME NEW n \in Nat \ {0}, NEW x \in Int, NEW q \in Int, NEW r \in 0 .. n - 1,
         x = n * q + r
  PROVE  x % n = r
OBVIOUS

\* Numbers are equal modulo n when they differ by a multiple of n.
LEMMA ShiftedRemainder ==
  ASSUME NEW n \in Nat \ {0}, NEW x \in Int, NEW y \in Int, NEW k \in Int,
         x = y + n * k
  PROVE  x % n = y % n
<1>. DEFINE q == y \div n
            r == y % n
<1>1. y = n * q + r /\ r \in 0 .. n - 1 /\ q \in Int
  BY Division
<1>. HIDE DEF q, r
<1>2. x = n * (q + k) + r /\ q + k \in Int
  BY <1>1
<1>3. x % n = r
  BY <1>1, <1>2, OneRemainder
<1>. QED
  BY <1>3 DEF r

\* The code takes remainders of intermediate results; it need not.
LEMMA RemainderOfProduct ==
  ASSUME NEW n \in Nat \ {0}, NEW x \in Int, NEW y \in Int
  PROVE  ((x % n) * y) % n = (x * y) % n
<1>. DEFINE q == x \div n
            r == x % n
<1>1. x = n * q + r /\ r \in Int /\ q \in Int
  BY Division
<1>. HIDE DEF q, r
<1>2. /\ x * y = r * y + n * (q * y)
      /\ x * y \in Int /\ r * y \in Int /\ q * y \in Int
  BY <1>1
<1>3. (x * y) % n = (r * y) % n
  BY <1>2, ShiftedRemainder
<1>. QED
  BY <1>3 DEF r

LEMMA RemainderOfSum ==
  ASSUME NEW n \in Nat \ {0}, NEW x \in Int, NEW y \in Int
  PROVE  ((x % n) + y) % n = (x + y) % n
<1>. DEFINE q == x \div n
            r == x % n
<1>1. x = n * q + r /\ r \in Int /\ q \in Int
  BY Division
<1>. HIDE DEF q, r
<1>2. x + y = (r + y) + n * q /\ x + y \in Int /\ r + y \in Int
  BY <1>1
<1>3. (x + y) % n = (r + y) % n
  BY <1>1, <1>2, ShiftedRemainder
<1>. QED
  BY <1>3 DEF r

\* What was added before the remainder was taken can be taken back.
LEMMA TakenBack ==
  ASSUME NEW n \in Nat \ {0}, NEW x \in Int, NEW y \in Int
  PROVE  (((x + y) % n) - y) % n = x % n
<1>. DEFINE z == x + y
            minus == 0 - y
<1>1. z \in Int /\ minus \in Int /\ z + minus = x
  OBVIOUS
<1>2. z % n \in Int /\ (z % n) - y = (z % n) + minus
  BY <1>1, Division
<1>. HIDE DEF z, minus
<1>3. ((z % n) + minus) % n = (z + minus) % n
  BY <1>1, RemainderOfSum
<1>. QED
  BY <1>1, <1>2, <1>3 DEF z

LEMMA Small ==
  ASSUME NEW n \in Nat \ {0}, NEW x \in 0 .. n - 1
  PROVE  x % n = x
OBVIOUS

\* Modulo a prime every number but 0 has an inverse.
LEMMA InverseExists ==
  ASSUME NEW a \in 1 .. Q - 1
  PROVE  \E b \in 0 .. Q - 1 : (a * b) % Q = 1
<1>1. Q \in Nat \ {0, 1} /\ \A d \in 2 .. Q - 1 : Q % d # 0
  BY SpendingAssumption
<1>2. Q \in Nat /\ Q > 1 /\ Q \in Nat \ {0} /\ a \in Nat /\ a % Q = a /\ a % Q # 0
  BY <1>1, Small
<1>3. PICK k \in Nat : (a * k) % Q = 1
  BY <1>1, <1>2, InverseModPrime
<1>4. k \in Int /\ a \in Int /\ k % Q \in 0 .. Q - 1
  BY <1>2
<1>5. (a * (k % Q)) % Q = 1
  <2>1. ((k % Q) * a) % Q = (k * a) % Q
    BY <1>2, <1>4, RemainderOfProduct
  <2>2. k * a = a * k /\ (k % Q) * a = a * (k % Q)
    BY <1>4
  <2>. QED
    BY <1>3, <2>1, <2>2
<1>. QED
  BY <1>4, <1>5

\* InvMod is the inverse.
LEMMA InvModInverts ==
  ASSUME NEW a \in 1 .. Q - 1
  PROVE  InvMod(a) \in 0 .. Q - 1 /\ (a * InvMod(a)) % Q = 1
BY InverseExists DEF InvMod

\* Different numbers have different inverses.
LEMMA InvModInjective ==
  ASSUME NEW a \in 1 .. Q - 1, NEW b \in 1 .. Q - 1, InvMod(a) = InvMod(b)
  PROVE  a = b
<1>. DEFINE v == InvMod(a)
<1>1. v \in 0 .. Q - 1 /\ (a * v) % Q = 1 /\ (b * v) % Q = 1
  BY InvModInverts
<1>. HIDE DEF v
<1>2. Q \in Nat \ {0, 1} /\ a \in Int /\ b \in Int /\ v \in Int
  BY <1>1, SpendingAssumption
<1>3. a * v \in Int /\ b * v \in Int
  BY <1>2
<1>4. ((a * v) * b) % Q = b
  <2>1. ((a * v) * b) % Q = (1 * b) % Q
    BY <1>1, <1>2, <1>3, RemainderOfProduct
  <2>2. 1 * b = b /\ b % Q = b
    BY <1>2, Small
  <2>. QED
    BY <2>1, <2>2
<1>5. ((b * v) * a) % Q = a
  <2>1. ((b * v) * a) % Q = (1 * a) % Q
    BY <1>1, <1>2, <1>3, RemainderOfProduct
  <2>2. 1 * a = a /\ a % Q = a
    BY <1>2, Small
  <2>. QED
    BY <2>1, <2>2
<1>6. (a * v) * b = (b * v) * a
  BY <1>2
<1>. QED
  BY <1>4, <1>5, <1>6
-----------------------------------------------------------------------------
(* What the bank sees of a coin.                                           *)

\* The pseudo-random function is asked for the inverses of different numbers:
\* there are fewer coins than elements of the group, because it is defined on
\* every index.
LEMMA SeedsDiffer ==
  ASSUME NEW seed \in {s, t}, NEW J \in Coins
  PROVE  /\ (seed + J) % Q \in 1 .. Q - 1
         /\ \A K \in Coins : (seed + J) % Q = (seed + K) % Q => J = K
<1>1. /\ Q \in Nat \ {0, 1} /\ seed \in 0 .. Q - 1
      /\ \A K \in Coins : (seed + K) % Q # 0
  BY SpendingAssumption
<1>2. \A x \in 0 .. 2 * Q - 1 : x % Q = IF x < Q THEN x ELSE x - Q
  <2>1. ASSUME NEW x \in 0 .. 2 * Q - 1, x < Q PROVE x % Q = x
    BY <1>1, <2>1, Small
  <2>2. ASSUME NEW x \in 0 .. 2 * Q - 1, ~ (x < Q) PROVE x % Q = x - Q
    <3>1. x = Q * 1 + (x - Q) /\ x - Q \in 0 .. Q - 1 /\ x \in Int
      BY <1>1, <2>2
    <3>. QED
      BY <1>1, <3>1, OneRemainder
  <2>. QED
    BY <2>1, <2>2
<1>3. WalletSize < Q
  <2>. SUFFICES ASSUME ~ (WalletSize < Q) PROVE FALSE
    OBVIOUS
  <2>. DEFINE K == IF seed = 0 THEN 0 ELSE Q - seed
  <2>1. K \in Coins /\ seed + K \in {0, Q}
    BY <1>1, WalletSizeAssumption DEF Coins
  <2>2. (seed + K) % Q = 0
    BY <1>1, <1>2, <2>1
  <2>. QED
    BY <1>1, <2>1, <2>2
<1>4. \A K \in Coins : K \in 0 .. Q - 1 /\ seed + K \in 0 .. 2 * Q - 1
  BY <1>1, <1>3, WalletSizeAssumption DEF Coins
<1>5. ASSUME NEW K \in Coins
      PROVE  (seed + K) % Q = IF seed + K < Q THEN seed + K ELSE seed + K - Q
  <2>. DEFINE x == seed + K
  <2>1. x \in 0 .. 2 * Q - 1
    BY <1>4
  <2>. HIDE DEF x
  <2>2. x % Q = IF x < Q THEN x ELSE x - Q
    BY <1>2, <2>1
  <2>. QED
    BY <1>1, <1>4, <2>2 DEF x
<1>6. (seed + J) % Q \in 0 .. Q - 1
  BY <1>1, <1>4, <1>5
<1>7. ASSUME NEW K \in Coins, (seed + J) % Q = (seed + K) % Q PROVE J = K
  BY <1>1, <1>4, <1>5, <1>7
<1>. QED
  BY <1>1, <1>6, <1>7

\* A coin that the constructor makes: the blindings x1 and x2 cancel.
LEMMA Unblinded ==
  ASSUME NEW J \in Coins, NEW rValue \in RValues, NEW x1 \in Randoms,
         NEW x2 \in Randoms, NEW r \in Randoms, NEW c,
         c = NewCoin(J, rValue, x1, x2, r)
  PROVE  /\ c.J = J /\ c.R = rValue /\ c.r = r
         /\ SPrime(c) = InvMod((s + J) % Q)
         /\ TPrime(c) = (sk_u + r * InvMod((t + J) % Q)) % Q
<1>1. /\ c.J = J /\ c.R = rValue /\ c.r = r /\ c.x1 = x1 /\ c.x2 = x2
      /\ c.S = (InvMod((s + J) % Q) + x1) % Q
      /\ c.T = (sk_u + r * InvMod((t + J) % Q) + x2) % Q
  BY DEF NewCoin
<1>2. /\ Q \in Nat \ {0} /\ x1 \in Int /\ x2 \in Int /\ r \in Int /\ sk_u \in Int
  BY SpendingAssumption
<1>. DEFINE v == InvMod((s + J) % Q)
            w == InvMod((t + J) % Q)
<1>3. v \in 0 .. Q - 1 /\ w \in 0 .. Q - 1
  BY SeedsDiffer, InvModInverts
<1>. HIDE DEF v, w
<1>4. SPrime(c) = v
  <2>1. c.S = (v + x1) % Q
    BY <1>1 DEF v
  <2>2. (((v + x1) % Q) - x1) % Q = v % Q
    <3>1. v \in Int
      BY <1>2, <1>3
    <3>. QED
      BY <1>2, <3>1, TakenBack
  <2>3. v % Q = v
    BY <1>2, <1>3, Small
  <2>. QED
    BY <1>1, <2>1, <2>2, <2>3 DEF SPrime
<1>5. TPrime(c) = (sk_u + r * w) % Q
  <2>. DEFINE y == sk_u + r * w
  <2>1. y \in Int
    <3>1. r * w \in Int
      BY <1>2, <1>3
    <3>. QED
      BY <1>2, <3>1
  <2>2. c.T = (y + x2) % Q
    BY <1>1 DEF w
  <2>. HIDE DEF y
  <2>3. (((y + x2) % Q) - x2) % Q = y % Q
    BY <1>2, <2>1, TakenBack
  <2>. QED
    BY <1>1, <2>2, <2>3 DEF TPrime, y
<1>. QED
  BY <1>1, <1>4, <1>5 DEF v, w

\* The quotient of BankTool::identifyDoubleSpender, of two points on the line
\* with slope w through sk_u.
LEMMA LineIdentifies ==
  ASSUME NEW w \in Int, NEW a1 \in 0 .. Q - 1, NEW a2 \in 0 .. Q - 1, a1 > a2,
         NEW u1, NEW u2, u1 = (sk_u + a1 * w) % Q, u2 = (sk_u + a2 * w) % Q
  PROVE  ((u2 * a1 - u1 * a2) * InvMod(a1 - a2)) % Q = sk_u
<1>. DEFINE v == InvMod(a1 - a2)
<1>1. Q \in Nat \ {0} /\ sk_u \in 0 .. Q - 1 /\ a1 \in Int /\ a2 \in Int
  BY SpendingAssumption
<1>2. a1 - a2 \in 1 .. Q - 1
  BY <1>1
<1>3. v \in Int /\ ((a1 - a2) * v) % Q = 1
  BY <1>1, <1>2, InvModInverts
<1>. HIDE DEF v
<1>. DEFINE p1 == sk_u + a1 * w
            p2 == sk_u + a2 * w
            e1 == p1 \div Q
            e2 == p2 \div Q
<1>4. p1 \in Int /\ p2 \in Int /\ u1 = p1 % Q /\ u2 = p2 % Q
  BY <1>1
<1>. HIDE DEF p1, p2
<1>5. p1 = Q * e1 + u1 /\ u1 \in Int /\ e1 \in Int
  BY <1>1, <1>4, Division
<1>6. p2 = Q * e2 + u2 /\ u2 \in Int /\ e2 \in Int
  BY <1>1, <1>4, Division
<1>. HIDE DEF e1, e2
<1>. DEFINE k == e1 * a2 - e2 * a1
<1>7. k \in Int
  BY <1>1, <1>5, <1>6
<1>8. u2 * a1 - u1 * a2 = sk_u * (a1 - a2) + Q * k
  <2>1. sk_u + a1 * w = Q * e1 + u1 /\ sk_u + a2 * w = Q * e2 + u2
    BY <1>5, <1>6 DEF p1, p2
  <2>. DEFINE f1 == Q * e1
              f2 == Q * e2
              g1 == a1 * w
              g2 == a2 * w
  <2>2. /\ f1 \in Int /\ f2 \in Int /\ g1 \in Int /\ g2 \in Int
        /\ sk_u \in Int /\ u1 \in Int /\ u2 \in Int
    BY <1>1, <1>5, <1>6
  <2>3. sk_u + g1 = f1 + u1 /\ sk_u + g2 = f2 + u2
    BY <2>1
  <2>. HIDE DEF f1, f2, g1, g2, k
  <2>4. u1 = sk_u + g1 - f1 /\ u2 = sk_u + g2 - f2
    BY ONLY <2>2, <2>3
  <2>5. u2 * a1 - u1 * a2 = (sk_u + g2 - f2) * a1 - (sk_u + g1 - f1) * a2
    BY <2>4
  <2>6. (sk_u + g2 - f2) * a1 - (sk_u + g1 - f1) * a2 = sk_u * (a1 - a2) + Q * k
    BY <1>1, <1>5, <1>6 DEF f1, f2, g1, g2, k
  <2>. QED
    BY <2>5, <2>6
<1>. HIDE DEF k
<1>. DEFINE x == (u2 * a1 - u1 * a2) * v
            y == ((a1 - a2) * v) * sk_u
<1>9. x = y + Q * (k * v)
  <2>. DEFINE z == a1 - a2
  <2>1. z \in Int
    BY <1>2
  <2>2. x = (sk_u * z + Q * k) * v
    BY <1>8
  <2>. HIDE DEF x, z
  <2>3. (sk_u * z + Q * k) * v = (z * v) * sk_u + Q * (k * v)
    BY <1>1, <1>3, <1>7, <2>1
  <2>. QED
    BY <2>2, <2>3 DEF z
<1>10. x \in Int /\ y \in Int /\ k * v \in Int
  BY <1>1, <1>2, <1>3, <1>5, <1>6, <1>7
<1>11. x % Q = y % Q
  <2>. DEFINE l == k * v
  <2>1. x = y + Q * l /\ l \in Int
    BY <1>9, <1>10
  <2>. HIDE DEF x, y, l
  <2>. QED
    BY <1>1, <1>10, <2>1, ShiftedRemainder
<1>12. y % Q = sk_u
  <2>. DEFINE z == (a1 - a2) * v
  <2>1. z \in Int /\ sk_u \in Int
    BY <1>1, <1>2, <1>3
  <2>. HIDE DEF z
  <2>2. (z * sk_u) % Q = ((z % Q) * sk_u) % Q
    BY <1>1, <2>1, RemainderOfProduct
  <2>3. z % Q = 1
    BY <1>3 DEF z
  <2>4. (1 * sk_u) % Q = sk_u
    BY <1>1, Small
  <2>. QED
    BY <2>2, <2>3, <2>4 DEF z
<1>. QED
  BY <1>11, <1>12 DEF v

\* The same, of a coin the wallet has made.
LEMMA CoinsUnblinded ==
  ASSUME MadeByWallet, NEW c \in coins
  PROVE  /\ c.J \in Coins /\ c.R \in RValues
         /\ SPrime(c) = InvMod((s + c.J) % Q)
         /\ TPrime(c) = (sk_u + c.r * InvMod((t + c.J) % Q)) % Q
<1>1. PICK J \in Coins, rValue \in RValues, x1 \in Randoms, x2 \in Randoms, r \in Randoms :
        c = NewCoin(J, rValue, x1, x2, r)
  BY DEF MadeByWallet
<1>2. /\ c.J = J /\ c.R = rValue /\ c.r = r
      /\ SPrime(c) = InvMod((s + J) % Q)
      /\ TPrime(c) = (sk_u + r * InvMod((t + J) % Q)) % Q
  BY <1>1, Unblinded
<1>. QED
  BY <1>2

\* Every coin is made by the constructor.
LEMMA SpecMadeByWallet == SpendSpec => [](PoolInv /\ MadeByWallet)
<1>1. SpendInit => MadeByWallet
  BY DEF SpendInit, MadeByWallet
<1>2. PoolInv /\ MadeByWallet /\ [SpendNext]_vars => MadeByWallet'
  <2>. SUFFICES ASSUME PoolInv, MadeByWallet, [SpendNext]_vars PROVE MadeByWallet'
    OBVIOUS
  <2>1. CASE UNCHANGED coins
    BY <2>1 DEF MadeByWallet
  <2>2. ASSUME NEW rValue \in RValues, NextCoin(rValue) PROVE MadeByWallet'
    <3>1. /\ numCoinsUsed < WalletSize /\ answer'.coin = spendOrder[numCoinsUsed]
      BY <2>2 DEF NextCoin, NextCoinIndex
    <3>2. answer'.coin \in Coins
      BY <3>1, WalletSizeAssumption DEF PoolInv, Spendable, Coins
    <3>3. \E x1, x2, r \in Randoms :
             coins' = coins \cup {NewCoin(answer'.coin, rValue, x1, x2, r)}
      BY <2>2 DEF NextCoin
    <3>. QED
      BY <3>2, <3>3 DEF MadeByWallet
  <2>. QED
    BY <2>1, <2>2 DEF SpendNext, vars, Construct, PutBack, SaveFile, LoadFile
<1>. QED
  BY <1>1, <1>2, InitPool, NextPool, PTL DEF SpendSpec

\* BankTool::isCoinDoubleSpent compares what is left of S without its blinding:
\* it throws exactly on two different coins of the wallet, and otherwise answers
\* by the values R they were spent for.
THEOREM BankTellsDoubleSpending == SpendSpec => []VerdictIsRight
<1>1. MadeByWallet => VerdictIsRight
  <2>. SUFFICES ASSUME MadeByWallet, NEW c \in coins, NEW d \in coins
                PROVE  SPrime(c) = SPrime(d) <=> c.J = d.J
    BY DEF VerdictIsRight, IsCoinDoubleSpent
  <2>1. /\ c.J \in Coins /\ SPrime(c) = InvMod((s + c.J) % Q)
        /\ d.J \in Coins /\ SPrime(d) = InvMod((s + d.J) % Q)
    BY CoinsUnblinded
  <2>. QED
    BY <2>1, SeedsDiffer, InvModInjective
<1>. QED
  BY <1>1, SpecMadeByWallet, PTL

\* From two coins of one index whose T was made with their R, in either order,
\* BankTool::identifyDoubleSpender computes the key of the user.
THEOREM BankIdentifiesBoundCoins == SpendSpec => []BoundCoinsIdentify
<1>1. MadeByWallet => BoundCoinsIdentify
  <2>. SUFFICES ASSUME MadeByWallet, NEW c \in coins, NEW d \in coins,
                       IsCoinDoubleSpent(c, d) = "double", c.r = c.R, d.r = d.R
                PROVE  IdentifyDoubleSpender(c, d) = sk_u
    BY DEF BoundCoinsIdentify
  <2>1. /\ c.J \in Coins /\ SPrime(c) = InvMod((s + c.J) % Q) /\ c.R \in RValues
        /\ TPrime(c) = (sk_u + c.R * InvMod((t + c.J) % Q)) % Q
    BY CoinsUnblinded
  <2>2. /\ d.J \in Coins /\ SPrime(d) = InvMod((s + d.J) % Q) /\ d.R \in RValues
        /\ TPrime(d) = (sk_u + d.R * InvMod((t + d.J) % Q)) % Q
    BY CoinsUnblinded
  <2>3. SPrime(c) = SPrime(d) /\ c.R # d.R
    BY DEF IsCoinDoubleSpent
  <2>4. c.J = d.J
    BY <2>1, <2>2, <2>3, SeedsDiffer, InvModInjective
  <2>. DEFINE w == InvMod((t + c.J) % Q)
  <2>5. w \in Int /\ c.R \in 0 .. Q - 1 /\ d.R \in 0 .. Q - 1 /\ Q \in Nat
    <3>1. (t + c.J) % Q \in 1 .. Q - 1
      BY <2>1, SeedsDiffer
    <3>2. w \in 0 .. Q - 1
      BY <3>1, InvModInverts
    <3>3. Q \in Nat /\ RValues \subseteq 0 .. Q - 1
      BY SpendingAssumption
    <3>4. w \in Int
      BY <3>2, <3>3
    <3>. HIDE DEF w
    <3>. QED
      BY <2>1, <2>2, <3>3, <3>4
  <2>6. TPrime(c) = (sk_u + c.R * w) % Q /\ TPrime(d) = (sk_u + d.R * w) % Q
    BY <2>1, <2>2, <2>4
  <2>. HIDE DEF w
  <2>7. CASE d.R > c.R
    BY <2>5, <2>6, <2>7, LineIdentifies DEF IdentifyDoubleSpender
  <2>8. CASE ~ (d.R > c.R)
    <3>1. c.R > d.R
      BY <2>3, <2>5, <2>8
    <3>. QED
      BY <2>5, <2>6, <2>8, <3>1, LineIdentifies DEF IdentifyDoubleSpender
  <2>. QED
    BY <2>7, <2>8
<1>. QED
  BY <1>1, SpecMadeByWallet, PTL
=============================================================================
