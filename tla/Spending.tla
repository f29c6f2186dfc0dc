------------------------------ MODULE Spending ------------------------------
(***************************************************************************)
(* Spending the coins of one wallet, and the bank's look at the coins that *)
(* come back: Wallet::nextCoin and the constructor of Coin (ecash.txt),    *)
(* the wallet's file (Wallet's serialization: saved, and loaded again      *)
(* after a restart), and BankTool's two answers about a pair of coins.     *)
(*                                                                         *)
(* Elements of the e-cash group are powers of the generator g; each is     *)
(* represented by its exponent, a number modulo the prime order Q.         *)
(***************************************************************************)
EXTENDS Wallet

CONSTANTS Q,                \* the order of the e-cash group
          sk_u, s, t,       \* the wallet's secrets
          RValues,          \* the values R a merchant asks for
          Randoms,          \* what randomExponent() may return
          MaxCoins          \* bound: coins made

ASSUME SpendingAssumption ==
  /\ Q \in Nat \ {0, 1} /\ \A d \in 2 .. Q - 1 : Q % d # 0
  /\ {sk_u, s, t} \subseteq 0 .. Q - 1 /\ RValues \subseteq 0 .. Q - 1
  /\ Randoms \subseteq 0 .. Q - 1 /\ MaxCoins \in Nat
  \* the pseudo-random function 1/(seed + J) is defined on every index
  /\ \A J \in Coins : (s + J) % Q # 0 /\ (t + J) % Q # 0

VARIABLES coins,            \* the coins made so far (Coin objects)
          file,             \* the wallet's file: what serialize writes
          savedOut          \* history: coins out when the file was written,
                            \* and not put back since

vars == <<walletVars, coins, file, savedOut>>

InvMod(a) == CHOOSE b \in 0 .. Q - 1 : (a * b) % Q = 1

\* The constructor of Coin, after the compute block of ecash.txt: r is the
\* random exponent R of that block, rValue the constructor's argument rVal.
NewCoin(J, rValue, x1, x2, r) ==
  [J |-> J, R |-> rValue, x1 |-> x1, x2 |-> x2, r |-> r,
   S |-> (InvMod((s + J) % Q) + x1) % Q,
   T |-> (sk_u + r * InvMod((t + J) % Q) + x2) % Q]

\* Mutants: the blinding of S or of T is left in.
SPrimeBlinded(coin) == coin.S
TPrimeBlinded(coin) == coin.T

SPrime(coin) == (coin.S - coin.x1) % Q
TPrime(coin) == (coin.T - coin.x2) % Q

\* BankTool::isCoinDoubleSpent, with "throws" for its exception.
IsCoinDoubleSpent(coin1, coin2) ==
  IF SPrime(coin1) # SPrime(coin2) THEN "throws"
  ELSE IF coin1.R # coin2.R THEN "double" ELSE "same"

\* BankTool::identifyDoubleSpender: (t2^r1 / t1^r2)^(1/(r1-r2)), the pairs
\* exchanged first when r2 > r1.
IdentifyDoubleSpender(coin1, coin2) ==
  LET swap == coin2.R > coin1.R
      r1 == IF swap THEN coin2.R ELSE coin1.R
      r2 == IF swap THEN coin1.R ELSE coin2.R
      t1 == IF swap THEN TPrime(coin2) ELSE TPrime(coin1)
      t2 == IF swap THEN TPrime(coin1) ELSE TPrime(coin2)
  IN ((t2 * r1 - t1 * r2) * InvMod(r1 - r2)) % Q

\* Mutant: the counter is not saved.
OnDiskOrderOnly == [spendOrder |-> spendOrder, numCoinsUsed |-> 0]

OnDisk == [spendOrder |-> spendOrder, numCoinsUsed |-> numCoinsUsed]

SpendInit == /\ Init
             /\ coins = {}
             /\ file = OnDisk
             /\ savedOut = {}

\* The constructor ends with a wallet that the user saves.
Construct == /\ Shuffle
             /\ file' = OnDisk'
             /\ UNCHANGED <<coins, savedOut>>

NextCoin(rValue) ==
  /\ Cardinality(coins) < MaxCoins
  /\ NextCoinIndex
  /\ \E x1, x2, r \in Randoms :
        coins' = coins \cup {NewCoin(answer'.coin, rValue, x1, x2, r)}
  /\ UNCHANGED <<file, savedOut>>

PutBack(index) == /\ ReplaceCoin(index)
                  /\ savedOut' = savedOut \ {index}
                  /\ UNCHANGED <<coins, file>>

SaveFile == /\ Constructed
            /\ file' = OnDisk
            /\ savedOut' = outstanding
            /\ UNCHANGED <<walletVars, coins>>

\* The process ends and a new one loads the wallet from its file: the coins
\* handed out since the file was written are out no more for the new process.
LoadFile == /\ Constructed
            /\ spendOrder' = file.spendOrder
            /\ numCoinsUsed' = file.numCoinsUsed
            /\ outstanding' = savedOut
            /\ UNCHANGED <<filled, answer, coins, file, savedOut>>

SpendNext == \/ Construct
             \/ \E rValue \in RValues : NextCoin(rValue)
             \/ \E index \in Requests : PutBack(index)
             \/ SaveFile
             \/ LoadFile

SpendSpec == SpendInit /\ [][SpendNext]_vars
-----------------------------------------------------------------------------
\* The bank calls a pair of coins a double spending exactly when they are the
\* same coin of the wallet spent for two values R, and refuses to compare two
\* different coins: the blinding x1 and the pseudo-random serial numbers
\* neither hide a coin spent twice nor make two coins look like one.
VerdictIsRight ==
  \A c, d \in coins :
     IsCoinDoubleSpent(c, d) = IF c.J # d.J THEN "throws"
                               ELSE IF c.R # d.R THEN "double" ELSE "same"

\* A coin that was out when the wallet was saved stays out through any number
\* of restarts, unless it is put back: only coins handed out after the last
\* save can be handed out again.
SavedCoinsStayOut ==
  [][\A rValue \in RValues :
        NextCoin(rValue) => answer'.coin \notin savedOut]_vars

\* From two coins of a double spending whose T was made with their R, the bank
\* computes the public key of the user, in whatever order it is given them.
BoundCoinsIdentify ==
  \A c, d \in coins :
     (IsCoinDoubleSpent(c, d) = "double" /\ c.r = c.R /\ d.r = d.R)
        => IdentifyDoubleSpender(c, d) = sk_u

\* What testCoin looks for and BankTool::identifyDoubleSpender is for: the bank
\* identifies whoever spends a coin twice.
DoubleSpenderIdentified ==
  \A c, d \in coins :
     IsCoinDoubleSpent(c, d) = "double" => IdentifyDoubleSpender(c, d) = sk_u
=============================================================================
