# Cashlib in TLA+

Cashlib is a C++ library of electronic cash: coins are withdrawn from a bank as
a wallet, spent, and used to pay for files in *fair exchanges*, where an arbiter
settles what the two parties cannot. This directory holds TLA+ models of its
stateful parts, TLC configurations that check them on small instances, and
proofs checked by TLAPS. Paths below are those of `src/src/`.

## 1. The system

| Component | State | Operations | Talks to |
|---|---|---|---|
| `Wallet` | `spendOrder`, `numCoinsUsed`, the secrets `sk_u`, `s`, `t` | constructor (shuffle), `nextCoinIndex`, `nextCoin`/`newCoin`, `replaceCoin`, serialization | makes `Coin`s; saved and loaded by the application |
| `Coin` | commitments, `S`, `T`, `R`, blinding `x1`, `x2`, endorsement | construction, endorsement, verification | the ZKP programs compute and prove its values |
| `BankTool` | none | `verifyCoin`, `isCoinDoubleSpent`, `identifyDoubleSpender` | gets coins from merchants |
| `UserWithdrawTool`, `BankWithdrawTool`, `CLBlind*` | one withdrawal in progress on either side | a sequence of messages ending in a signed wallet | each other |
| `Buyer` | `coin`, `endorsement`, `ctext`, `ptext`, `contract`, `r`, `inProgress` | `buy`, `pay`, `resolve`, `reset` | `Seller`, `Arbiter` |
| `Seller` | files, keys, `contract`, `coinPrime`, `escrow`, `inProgress` | `setFiles`, `sell`, `resolveI`, `resolveII`, `endorseCoin`, `reset` | `Buyer`, `Arbiter` |
| `FEInitiator` | as a buyer, its own file, signature key, `exchangeType`, a coin kept from round to round | `setup`, `buy`/`pay`, `continueRound`/`barter`/`giveKeys`, `reset` | `FEResponder`, `Arbiter` |
| `FEResponder` | as a seller, both ciphertexts, the setup message, `exchangeType` | `setup`, `startRound`, `sell`, `giveKeys`, `checkKey`, `resolveI` to `resolveIV`, `reset` | `FEInitiator`, `Arbiter` |
| `Arbiter` | one set of fields (`keys`, `contract`, `message`, `endorsement`, two verifiers) for whichever resolution is under way; a database it reaches through two functions of its caller | `buyerResolve`/`initiatorResolve`, `sellerResolveI`/`II`, `responderResolveI`/`II`/`III` | `Seller`, `FEResponder`, `Buyer` |
| `FEContract`, messages | hashes of files and ciphertexts, timeout, algorithm, id | checks | carried between the parties |
| `MerkleTree`, `MerkleProver`, `MerkleVerifier` | leaves, root; a table of nodes shared by the proofs of one round; challenges | `makeRoot`, `generateProofs`, `verifyProofs` | `Arbiter` and both kinds of seller |
| `Hash`, `Ciphertext`, `Signature`, `VE*`, `CL*` | keys and parameters | pure functions and short protocols | used by all of the above |
| `ZKP/` interpreter: `ZKPParser`, the visitors, `Interpreter*`, `Equality*`, `SigmaProof` | the tree and the environment of a program in each prover and verifier; `InterpreterCache` for the whole process | `check` (parse, substitute, expand, type, describe, cache), `compute`, `computeProof`, `verify` | `Coin`, `CL*`, `VE*` |
| `GroupPrime`, `GroupRSA` | modulus, order or factors, generators | constructors, `addNewGenerator`, `isGenerator`, `clearSecrets` | the bank makes and publishes them |
| `MultiExp`, `PowerCache`, `MultiExpCache`, `FourSquares` | tables of products for each thread, of powers for each program, of decompositions for the process | `MultiExp`, `modPow`, `multiExp`, `decompose` | the interpreter, `VE*`, `CL*` |

**What is hard.** The objects run no threads of their own. What makes them hard
is that each is called by a network peer in whatever order messages arrive, and
keeps fields between the calls.
- *Protocol sequences.* A wallet takes coins back in any order; a buyer may try
  again after a timeout, a wrong key, or a throw; an initiator and a responder
  go through many rounds after a single setup, while messages of earlier rounds
  still arrive. A withdrawal is five messages, after each of which a tool holds
  half of a commitment or a signature.
- *Interleaving.* Withdrawals overlap, and their messages do not say whose they
  are. The arbiter keeps the fields of a resolution between its
  stages, in one object, for all who ask.
- *Partial failure.* Most operations assign fields before the check that throws.
- *Time.* Contracts run out, with a tolerance, at each party by its own reading
  of the clock; stage II of a resolution does not look at it.
- *Crash and restart.* The wallet file is as old as the last save.
- *Caches.* Compiled programs are kept under the name of their file and the decimals
  of moduli and inputs, which say little of the program, tables of powers under the names of their bases, products under bases
  and modulus; and a prover works on the environment it takes from a cache.
- *A compiler.* A proof is as good as the passes that turn the text of a program
  into equations: two parties run them apart, with different values at hand, and
  must come to the same equations in the same order.

What makes the components correct: a coin is neither lost nor handed out twice;
a wallet is signed on its own numbers; two spendings of a coin are recognised and two coins are never taken for one; a
file is paid for only if its buyer has it or can get it; what the arbiter stores
and returns belongs to the one who asked; whoever has given away keys is paid in
the end if it asks in time; a proof is accepted exactly when what its program says
is true, and gives away nothing the program keeps; an accepted Merkle proof shows
a block of the file; generators generate, and no table changes the value of a power.

## 2. The modules

```
CoinPool  <--implements--  Wallet  <--  Spending
                                           ^--- SpendingProofs

Withdrawal  <-- WithdrawalProofs

FEContract <-- Buyer, Seller, Arbiter             <-- BuyExchange    --implements--> FairExchange
                                                        ^--- BuyExchangeProofs
FEContract <-- FEInitiator, FEResponder,
               ArbiterBarter (extends Arbiter)    <-- BarterExchange --implements--> FairExchange
                                                        ^--- BarterProofs

Merkle  <-- MerkleProofs

Residues <-- ZKPNodes <-- ZKPParser ----------------------------------------.
                      <-- ZKPPasses <-- ZKPDescribe <-- ZKPProtocol  <-- Interpreter
                                             FourSquares <--'
Residues <-- Groups, Exponentiation, FourSquares; CounterMode  <-- Arithmetic
                          ^                                             ^
LoopProofs <-- ExponentiationProofs <------------------------- ArithmeticProofs
    ^--- SpendingProofs
```

**CoinPool** (abstract) says what a wallet promises: a coin is handed out only
if it is not out, a pool refuses only when all coins are out, and only a coin
that is out can be put back.

**Wallet** is `Wallet.cpp`. `spendOrder` and `numCoinsUsed` are the fields;
`Shuffle` is one iteration of the constructor's loop (`filled` is its index);
`NextCoinIndex`/`NextCoinIndexThrows` and `ReplaceCoin`/`ReplaceCoinRefused` are
the two operations and their other outcomes. `outstanding` and `answer` are
history variables, for the abstraction.

**Spending** adds the coins made from the wallet, the wallet's file, and the
bank's comparison of two coins. A group element is the power of a generator, and
is represented by its exponent modulo the order `Q`, so that what the ZKP program
`ecash.txt` computes and what `BankTool` computes back are the actual formulas.
`LoadFile` is a restart.

**Withdrawal** is the withdrawal of a wallet: for each session a
`UserWithdrawTool` (the fields of its `partialCommitment`, `s`, its signature
recipient) and a `BankWithdrawTool` (its contribution), one action per message.
`Requesting` is `initiateSignature` followed by `getCLProof`, as every caller in
the repository uses them; `Contributing` is `computeFullCommitment` followed by
`getBankContribution`. Random numbers are terms that name who drew them and when;
commitments are what they commit to, and a proof verifies when what it states is
true, in the group of the verifier's key. That the numbers a proof is about come
with the proof, and are not looked up in the verifier's fields, is modelled as it
is in the code. `Once` says that a user's tool makes one request and is not used
for another.

**FEContract** holds what the parties share: files and ciphertexts as sequences
of blocks, decryption that gives garbage under a wrong key (counter mode does not
notice), hashes as terms that are equal when the same function was applied to
the same value (`HashBytes` and `HashVector` are the two ways the code hashes a
number, which differ), contracts and their checks.

**Buyer**, **Seller** and **Arbiter** are the objects: a record of fields for
each session, one operator per operation, and a second for what it leaves behind
when it throws after it has assigned something. A coin and its endorsement are
one value, which holds the `R` it was made for. The proofs inside coins and
escrows are taken to be sound.

**BuyExchange** puts them on a network (a set of all messages sent, so that a
message may be delayed, delivered twice, or never) and adds a clock and the
callers: an action `Xing` is the call of `X`, and `XingThrows` the call that
throws. Keys and `buy` messages may reach another session than they were sent
to. History variables record which buyers have decrypted which files, and which
contracts were shown to the arbiter in time.

**FEInitiator**, **FEResponder**, **ArbiterBarter** and **BarterExchange** do the
same for exchanges after a setup: rounds of buying and bartering with one coin.

**Merkle** is one round between a prover and the arbiter: `MakeNode` is the loop
of `makeRoot`, `Draw` that of `generateChallenges`, which looks for one number and
pushes another; `StartProof`, `ComputeSubTree`, `PushNeighbour` and
`FinishProof` are `generateProofs` with the table `m_tree` that all its proofs share;
`StartChecking`, `Combine` and `CheckRoot` are `verifyProofs` and `checkProof`.
The prover's blocks may differ from the contract's, and `Damage` replaces a node
on the way. `Arbiter` and `ArbiterBarter` take a root for the blocks under it;
this module and its proofs are the reason why they may.

**The interpreter.** `ZKPNodes` are the nodes of the tree and what the classes of
`ASTNode.h` do with them (text, type, value). `ZKPParser` has one operator for each
rule of the generated parser, over tokens. `ZKPPasses` are the visitors that change
the tree: constants substituted and propagated until nothing changes, loops
expanded (relations that come from loops move behind the others), and the search for
undefined variables, which finds none whatever the program (section 6). `ZKPDescribe`
fills the environment: names with group, type and privacy, commitments, and each
relation translated to discrete logarithm representations, with the products,
squares and ranges (`describeRange`) of `Translator.cpp`, then generator values
and tables of powers. `ZKPProtocol` is what prover and verifier do with it:
random values, decompositions into four squares, commitments, the sigma proof and
its verification, computed in groups of a few elements. `Interpreter` is the objects and
`InterpreterCache`: `ProverCheck` and `VerifierCheck` are
`Interpreter::check`, `Prove` is the prover's `compute` and `computeProof`,
`Verify` the verifier's. A *session* is a prover, a verifier and
the message between them, and a *job* what it is about: program, file, inputs,
groups and values. `unset` is the value of `isPrivate`, which the code reads
uninitialized in a computation block: either is possible. `InMapOrder` is the order of
a hash map, the same for equal sets of keys, as in one build of the code.
`hashForCache` has the key as the code makes it: the name of the file, and the decimals of the
moduli and of the inputs, written one after the other in the alphabetical order of their
names (`NameOrder`), which the names themselves are not part of. SHA1 is taken to be injective.

**Groups** makes a prime or an RSA group, gives it generators drawn at random, and
publishes a copy (`BankTool`'s constructor). **Exponentiation** has the three
kinds of tables and what is answered from them; an exception, a failed assertion
and a read past a table are values that are no residue.
**FourSquares** is the algorithm of `FourSquares.cpp` case by case.
**CounterMode** is AES in counter mode from any offset, with a byte as the set of what is XORed in
it. **Arithmetic** puts these four side by side; they share no
state, and so a behaviour is about one of them (`job`). **Residues** is what they
take from NTL.

**FairExchange** (abstract) says what either exchange promises: who is paid is so
only after delivery, and deliveries and payments are not undone. "Delivered"
means that the buyer has the file, or that the arbiter's database holds keys that
give it under the id of the contract. For a barter "paid" is that the
responder has the initiator's file or the endorsement.

## 3. The runs

| Run | Question and instance |
|---|---|
| `wallet` (`MCWallet`) | `TypeOK`, `CounterIsExact`, `SuffixIsExact`, and that `Wallet` implements `CoinPool`: four coins, every order the shuffle can produce, every mix of calls. Four coins suffice for stale entries in front of the counter that are different from, equal to and out of order with those behind it; the proofs lift the bound. |
| `spending` (`MCSpending`) | `VerdictIsRight`, `BoundCoinsIdentify`, `SavedCoinsStayOut`: three coins, two made (the bank looks at pairs), a group of order 5, two values of `R` given in either order, two random exponents so that blinding and random `R` may be equal or not. |
| `identify` | *violated:* `DoubleSpenderIdentified` (section 6). |
| `buy_fair` (`MCBuyExchange`) | `TypeOK`, `AnswerIsOurs`, `CoinSoldOnce`, `IsFair`, `SellerIsPaid`: two sessions over one ciphertext, so that their keys, hashes and offers can be taken for each other; resolutions one after the other. |
| `buy_retry` | `StoredInTime`, `StoredKeysAreRight`, `IsFair`: one session, two purchases, two blocks, a wrong key about, a seller that may encrypt its file again under another key and algorithm in the middle of a sale, time enough for a contract to run out and another to be made. |
| `buy_fetch` | *violated:* `BuyerCanFetch`. |
| `withdraw` (`MCWithdrawal`) | `WalletsAreGood`, `RequestsAreAccepted`, `OneWalletPerTool`, `WithdrawalEnds`: three withdrawals of one user at once, of different denominations as in `testWithdrawInterleaved`, one of a size the bank refuses (so that a user's tool has no bank's tool to answer it), each of which may commit anew before its request; all messages of one kind are within reach of all tools. |
| `barter_rounds` (`MCBarterExchange`) | `TypeOK`, `SameRound`, `IsFair`: two rounds of buying or bartering under one setup, with everything of the first still arriving in the second. |
| `barter_resolve` | `InTimeRequestAccepted`, `KeysForKeys`, `ResponderIsServed`: two rounds of bartering with the arbiter; an initiator may escrow a wrong key, a right key may lose a byte on its way through a number, and a responder may encrypt its file again. |
| `zkp` (`MCInterpreter`) | `TypeOK`, `HonestIsAccepted`, `AcceptedIsTrue`, `SecretsStayPrivate`, `CachedIsFresh`: eighteen jobs over the programs of `ZKP/examples` that the library uses (multiplication, discrete logarithms, range, the CL programs, `presig.txt`, `ecash.txt`) and one as `ProgramMaker` writes it, in a group of order 11 and an RSA group of 4897 whose order is known to nobody or to the issuer; in the second session also the CL programs of a second denomination, with an RSA group of 3901. Some values satisfy the program and some do not, some are missing; groups are named when the program is checked or later; either session meets what the other left in the cache. The second session meets one file written anew with another program, as `ProgramMaker` does; an object may then be given what the earlier program compiled to, and `CachedIsFresh` and `AcceptedIsTrue` say so: a program of the object's file, for its own groups and inputs. No two jobs have the same decimals for different inputs; section 6 has the case where they do. |
| `merkle` (`MCMerkle`) | `TypeOK`, `SharedNodesAreRight`, `HonestIsAccepted`, `AcceptedShowsBlock`, `Judged`: one to five blocks, every choice of challenges, any one node damaged. |
| `arithmetic` (`MCArithmetic`) | `TypeOK`, `GeneratorsGenerate`, `AnswersAreRight`, `SquaresAreRight`, `PartsAgree`: all groups over a few primes, every sequence of up to three tables in the caches of two threads with all exponents of a list after each, four squares of 0 to 400, of two negative numbers and of the special cases, and a file of four blocks of two bytes whose parts are encrypted and decrypted in any order. |

**Bounds.** `MaxTime` lets contracts (`TimeoutLength` 1, `Tolerance` 1) be made at
different times and run out; the instances use 2 to 4. `MaxCoins` and `MaxRounds`
are the purchases, setups and rounds: the second is the one that meets what the
first left. `MaxDraws` is the number of times a session commits to new numbers, and
two leaves an old commitment about; `MaxRequests` is 1 under `Once`.
`MaxDecrypted` bounds `ptext`, which the code never clears: it leaves
room for one wrong decryption and one right one. Files have one or two blocks.
A file is then never longer than the number of challenges, 22. Since challenges
are drawn with repetitions, two of a file of two blocks may be the same: the
runs include a proof that leaves a block out. What sampling means for long files
is a matter of probability, and no property is about it.

`merkle` has trees of one, two, four and eight leaves, with one to three of them
padding, and two challenges instead of 22, so that a file has as many blocks as
challenges, fewer, or more. The prover's blocks differ from the contract's in at most one
place, which is what one challenge can find. `zkp` draws a random exponent, a
challenge and a prime from a seed and the place of the draw; there are seven challenges, and 64 exponents
in a group of unknown order. The challenges are 1 to 7, and none is a multiple of
a group's order: a prover that follows the code with values that do not satisfy the program is
refuted whatever was drawn. That other provers are is the soundness of sigma
protocols, and not a property of the run.
`arithmetic` has exponents of 5 bits for 2048, rows of 2 bits for 5 (`PowerCache`) and of 3, 2, 1 bits for
4, 3, 2 (`MultiExpCache`): the last row is only partly used, as it is for 2048 in rows of 5 and of 3. The names
`f1`, `f2` have the values of `g`, `h` under another modulus. Random numbers exclude 0,
which the code may draw with a probability of one in the modulus, and `p' < q'`.
A word of a counter has four values for 2^32, and a file is as long as the block numbers
reach (`LengthAssumption`).

**Fairness.** `SPECIFICATION Spec` has none. `LiveSpec` of `BuyExchange` has weak
fairness for the two stages of a resolution and for `Endorsing`: a seller that
has given its keys asks the arbiter until it is paid (it is its caller that
does so; `Test.cpp` shows the calls), the arbiter answers each call, and its
answer arrives. `LiveSpec` of `BarterExchange` says the same of the responder,
with all three stages. The buyer, the initiator and messages between the two
parties owe nothing, and `Tick` is not fair: a contract may run out, and the
liveness properties allow for it. `LiveSpec` of `Withdrawal` has weak fairness for
everything but `Committing`: the callers go on with a withdrawal they have begun,
as those of `Test.cpp` do, and messages arrive in the end. `Spec` of `Merkle` has weak
fairness of each party's thread, which runs until it is done. `CHECK_DEADLOCK FALSE`
appears for the barter and the withdrawal: an initiator that has used up its
setups and rounds has nothing to do, nor has a user whose wallets are made; and
for `zkp`, `merkle` and `arithmetic`, which end when the jobs, the proofs and the bounds do.

## 4. What is proved

`SpendingProofs`, of the wallet, for every `WalletSize` in `Nat \ {0}`:
- `Inductive`: the invariant `IInv`. It is `TypeOK`, `CounterIsExact` and
  `SuffixIsExact`, and that the counter is 0 until the shuffle is over. They need
  each other: `replaceCoin` decrements the counter without looking at it, and
  stays in the vector only because a coin that is not in the suffix is out, which
  makes the counter, the number of coins out, positive.
- `TypeCorrect`, `CounterCorrect`, `SuffixCorrect`: the invariants of the run.
- `ImplementsPool`: every step is one of `CoinPool` or leaves its variables
  alone (`PoolSpec`).

Of the coins made from it, for any wallet, seeds and prime group order:
- `SavedCoinsAreNotReissued`: `SavedCoinsStayOut`, about restarts. Once a wallet has been
  loaded from an old file, its counter is no longer the number of coins out, and
  `CounterIsExact` and `SuffixIsExact` are gone. What stays is `PoolInv`: the entries from
  the counter on are distinct and none of them is out (`Spendable`), in the
  wallet with regard to the coins out, and in the file with regard to those of them
  that were out when it was written. A wallet with a counter of 0 lists every coin,
  and so takes none back.
- `BankTellsDoubleSpending` and `BankIdentifiesBoundCoins`: `VerdictIsRight` and
  `BoundCoinsIdentify`, from the fact that every coin is one the constructor makes of an
  index of the wallet (`MadeByWallet`). The rest is arithmetic modulo a prime:
  inverses exist (`InverseExists`, from the least number in the set of positive
  remainders of multiples), they are injective, so that two indices have two serial
  numbers, blinding can be taken back (`Unblinded`), and two points give the
  line (`LineIdentifies`).

`BuyExchangeProofs`, for any sessions, files, keys and bounds:
- `CoinsAreSoldOnce`: `Spec => []CoinSoldOnce`, along `CoinInv` (a seller that
  has sold holds a coin made for its own `R`). It needs nothing of the arbiter.
- `SellersGetTheirEndorsement` and `KeysAreStoredInTime`: `AnswerIsOurs` and
  `StoredInTime`, under `OneAtATime`. The invariant `IInv` says that while a
  seller holds challenges, the arbiter's `contract` and `endorsement` are those
  of that seller and the contract was shown in time (`FieldsAreOurs`), and that
  every answer on the network is for a seller that has sold (`Answers`).
  Without `OneAtATime`, `FieldsAreOurs` is false, and so is `AnswerIsOurs`:
  section 6.

Its second part is under `OneAtATime` and `FairOffers`. `FairOffers` says of the files that a session offers what
`Seller::encrypt` gives them: all blocks encrypted under one algorithm, and each session one file, which may be
encrypted again (under one key throughout if that may happen during a sale).
- `BuyIsFair`: `Spec => IsFair`, the refinement of `FairExchange`.
- `KeysInDatabaseAreRight`: `StoredKeysAreRight`, a part of its invariant.
- `BuyTypeCorrect`: `TypeOK`.

The invariant `FairInv` follows a file through the protocol. Contracts on the network are
for a file of the seller that the coin was made for (`OffersAreOurs`), with an id of
their own (`IdsDiffer`); a seller in a sale has a file of its own and the contract of
one message (`SellersFiles`, `SalesAreOffers`); between the stages of a resolution
the arbiter's keys are those of a file of the seller (`KeysAreOfAFile`); who endorses a
coin has the file (`BuyersAreOurs`, `EndorsersHaveIt`); and when the arbiter has
endorsed it the database has an entry (`ResolvedAreStored`, `StoredForOffers`) with keys
that open the contract's ciphertext (`StoredKeysAreRight`). The last is the hard one: the
proof of the seller shows the decryption of one block only, at the place of the
challenge, and the other keys are right because they were taken from one file.
All hypotheses are needed: without `OneAtATime`, `IsFair` is violated (section 6). With
a file of one key per block that is encrypted again in a sale, the right key of
the block that is challenged says nothing of the other blocks. With two files in one
session, a coin of one `R` pays for either. `MCBuyExchange` has TLC evaluate
`FairOffers` on the instances of the runs.

`BarterProofs`, for any files, rounds and bounds:
- `TypeCorrect`: `TypeOK`, with no hypothesis.
- `RightKeysForKeys`: the action property `KeysForKeys`, with no hypothesis: whatever
  was encrypted again, mistaken or shortened on the way, a responder gets keys from the
  arbiter only in exchange for right ones.
- `RoundsDoNotMix`: `SameRound`, if a responder's file stays as it is in a round
  (`~FilesMayChange`).
- `ArbiterServesInTime`: `InTimeRequestAccepted`, for sessions that barter (`"buy" \notin
  Deals`): the arbiter refuses the responder of a buy whenever it comes (section 6).
- `BarterIsFair`: `Spec => IsFair`, between the two parties alone (`~Arbitration`);
  a resolution violates it (section 6).

The first four follow from `IInv`: every ciphertext and message that ever travelled is
of one of the two forms the initiator makes (`Traffic`), each party's contract is
about the ciphertexts it holds (`InitiatorsDeal`, `RespondersDeal`,
`RespondersFile`), whoever gave keys was set up (`RespondersSetup`), and
between the stages of a resolution the arbiter works on the responder's request
(`ArbitersView`, which needs no `OneAtATime`: there is one responder, and its new requests
start afresh). Fairness needs three facts about rounds (`FairInv`): a contract of a barter
has the initiator's key of one round, and the contract of the round under way is the
only one with that key (`OneKeyEach`); a key is sent only after the file of every contract
with this key has come (`KeysAreEarned`); and so is an endorsement (`CoinsAreEarned`).
TLC has checked both invariants on the instances of the runs.

`WithdrawalProofs`, for any sessions and sizes: `WalletsGood`, `RequestsAccepted`
and `OneWallet` are the three invariants of `withdraw`, under `Once` and
`DistinctDenoms` (no two sessions of one denomination). The invariant says that
a request on the network is what the fields of its session still say
(`RequestsAreOurs`), that an answer is on the request of the one session with its
denomination (`AnswersAreOurs`), and that what `verify` returned is such an
answer (`PartialsVerified`). Both conditions are needed: without either,
`WalletsAreGood` is false (section 6).

`MerkleProofs`, for any number of blocks (up to 2^29), any challenges, and any blocks on
either side: `MerkleTypeOK`, `MerkleHonest` and `MerkleShowsBlock` are the invariants
`TypeOK`, `HonestIsAccepted` and `AcceptedShowsBlock` of `merkle`. The inductive
invariant `IInv` (`MerkleInv`) has four parts. `TreeInv`: the nodes that `makeRoot` has
computed are the hashes of those below. `ProofsInv`: a proof, finished or
not, has one element per level, whose path is that of the neighbour of the node computed so
far. `CheckInv`: as long as the check of a proof has not ended, the node computed
differs from the tree's if the block shown did, since a hash determines what was
hashed; lemma `Climb` is that step. `HonestInv`: with the contract's blocks
and nothing damaged, table and proofs hold nodes of the tree. `CheckInv` needs no
more than that the paths are right, which the prover's code computes from the
challenges; the verifier does not look at them.

`MerkleSharedNodes` is `SharedNodesAreRight`, about the table that all proofs of a round
share. Its invariant `SharedInv` says that an inner node of the table agrees with
the contract's tree if and only if every leaf under it does. That is inductive
because the leaves under a node are those under its two children (`UnderNode`), which is a
fact about quotients: the ancestor of a leaf at some level is its number divided by a power
of two, and dividing by `2 * w` is dividing by `w` and then by 2 (`HalfQuotient`).

`ArithmeticProofs` has the invariants of `arithmetic`, of which `ArithmeticTypeCorrect`
is the first.

*Four squares*, for any numbers that the search of `_decompose` can handle:
`SquaresAlwaysRight` is `Spec => []SquaresAreRight`. The cache adds little (`RootsInv`);
the work is `DecomposeIsRight`, along the cases of `FourSquares.cpp`:
- a non-residue of a prime is found, in the table of primes or above it: the search goes no further
  than the prime itself, with which `jacobi` answers -1 (`NonResidueIsNumber`);
- a root of -1 modulo a prime is what `iunit` answers, or `decomposePrime` answers that
  the number was no prime (`PrimeIsTwoSquares`); `PowerMod` stays a residue on the way
  (`PowerIsResidue`);
- `EuclidIsRight`: the remainders of Euclid's algorithm keep an invariant, of which the
  code computes nothing (`Kept`). Beside two neighbouring remainders `a`, `b` run two
  numbers `ta`, `tb` with `a * tb + b * ta = p`, and `p` divides `a^2 + ta^2`, `b^2 + tb^2`
  and `a * b - ta * tb`. Where the algorithm stops, `tb` is the next remainder and
  `b^2 + tb^2` can only be `p` itself (`KeptLast`);
- `p = y^2 + z^2` makes `2p` the sum of the squares of `y + z` and `y - z`
  (`TwiceAPrimeIsRight`), and the parity of the first `x` keeps `n - x^2` even, or odd, for all
  that follow;
- the largest square taken from a number that is 7 modulo 8 is less than it
  (`LargestSquareIsLess`), and powers of 4 go in and come out again (`DoublingIsRight`).

*Tables of powers*, for any groups and invertible bases, any lengths of exponents, rows and
digits, and any number of bases: `AnswersAlwaysRight` is `Spec => []AnswersAreRight`. The
invariant (`TablesAreRight`) says that every table is a function of what it is stored
under, so that a table that is found is the one that would be made: `MultiExpCacher`'s of bases
and modulus (under the bases alone, two groups would share a table), `PowerCache`'s and
`MultiExpCache`'s of names. That each of the three then answers with the
product of the powers is in `ExponentiationProofs`:
- first the laws of exponents for what is multiplied out (`PowersAdd`, `PowersMultiply`,
  `PowersOfProduct`; `ProductAdd` and `ProductMultiply` for lists), and that square and
  multiply computes it (`PowerModIsPower`), also with a negative exponent, for
  which the base must have an inverse (`PowerModIsRepeated`);
- then digits: an exponent below a digit, the digit, and what is above make up the exponent
  (`DigitSplit`), digits beyond its length are 0 (`DigitBeyond`), and the cell that
  `expcol` puts together has the digits that went in (`CellDigits`);
- `SimultaneousIsProduct`: the cells of `precompute` are products of the bases of their mask, up
  to the modulus, by which the first factor of a cell is not reduced
  (`PrecomputeIsProduct`), and after each column of bits the accumulator is the product of the
  powers with the exponents shifted to that column;
- `TableModPowIsPower`: row `r` has the powers of the base to the `2^(K * r)`
  (`MultiplierIsPower`), after each word the result is the power to what is below, and
  words that are not 0 are in rows that the table has;
- `MultiexpIsProduct`: the same for digits of several exponents, whose number is no more
  than that of the rows.

*Counter mode*, for any size of words and blocks, any initial vector, and a file no longer
than the block numbers reach: `PartsAlwaysAgree` is `Spec => []PartsAgree`. Every byte
is clear, or XORed with the byte of the key stream for its place in the file, and
with nothing else (`FileInv`). What makes a part encrypted at an offset agree with a
file encrypted at once is `StreamByPlace`: the loop that encrypts a part, started
at any offset, uses at each step the block and the byte that the place has in the
file. The loop is a function defined by recursion on the number of bytes; its values are
found by going to the least step at which they would differ. That no byte of the stream
serves twice is `PlacesDiffer`: different places have different counters
(`CountersDiffer`) or different bytes of a block.

*Groups*, for any primes, factors and draws: `GeneratorsAlwaysGenerate` is
`Spec => []GeneratorsGenerate`. The invariant (`MadeInv`) says of the group, and of the one
that the published copy was made from, by which primes it was made and how each generator
was drawn. What follows for a generator needs some number theory:
- `Fermat`: multiplication by a number that the prime does not divide takes the units apart into
  orbits, each with as many elements as the number has powers (`OrbitHasOrder`); taking one orbit
  after another away leaves nothing, and so the order divides `p - 1` (`ClosedIsMultiple`);
- a number whose power to a prime is 1, and which is not 1, has as many powers as the prime says
  (`PrimeOrder`, `CountPowers`). That is the theorem for a prime group, whose generators are powers to
  `factor` that are not 1 (`PrimeGenerates`);
- in an RSA group with `p = 2h + 1` and `q = 2k + 1` there are at most `h * k` squares of units
  (`FewSquaresOfBoth`), as each is told by its two remainders. A square that is a unit is 1 to
  the power `h * k`, and if it is 1 neither to `h` nor to `k`, it has `h * k` powers
  (`ProductIsOrder`), all of them squares: so they are all the squares (`SquareGenerates`). It is
  here that the two powers `rsaIsGenerator` looks at, and `p` being other than `q`, are needed.

Each loop of the code is a function defined by recursion, and that there is such a function
has to be proved. `LoopProofs` does it once: `TailRecursion` for any loop that hands on its
state, whether it ends or not, `DescendingRecursion` and `CountedLoopExists` for
those that count. What the loop computes then follows from the least number that could refute
it (`LeastNumber`, `Counting`). It also has what several proofs need of remainders and of inverses
modulo a prime (`SameRemainder`, `InverseModPrime`).

**Assumptions.** They are those declared in the modules, and TLC evaluates each in the runs.
`WalletSizeAssumption`, `WithdrawalAssumption`, `TimesAssumption`, `ExchangeAssumption`,
`BarterAssumption` and `LengthAssumption` give the constants their types, and say that a
file has as many blocks in clear as encrypted, that a stray key is none of the initiator's,
and how far block numbers reach. `NullIsNoObject` and `NullIsNoContract` say that the
null pointer is not a coin, a contract or an escrow. `SpendingAssumption` says that the
order of the group is prime and that the pseudo-random function `1/(seed + J)` is defined on
every index of the wallet, as it is in the code unless an inverse fails to exist.
`SizesAssumption`, `ChallengesAssumption` and `PowersAssumption` are those of `Merkle`; the last
states facts of arithmetic (2^(k+1) = 2 * 2^k up to k = 29) that the provers do not
know of. `SearchesEnd` is that of `Arithmetic`, for the numbers that are decomposed: `_decompose`
finds a prime ("No case for the following to return is known", `FourSquares.cpp:547`), which is
no theorem for all numbers. `NamesAssumption` of `Interpreter` says that `NameOrder` has the names that
are sorted. `ExponentiationAssumption`
says that the bases of a call are of one group and invertible, and that exponents have at most
`MAX_EXPLEN` bits (with more, the code reads past a table: section 6). `GroupsAssumption` says that
what NTL answers when it is asked for a prime is one: its primality test is trusted, which the
code does too. `CachedAssumption` gives a constant its type.

**Only model-checked.**
- Liveness (`SellerIsPaid`, `ResponderIsServed`, `WithdrawalEnds`, `Judged`), which is beyond
  the prover, as `ENABLED` is.
- The properties of `zkp`: a parser and the passes over a tree are recursive operators, and
  the provers have no SMT backend in a module that reaches one. What a recursive
  definition computes for every input would need an induction theorem of the library, each of
  which takes an operator as a parameter, and these the provers cannot instantiate.

Where a recursion has a closed form and is over numbers, as in counter mode, or is not needed
but for a least number, as for inverses, the theorem that a well-founded relation has minimal
elements (which is about sets) takes the place of induction.

## 5. What is not modelled

- The soundness of proofs, encryption and signatures: values carry what a
  verifier would find out. Secrecy is out of scope.
- Merkle trees over a raw buffer (`initHashChunks`): the exchanges hash files as vectors of
  blocks. There, the last bytes of a buffer that is not a multiple of `CHUNK_SIZE` are in no leaf, since the number of
  chunks is rounded down.
- The bank's deposit database, the network and the arbiter's database are not in
  the repository; the network and the database are modelled from how the objects
  are used.
- Serialization, except for the wallet's file and where it loses something.
- `Seller::reset`: it leaves freed ciphertexts in its vectors, so that there is
  no defined outcome of using the seller again before it is given files. `FEResponder::reset` deletes
  contract and message and leaves the pointers (`FEResponder.cpp:51-52`); the model has them
  as `NULL`, resets a responder only when it has a contract, and reads neither until `check` has
  assigned them anew.
- Crashes of a party called out of turn: keys given to an initiator between `continueRound` and
  `barter`, whose contract is `NULL` (`FEInitiator.cpp:199`), and a message given to a
  responder without a round or a setup, also after a reset, which reads the first block of an empty
  ciphertext (`FEResponder.cpp:136`). `Answering` and `Ready` leave these steps out. For
  the initiator nothing is lost: one that has crashed does nothing more, which `Spec` allows at any
  time and no fairness excludes.
  Copy constructors and overloads that wrap one argument in a vector.
- The lexer generated by ANTLR (a program is its tokens), and `Printer.cpp`. `ExponentSub`
  assigns to local variables only, so that it changes no tree; `UnusedVariables` is
  compiled in on demand and prints warnings.
- `GroupSquareMod`, `checkGroupSetup`, the lengths of moduli and orders, the second way to find
  generators of an RSA group (`setGeneratorCheckMode` is never called), and the ciphers
  in modes that are OpenSSL's.
- The environment keeps pointers to the caller's groups (`Interpreter.cpp:35`); that the
  groups outlive it is the caller's duty. `decomp_cache` has no lock
  (`FourSquares.cpp:457`); the repository starts no threads.
- Programs that the code cannot represent: a product of integers in a group's equation makes
  `DLRepresentation::computeValue` reduce by the wrong modulus or follow a null
  pointer; none of the examples has one.

## 6. Where the code and its comments disagree

The first two are counterexamples of runs.
1. *A double spender is not identified* (`identify`). The `R` in `T` is a random
   number drawn by `ecash.txt`, not the `R` the coin was made for (`Coin.cpp:22`).
   `BoundCoinsIdentify` shows that the bank's formula is right for coins in which
   the two are the same.
2. *A buyer does not find the stored keys* (`buy_fetch`): they are stored under
   the hash of the contract's id, which is itself a hash of `r`; `buyerResolve`
   looks up the hash of `r` (`Arbiter.cpp:11`, `Arbiter.cpp:60`). The notion of
   delivery in `IsFair` is therefore the entry of the contract's id.

Six more are not among the runs; TLC finds each violation with
`tlc -config <cfg> <module>`, where the configuration is the one named, with the change named if any:

3. *The cache takes one job for another* (`MCInterpreter`, `MCZkpAlike.cfg`, `CachedIsFresh`):
   `check` looks "if program has already been compiled, with the same groups and inputs used"
   (`Interpreter.cpp:29-30`), but inputs are hashed as decimals with nothing in between
   (`Hash.cpp:33`), so that 1 private and 11 public messages are taken for 11 and 1. With that
   pair `HonestIsAccepted` is violated as well: an honest prover throws. Of a group only the
   modulus counts (`Interpreter.cpp:182`), not its generators, and of a program only the name of
   its file, which `ProgramMaker` uses for each of its programs (`ProgramMaker.cpp:32`). With
   the moduli and the numbers of messages the same and commitments to other bases, the
   second recipient gets the environment of the first one's program. That happens in the run
   `zkp`, whose properties therefore speak of a program of the file and not of the present one.
4. *A second withdrawal of another denomination works* (`MCWithdrawal`, `MCWithdrawRepeated.cfg`,
   `OtherDenominationFails`): `testWithdrawRepeated` says of the same denomination "works
   (weird, why?)" and of another "doesn't work" (`Test.cpp:1363-1364`). By the code as it is
   both do. The tools of the two withdrawals share parameters, keys and the cache of programs.
   `WithdrawalEnds` and this configuration show that the tools and messages of different
   denominations do not disturb each other, with proofs taken to be sound and complete;
   `HonestIsAccepted` and `CachedIsFresh` of `zkp` show that the programs of a second
   denomination are compiled for its own group, whatever was compiled before, and their
   proofs accepted. The reason is that the moduli are part of the key: without
   them (the mutant `hashOfInputs`) the second denomination is given the group and generators
   of the first, which may be what the comment saw; it may be older than the key.
5. *Overlapping resolutions* (`MCBuyExchange`, `MCBuyFair.cfg` with `OneAtATime = FALSE`,
   `Spec` and only the property `IsFair`): stage II works on whatever fields the last
   stage I left. With one ciphertext in both sessions the proof verifies, and the keys go
   under the other contract, although they are stored "for the buyer to retrieve at some
   later date" (`Arbiter.h:32`).
6. *A responder's resolution stores nothing* (`MCBarterExchange`, `MCBarterDispute.cfg`
   with the property `IsFair`): `responderResolveII` never calls `updateDB`; `Arbiter.h:38` speaks of
   storing the keys.
7. *A responder can dispute right keys* (`MCBarterExchange`, `MCBarterDispute.cfg`,
   `NoDisputeOverRightKeys`): it is answered with the endorsement if "the initiator's keys
   were incorrect" (`Arbiter.h:48`), but `proveIncorrectKeys` pairs the initiator's ciphertext
   with a proof of its own plaintext (`FEResponder.cpp:309`), which shows nothing.
8. *Upper bounds are not strict* (`MCInterpreter`, `MCZkp.cfg` with only the property `UpperBoundsAreOpen`):
   a program must write `0 <= J < W` (`DescribeRelations.cpp:86`), and the
   proof is of `(J - 0)(W - J) >= 0`, which `J = W` satisfies (`Translator.cpp:147`).
   `AcceptedIsTrue` takes the bound as what is proved.

Others, seen while modelling and represented in the models, without a run:
overlapping resolutions also violate `AnswerIsOurs`; a buyer refuses a right key
after a wrong one, since `ptext` grows with every check (`Buyer.cpp:154`); a
second `Buyer::buy` replaces coin and endorsement before it throws (`Buyer.cpp:44-61`); keys are
indexed by the position of the challenge (`Arbiter.cpp:84`), so that a proof
about a file with one key per block can fail; a responder of a *buy* is always
refused by the arbiter, which looks for a signature of the escrow
(`FEInitiator.cpp:153`, `Arbiter.cpp:147`); a key ending in zero bytes loses them
(`Arbiter.cpp:194`); challenges may repeat (`MerkleVerifier.cpp:18`);
`FEResponder::sell` stays busy after it throws (`FEResponder.cpp:119`); a
withdrawal's contribution that is used twice leaves a commitment that no longer opens to
`s`, while an answer to the first request still passes `verify`, and `getWallet`
then returns a wallet whose signature is on other numbers
(`UserWithdrawTool.cpp:137`, with `Once = FALSE`); so does an answer to another
session of the same denomination (`UserWithdrawTool.cpp:171`); the bank offers the
first seven of the nine sizes listed (`BankWithdrawTool.h:42`); its full
commitment is to another generator than the user's and is never used
(`BankWithdrawTool.cpp:32`, `UserWithdrawTool.cpp:41`); `UndefinedVariables` never
reports a name, since its first visit to the tree makes an entry for each name used, and its
second visit takes the entry for a definition (`UndefinedVariables.cpp:7`, `UndefinedVariables.cpp:32`);
`x = y^3` is taken for a proof of a square (`DescribeRelations.cpp:48`); whether a range is in an RSA group is
asked when no group is known yet (`DescribeRelations.cpp:92`); an exponent of
more than 2050 bits reads past the table of a single base (`PowerCache.h:63`), and one of more
than 2048 fails an assertion for two (`MultiExpCache.h:87`); `GroupRSA::isGenerator` accepts
elements that are no squares, against its comment (`GroupRSA.cpp:191`), and throws in the public copy; four squares of a
negative number are "found" (`FourSquares.cpp:475`); counter mode at an offset of 2^36
bytes starts anew while a file encrypted at once carries into the next word
(`Ciphertext.cpp:328`).

## 7. Plan

Done: `CoinPool`, `Wallet`, `Spending` with `SpendingProofs`; the buy
protocol with `BuyExchangeProofs`; `Withdrawal` with
`WithdrawalProofs`; the barter protocol with `BarterProofs`; `Merkle` with `MerkleProofs`; the
ZKP interpreter from tokens to verdict; groups, exponentiation, four squares, and counter
mode with `LoopProofs`, `ExponentiationProofs` and `ArithmeticProofs`.

What is left, in this order:
1. *Proofs:* of the interpreter, `CachedIsFresh` and `SecretsStayPrivate` seem within reach
   only with the passes given as constants.
2. *Composition:* withdrawal and spending as two provers and verifiers of
   `Interpreter` rather than with proofs taken to be sound.
3. *The rest:* `GroupSquareMod`, verifiable encryption over a small group, the lexer.
