------------------------- MODULE BuyExchangeProofs --------------------------
(***************************************************************************)
(* Proofs about BuyExchange.tla, for any number of sessions, any files and *)
(* any network: what a seller may rely on, whoever the messages come from, *)
(* when the arbiter ends one resolution before it begins another.          *)
(***************************************************************************)
EXTENDS BuyExchange, SequenceTheorems, TLAPS

\* The fields of the objects, and that the objects keep them.
IsBuyer(x) == DOMAIN x = {"inProgress", "coin", "ctext", "ptext", "contract",
                          "r", "coins"}
IsSeller(x) == DOMAIN x = {"inProgress", "ptext", "ctext", "contract",
                           "coinPrime", "escrow", "endorsed", "challenges"}
IsArbiter(x) == DOMAIN x = {"keys", "contract", "endorsement", "message",
                            "ptVerifier", "ctVerifier"}

Shape == /\ buyer = [s \in Sessions |-> buyer[s]]
         /\ seller = [s \in Sessions |-> seller[s]]
         /\ \A s \in Sessions : IsBuyer(buyer[s]) /\ IsSeller(seller[s])
         /\ IsArbiter(arbiter)
         /\ now \in Nat

\* Contracts that travel, and those that sellers accepted, have a timeout.
Timed ==
  /\ \A m \in network : m.type = "buy" => m.body.contract.timeout \in Nat
  /\ \A s \in Sessions :
        seller[s].inProgress => seller[s].contract.timeout \in Nat

\* A seller that sold has a coin made for the value R it asked for.
SoldForR == \A s \in Sessions :
               seller[s].inProgress => seller[s].coinPrime.R = s

\* While a seller holds challenges the arbiter's fields are those of its request,
\* and its contract was shown in time.
FieldsAreOurs ==
  \A s \in Sessions :
     seller[s].challenges # <<>> =>
        /\ seller[s].inProgress
        /\ arbiter.contract = seller[s].contract
        /\ arbiter.endorsement = seller[s].coinPrime
        /\ seller[s].contract.id \in inTime

\* Every answer of the arbiter goes to a seller that has sold, and endorses its
\* coin.
Answers ==
  \A m \in network :
     m.type = "resolution" => /\ m.to \in Sessions
                              /\ seller[m.to].inProgress
                              /\ m.body = seller[m.to].coinPrime

IInv == Shape /\ Timed /\ SoldForR /\ FieldsAreOurs /\ Answers /\ StoredInTime

\* New objects satisfy the invariant.
LEMMA InitIInv == Init => IInv
<1>. SUFFICES ASSUME Init PROVE IInv
  OBVIOUS
<1>1. Shape
  BY DEF Init, Shape, IsBuyer, IsSeller, IsArbiter, NewBuyer, NewSeller, NewArbiter
<1>2. Timed /\ SoldForR /\ FieldsAreOurs /\ Answers
  BY DEF Init, NewSeller, Timed, SoldForR, FieldsAreOurs, Answers
<1>3. StoredInTime
  BY DEF Init, StoredInTime
<1>. QED
  BY <1>1, <1>2, <1>3 DEF IInv

\* A step that leaves sellers, arbiter and database alone and sends neither an
\* offer nor an answer of the arbiter.
LEMMA OthersKeep ==
  ASSUME IInv, UNCHANGED <<seller, arbiter, db, inTime>>,
         \A m \in network' \ network : m.type \notin {"buy", "resolution"}
  PROVE  Timed' /\ SoldForR' /\ FieldsAreOurs' /\ Answers' /\ StoredInTime'
BY DEF IInv, Timed, SoldForR, FieldsAreOurs, Answers, StoredInTime

\* setFiles changes the files of one seller and nothing the invariant looks at.
LEMMA OfferingIInv ==
  ASSUME IInv, NEW s \in Sessions, Offering(s)
  PROVE  IInv'
<1>1. PICK f \in Offers[s] : SetFiles(s, f.ptext, f.ctext)
  BY DEF Offering
<1>2. UNCHANGED <<buyer, arbiter, db, now, network, inTime>>
  BY DEF Offering
<1>3. seller' = [seller EXCEPT ![s] = [seller[s] EXCEPT !.ptext = f.ptext, !.ctext = f.ctext]]
  BY <1>1 DEF SetFiles
<1>4. IsSeller([seller[s] EXCEPT !.ptext = f.ptext, !.ctext = f.ctext])
  BY DEF IInv, Shape, IsSeller
<1>5. Shape'
  BY <1>2, <1>3, <1>4 DEF IInv, Shape
<1>6. \A t \in Sessions : /\ seller'[t].inProgress = seller[t].inProgress
                          /\ seller'[t].contract = seller[t].contract
                          /\ seller'[t].coinPrime = seller[t].coinPrime
                          /\ seller'[t].challenges = seller[t].challenges
  BY <1>3 DEF IInv, Shape, IsSeller
<1>. QED
  BY <1>2, <1>5, <1>6 DEF IInv, Timed, SoldForR, FieldsAreOurs, Answers, StoredInTime

\* A buyer's step changes one buyer, whose fields it keeps.
BuyerStep(s) == /\ \E x : IsBuyer(x) /\ buyer' = [buyer EXCEPT ![s] = x]
                /\ UNCHANGED <<seller, arbiter, db, now, inTime>>

\* The objects keep their fields in a buyer's step.
LEMMA BuyerStepShape ==
  ASSUME IInv, NEW s \in Sessions, BuyerStep(s)
  PROVE  Shape'
<1>1. PICK x : IsBuyer(x) /\ buyer' = [buyer EXCEPT ![s] = x]
  BY DEF BuyerStep
<1>. QED
  BY <1>1 DEF IInv, Shape, BuyerStep

\* The contract that Buyer::buy makes has a timeout.
LEMMA BuyingIInv ==
  ASSUME IInv, NEW s \in Sessions, Buying(s)
  PROVE  IInv'
<1>1. PICK coin \in {MadeCoin(s, s), buyer[s].coin} :
        Buy(s, coin, seller[s].ctext, seller[s].ptext, now)
  BY DEF Buying
<1>. DEFINE contract == NewContract(<<s, buyer[s].r + 1>>, seller[s].ptext,
                                    seller[s].ctext, now)
            x == [buyer[s] EXCEPT !.inProgress = TRUE, !.coin = coin,
                    !.ctext = seller[s].ctext, !.contract = contract,
                    !.r = buyer[s].r + 1,
                    !.coins = buyer[s].coins + IF coin = buyer[s].coin THEN 0 ELSE 1]
<1>2. buyer' = [buyer EXCEPT ![s] = x]
  BY <1>1 DEF Buy
<1>3. IsBuyer(x) /\ x.contract = contract
  BY DEF IInv, Shape, IsBuyer
<1>4. Shape'
  BY <1>2, <1>3, BuyerStepShape DEF BuyerStep, Buying
<1>5. contract.timeout = now + TimeoutLength
  BY DEF NewContract
<1>6. contract.timeout \in Nat
  BY <1>5, TimesAssumption DEF IInv, Shape
<1>7. buyer'[s].contract = contract
  BY <1>2, <1>3 DEF IInv, Shape
<1>8. network' = network \cup {[type |-> "buy", body |-> Offer(s)']}
  BY DEF Buying, Send
<1>9. Offer(s)'.contract = contract
  BY <1>7 DEF Offer, BuyMessage
<1>. QED
  BY <1>4, <1>6, <1>8, <1>9
  DEF IInv, Buying, Timed, SoldForR, FieldsAreOurs, Answers, StoredInTime

\* What else buyers do changes neither sellers nor arbiter.
LEMMA BuyerSideIInv ==
  ASSUME IInv, NEW s \in Sessions,
         \/ BuyingThrows(s) \/ Paying(s) \/ PayingThrows(s)
         \/ Resetting(s) \/ BuyerResolving(s)
  PROVE  IInv'
<1>1. CASE BuyingThrows(s)
  <2>1. BuyerStep(s)
    BY <1>1 DEF IInv, Shape, IsBuyer, BuyingThrows, BuyThrows, BuyerStep
  <2>. QED
    BY <1>1, <2>1, BuyerStepShape, OthersKeep DEF IInv, BuyingThrows
<1>2. CASE Paying(s)
  <2>1. PICK keys \in KeysInFlight : Pay(s, keys)
    BY <1>2 DEF Paying
  <2>2. BuyerStep(s)
    BY <1>2, <2>1 DEF IInv, Shape, IsBuyer, Paying, Pay, CheckKey, BuyerStep
  <2>3. network' = network \cup {[type |-> "endorsement", to |-> s,
                                  body |-> buyer[s].coin]}
    BY <1>2 DEF Paying, Send
  <2>. QED
    BY <1>2, <2>2, <2>3, BuyerStepShape, OthersKeep DEF IInv, Paying
<1>3. CASE PayingThrows(s)
  <2>1. PICK keys \in KeysInFlight : PayThrows(s, keys)
    BY <1>3 DEF PayingThrows
  <2>2. BuyerStep(s)
    BY <1>3, <2>1
    DEF IInv, Shape, IsBuyer, PayingThrows, PayThrows, CheckKey, BuyerStep
  <2>. QED
    BY <1>3, <2>2, BuyerStepShape, OthersKeep DEF IInv, PayingThrows
<1>4. CASE Resetting(s)
  <2>1. BuyerStep(s)
    BY <1>4 DEF IInv, Shape, IsBuyer, Resetting, ResetBuyer, BuyerStep
  <2>. QED
    BY <1>4, <2>1, BuyerStepShape, OthersKeep DEF IInv, Resetting
<1>5. CASE BuyerResolving(s)
  BY <1>5, OthersKeep DEF IInv, Shape, BuyerResolving
<1>. QED
  BY <1>1, <1>2, <1>3, <1>4, <1>5

\* Seller::sell starts from a seller without challenges and takes a coin made
\* for its R.
LEMMA SellingIInv ==
  ASSUME IInv, NEW s \in Sessions, Selling(s)
  PROVE  IInv'
<1>1. PICK m \in network :
        /\ m.type = "buy"
        /\ Sell(s, m.body, now)
        /\ network' = network \cup {[type |-> "keys", body |-> SentKeys(seller[s].ctext)]}
  BY DEF Selling, Send
<1>2. UNCHANGED <<buyer, arbiter, db, now, inTime>>
  BY DEF Selling
<1>. DEFINE x == [seller[s] EXCEPT !.inProgress = TRUE, !.contract = m.body.contract,
                    !.escrow = m.body.escrow, !.coinPrime = m.body.coinPrime]
<1>3. seller' = [seller EXCEPT ![s] = x]
  BY <1>1 DEF Sell
<1>4. /\ IsSeller(x)
      /\ x.contract = m.body.contract /\ x.coinPrime = m.body.coinPrime
      /\ x.challenges = seller[s].challenges
  BY DEF IInv, Shape, IsSeller
<1>5. Shape' /\ \A t \in Sessions \ {s} : seller'[t] = seller[t]
  BY <1>2, <1>3, <1>4 DEF IInv, Shape
<1>6. seller'[s] = x
  BY <1>3 DEF IInv, Shape
<1>7. ~seller[s].inProgress /\ m.body.coinPrime.R = s
  BY <1>1 DEF Sell, SellGuard, MessageChecks
<1>. HIDE DEF x
<1>8. Timed'
  BY <1>1, <1>4, <1>5, <1>6 DEF IInv, Timed
<1>9. SoldForR'
  BY <1>4, <1>5, <1>6, <1>7 DEF IInv, SoldForR
<1>10. FieldsAreOurs'
  BY <1>2, <1>4, <1>5, <1>6, <1>7 DEF IInv, FieldsAreOurs
<1>11. Answers'
  BY <1>1, <1>5, <1>7 DEF IInv, Answers
<1>12. StoredInTime'
  BY <1>2 DEF IInv, StoredInTime
<1>. QED
  BY <1>5, <1>8, <1>9, <1>10, <1>11, <1>12 DEF IInv

\* A sale that throws leaves a contract behind, in a seller that is not selling.
LEMMA SellingThrowsIInv ==
  ASSUME IInv, NEW s \in Sessions, SellingThrows(s)
  PROVE  IInv'
<1>1. PICK m \in network : SellThrows(s, m.body, now)
  BY DEF SellingThrows
<1>2. UNCHANGED <<buyer, arbiter, db, now, network, inTime>>
  BY DEF SellingThrows
<1>3. ~seller[s].inProgress
  BY <1>1 DEF SellThrows, SellGuard
<1>4. seller' = [seller EXCEPT ![s] = [seller[s] EXCEPT !.contract = m.body.contract]]
  BY <1>1 DEF SellThrows
<1>5. /\ Shape'
      /\ \A t \in Sessions \ {s} : seller'[t] = seller[t]
      /\ seller'[s].inProgress = seller[s].inProgress
      /\ seller'[s].challenges = seller[s].challenges
  BY <1>2, <1>4 DEF IInv, Shape, IsSeller
<1>. QED
  BY <1>2, <1>3, <1>5
  DEF IInv, Timed, SoldForR, FieldsAreOurs, Answers, StoredInTime

\* endorseCoin at most gives the challenges up.
LEMMA EndorsingIInv ==
  ASSUME IInv, NEW s \in Sessions, Endorsing(s)
  PROVE  IInv'
<1>1. PICK m \in network : EndorseCoin(s, m.body)
  BY DEF Endorsing
<1>2. UNCHANGED <<buyer, arbiter, db, now, network, inTime>>
  BY DEF Endorsing
<1>3. /\ Shape'
      /\ \A t \in Sessions \ {s} : seller'[t] = seller[t]
      /\ seller'[s].inProgress = seller[s].inProgress
      /\ seller'[s].contract = seller[s].contract
      /\ seller'[s].coinPrime = seller[s].coinPrime
      /\ seller'[s].challenges \in {<<>>, seller[s].challenges}
  BY <1>1, <1>2 DEF IInv, Shape, IsSeller, EndorseCoin
<1>. QED
  BY <1>2, <1>3 DEF IInv, Timed, SoldForR, FieldsAreOurs, Answers, StoredInTime

\* The contract of a seller whose request the arbiter accepts is in time.
LEMMA AcceptedInTime ==
  ASSUME IInv, NEW s \in Sessions, seller[s].inProgress,
         CheckTimeout(seller[s].contract, now)
  PROVE  now <= seller[s].contract.timeout + Tolerance
<1>1. seller[s].contract.timeout \in Nat /\ now \in Nat /\ Tolerance \in Nat
  BY TimesAssumption DEF IInv, Shape, Timed
<1>. QED
  BY <1>1 DEF CheckTimeout

\* Stage I: the fields of the arbiter become those of the seller that asks, and
\* no other seller holds challenges.
LEMMA ResolvingIIInv ==
  ASSUME IInv, OneAtATime, NEW s \in Sessions, ResolvingI(s)
  PROVE  IInv'
<1>. DEFINE message == ResolveI(s).message
            c == seller[s].contract
            accepted == SellerAccepted(message, now)
<1>1. /\ message.contract = c
      /\ message.coinPrime = seller[s].coinPrime
      /\ message.escrow = seller[s].escrow
  BY DEF ResolveI
<1>2. /\ seller[s].inProgress /\ seller[s].challenges = <<>>
      /\ \A t \in Sessions \ {s} : seller[t].challenges = <<>>
      /\ UNCHANGED <<buyer, db, now, network>>
  BY DEF ResolvingI, MayResolve
<1>3. /\ IsArbiter(arbiter')
      /\ arbiter'.contract = c
      /\ accepted => arbiter'.endorsement = seller[s].coinPrime
  <2>1. arbiter' = [arbiter EXCEPT
           !.keys = ResolveI(s).keys, !.contract = c,
           !.endorsement = IF EscrowOpens(message, now)
                           THEN message.escrow.endorsement ELSE arbiter.endorsement,
           !.ptVerifier = IF accepted THEN c.ptHashB ELSE arbiter.ptVerifier,
           !.ctVerifier = IF accepted THEN c.ctHashB ELSE arbiter.ctVerifier]
    BY <1>1 DEF ResolvingI, SellerResolveI
  <2>2. accepted => /\ EscrowOpens(message, now)
                    /\ message.escrow.endorsement = seller[s].coinPrime
    BY <1>1 DEF SellerAccepted
  <2>. QED
    BY <2>1, <2>2 DEF IInv, Shape, IsArbiter
<1>4. inTime \subseteq inTime' /\ (accepted => c.id \in inTime')
  <2>1. inTime' = IF now <= c.timeout + Tolerance
                  THEN inTime \cup {c.id} ELSE inTime
    BY <1>1 DEF ResolvingI
  <2>2. accepted => CheckTimeout(c, now)
    BY <1>1 DEF SellerAccepted, EscrowOpens
  <2>. QED
    BY <1>2, <2>1, <2>2, AcceptedInTime
<1>5. /\ seller' = [t \in Sessions |-> seller'[t]]
      /\ \A t \in Sessions \ {s} : seller'[t] = seller[t]
      /\ IsSeller(seller'[s])
      /\ seller'[s].inProgress = seller[s].inProgress
      /\ seller'[s].contract = c
      /\ seller'[s].coinPrime = seller[s].coinPrime
      /\ seller'[s].challenges # <<>> => accepted
  <2>1. CASE accepted
    <3>1. PICK challenges : seller' = [seller EXCEPT ![s].challenges = challenges]
      BY <1>1, <2>1 DEF ResolvingI
    <3>. QED
      BY <2>1, <3>1 DEF IInv, Shape, IsSeller
  <2>2. CASE ~accepted
    BY <1>1, <1>2, <2>2 DEF ResolvingI, IInv, Shape
  <2>. QED
    BY <2>1, <2>2
<1>. HIDE DEF message, accepted, c
<1>6. Shape'
  BY <1>2, <1>3, <1>5 DEF IInv, Shape
<1>7. c = seller[s].contract
  BY DEF c
<1>8. Timed'
  BY <1>2, <1>5, <1>7 DEF IInv, Timed
<1>9. SoldForR'
  BY <1>2, <1>5 DEF IInv, SoldForR
<1>10. Answers'
  BY <1>2, <1>5 DEF IInv, Answers
<1>11. FieldsAreOurs'
  <2>. SUFFICES ASSUME NEW t \in Sessions, seller'[t].challenges # <<>>
                PROVE  /\ seller'[t].inProgress
                       /\ arbiter'.contract = seller'[t].contract
                       /\ arbiter'.endorsement = seller'[t].coinPrime
                       /\ seller'[t].contract.id \in inTime'
    BY DEF FieldsAreOurs
  <2>1. t = s
    BY <1>2, <1>5
  <2>2. accepted
    BY <1>5, <2>1
  <2>. QED
    BY <1>2, <1>3, <1>4, <1>5, <2>1, <2>2
<1>12. StoredInTime'
  BY <1>2, <1>4 DEF IInv, StoredInTime
<1>. QED
  BY <1>6, <1>8, <1>9, <1>10, <1>11, <1>12 DEF IInv

\* Stage II: what is stored and what is answered are the fields of stage I.
LEMMA ResolvingIIIInv ==
  ASSUME IInv, NEW s \in Sessions, ResolvingII(s)
  PROVE  IInv'
<1>1. /\ seller[s].challenges # <<>>
      /\ UNCHANGED <<buyer, seller, arbiter, now, inTime>>
      /\ network' = network \cup {[type |-> "resolution", to |-> s,
                                   body |-> arbiter.endorsement]}
      /\ DOMAIN db' = DOMAIN db \cup {HashVector(arbiter.contract.id)}
  BY DEF ResolvingII, SellerResolveII, Send
<1>2. /\ seller[s].inProgress
      /\ arbiter.endorsement = seller[s].coinPrime
      /\ arbiter.contract.id \in inTime
  BY <1>1 DEF IInv, FieldsAreOurs
<1>3. Shape' /\ Timed' /\ SoldForR' /\ FieldsAreOurs'
  BY <1>1 DEF IInv, Shape, Timed, SoldForR, FieldsAreOurs
<1>4. Answers'
  BY <1>1, <1>2 DEF IInv, Answers
<1>5. StoredInTime'
  BY <1>1, <1>2 DEF IInv, StoredInTime
<1>. QED
  BY <1>3, <1>4, <1>5 DEF IInv

\* A proof that does not verify changes the seller's challenges only, and time
\* passes without changing a field.
LEMMA ThrowsAndTickIInv ==
  ASSUME IInv, Tick \/ \E s \in Sessions : ResolvingIIThrows(s)
  PROVE  IInv'
<1>1. CASE Tick
  BY <1>1 DEF IInv, Tick, Shape, Timed, SoldForR, FieldsAreOurs, Answers, StoredInTime
<1>2. CASE \E s \in Sessions : ResolvingIIThrows(s)
  <2>1. PICK s \in Sessions : ResolvingIIThrows(s)
    BY <1>2
  <2>2. UNCHANGED <<buyer, arbiter, db, now, network, inTime>>
    BY <2>1 DEF ResolvingIIThrows
  <2>3. /\ Shape'
        /\ \A t \in Sessions : /\ seller'[t].inProgress = seller[t].inProgress
                              /\ seller'[t].contract = seller[t].contract
                              /\ seller'[t].coinPrime = seller[t].coinPrime
                              /\ seller'[t].challenges \in {<<>>, seller[t].challenges}
    BY <2>1, <2>2 DEF ResolvingIIThrows, IInv, Shape, IsSeller
  <2>. QED
    BY <2>2, <2>3 DEF IInv, Timed, SoldForR, FieldsAreOurs, Answers, StoredInTime
<1>. QED
  BY <1>1, <1>2

\* Every step keeps IInv, when resolutions do not overlap.
LEMMA NextIInv ==
  ASSUME IInv, OneAtATime, [Next]_vars
  PROVE  IInv'
<1>1. CASE UNCHANGED vars
  BY <1>1
  DEF vars, IInv, Shape, Timed, SoldForR, FieldsAreOurs, Answers, StoredInTime
<1>2. CASE Tick
  BY <1>2, ThrowsAndTickIInv
<1>3. ASSUME NEW s \in Sessions, SessionNext(s) PROVE IInv'
  BY <1>3, OfferingIInv, BuyingIInv, BuyerSideIInv, SellingIInv, SellingThrowsIInv,
     EndorsingIInv, ResolvingIIInv, ResolvingIIIInv, ThrowsAndTickIInv
  DEF SessionNext
<1>. QED
  BY <1>1, <1>2, <1>3 DEF Next

\* The invariant of Spec under which the theorems below hold.
LEMMA SpecIInv == OneAtATime /\ Spec => []IInv
<1>1. OneAtATime /\ IInv /\ [Next]_vars => IInv'
  BY NextIInv
<1>2. CASE OneAtATime
  <2>1. IInv /\ [Next]_vars => IInv'
    BY <1>1, <1>2
  <2>. QED
    BY InitIInv, <2>1, PTL DEF Spec
<1>3. CASE ~OneAtATime
  BY <1>3, PTL
<1>. QED
  BY <1>2, <1>3

\* What a step of a seller's must keep for its coin to be its own.
CoinInv == /\ seller = [s \in Sessions |-> seller[s]]
           /\ \A s \in Sessions : IsSeller(seller[s])
           /\ SoldForR

\* A step that gives one seller an object with the same coin, or with one made
\* for its value R.
SellerStep(s) ==
  \E x : /\ IsSeller(x) /\ seller' = [seller EXCEPT ![s] = x]
         /\ \/ x.inProgress = seller[s].inProgress /\ x.coinPrime = seller[s].coinPrime
            \/ x.coinPrime.R = s

\* Such a step keeps the coins with their sellers.
LEMMA SellerStepKeepsCoins ==
  ASSUME CoinInv, NEW s \in Sessions, SellerStep(s)
  PROVE  CoinInv'
BY DEF CoinInv, SellerStep, SoldForR

\* Every step of a session is one, or leaves the sellers alone.
LEMMA SessionNextKeepsCoins ==
  ASSUME CoinInv, NEW s \in Sessions, SessionNext(s)
  PROVE  CoinInv'
<1>. SUFFICES SellerStep(s) \/ UNCHANGED seller
  BY SellerStepKeepsCoins DEF CoinInv, SoldForR
<1>1. IsSeller(seller[s]) /\ seller = [t \in Sessions |-> seller[t]]
  BY DEF CoinInv
<1>2. CASE Offering(s)
  BY <1>1, <1>2 DEF Offering, SetFiles, SellerStep, IsSeller
<1>3. CASE Selling(s)
  <2>1. PICK m \in network : Sell(s, m.body, now)
    BY <1>3 DEF Selling
  <2>2. m.body.coinPrime.R = s
    BY <2>1 DEF Sell, MessageChecks
  <2>. DEFINE x == [seller[s] EXCEPT !.inProgress = TRUE, !.contract = m.body.contract,
                      !.escrow = m.body.escrow, !.coinPrime = m.body.coinPrime]
  <2>3. IsSeller(x) /\ x.coinPrime.R = s
    BY <1>1, <2>2 DEF IsSeller
  <2>4. seller' = [seller EXCEPT ![s] = x]
    BY <2>1 DEF Sell
  <2>. QED
    BY <2>3, <2>4 DEF SellerStep
<1>4. CASE SellingThrows(s)
  <2>1. PICK m \in network : SellThrows(s, m.body, now)
    BY <1>4 DEF SellingThrows
  <2>. DEFINE x == [seller[s] EXCEPT !.contract = m.body.contract]
  <2>2. /\ IsSeller(x) /\ x.coinPrime = seller[s].coinPrime
        /\ x.inProgress = seller[s].inProgress
    BY <1>1 DEF IsSeller
  <2>3. seller' = [seller EXCEPT ![s] = x]
    BY <2>1 DEF SellThrows
  <2>. QED
    BY <2>2, <2>3 DEF SellerStep
<1>5. CASE Endorsing(s)
  <2>1. PICK m \in network : EndorseCoin(s, m.body)
    BY <1>5 DEF Endorsing
  <2>. DEFINE x == [seller[s] EXCEPT
                      !.endorsed = seller[s].endorsed \/ m.body = seller[s].coinPrime,
                      !.challenges = IF m.body = seller[s].coinPrime THEN <<>>
                                     ELSE seller[s].challenges]
  <2>2. /\ IsSeller(x) /\ x.coinPrime = seller[s].coinPrime
        /\ x.inProgress = seller[s].inProgress
    BY <1>1 DEF IsSeller
  <2>3. seller' = [seller EXCEPT ![s] = x]
    BY <2>1 DEF EndorseCoin
  <2>. QED
    BY <2>2, <2>3 DEF SellerStep
<1>6. CASE ResolvingI(s)
  <2>1. CASE UNCHANGED seller
    BY <2>1
  <2>2. CASE \E challenges : seller' = [seller EXCEPT ![s].challenges = challenges]
    BY <1>1, <2>2 DEF SellerStep, IsSeller
  <2>. QED
    BY <1>6, <2>1, <2>2 DEF ResolvingI
<1>7. CASE ResolvingIIThrows(s)
  <2>1. \E challenges : seller' = [seller EXCEPT ![s].challenges = challenges]
    BY <1>7 DEF ResolvingIIThrows
  <2>. QED
    BY <1>1, <2>1 DEF SellerStep, IsSeller
<1>8. CASE ResolvingII(s)
  BY <1>8 DEF ResolvingII
<1>9. CASE \/ Buying(s) \/ BuyingThrows(s) \/ Paying(s) \/ PayingThrows(s)
           \/ Resetting(s) \/ BuyerResolving(s)
  BY <1>9 DEF Buying, BuyingThrows, Paying, PayingThrows, Resetting, BuyerResolving
<1>. QED
  BY <1>2, <1>3, <1>4, <1>5, <1>6, <1>7, <1>8, <1>9 DEF SessionNext

\* No two sellers accept the same coin, wherever the messages of buyers end up
\* and however resolutions overlap: each seller has a value R of its own, and
\* MessageChecks looks for it in the coin.
THEOREM CoinsAreSoldOnce == Spec => []CoinSoldOnce
<1>1. Init => CoinInv
  BY DEF Init, NewSeller, CoinInv, IsSeller, SoldForR
<1>2. CoinInv /\ [Next]_vars => CoinInv'
  <2>. SUFFICES ASSUME CoinInv, [Next]_vars PROVE CoinInv'
    OBVIOUS
  <2>1. CASE Tick \/ UNCHANGED vars
    BY <2>1 DEF Tick, vars, CoinInv, SoldForR
  <2>2. CASE \E s \in Sessions : SessionNext(s)
    BY <2>2, SessionNextKeepsCoins
  <2>. QED
    BY <2>1, <2>2 DEF Next
<1>3. CoinInv => CoinSoldOnce
  BY DEF CoinInv, SoldForR, CoinSoldOnce
<1>. QED
  BY <1>1, <1>2, <1>3, PTL DEF Spec

\* Arbiter::sellerResolveII returns the field that a stage I has set: when no
\* other stage I comes between, the seller gets the endorsement of its own coin.
THEOREM SellersGetTheirEndorsement == OneAtATime /\ Spec => []AnswerIsOurs
<1>1. IInv => AnswerIsOurs
  BY DEF IInv, Answers, AnswerIsOurs
<1>. QED
  BY <1>1, SpecIInv, PTL

\* Keys are stored only under contracts that came in time, although stage II
\* looks at no clock.
THEOREM KeysAreStoredInTime == OneAtATime /\ Spec => []StoredInTime
<1>1. IInv => StoredInTime
  BY DEF IInv
<1>. QED
  BY <1>1, SpecIInv, PTL
-----------------------------------------------------------------------------
(* The buy protocol is a fair exchange: keys in the arbiter's database are  *)
(* right for whoever finds them under its contract, and a seller's coin is *)
(* endorsed only when its buyer has the file or can get it.                *)

\* The blocks that a buyer may come to hold.
Blocks == {Garbage} \cup
          UNION {UNION {{f.ptext[i] : i \in DOMAIN f.ptext} : f \in Offers[s]} : s \in Sessions}

\* The contract c is one for the file f.
IsFor(c, f) == /\ c.ptHashB = MerkleHash(f.ptext)
               /\ c.ctHashB = MerkleHash(f.ctext)
               /\ c.encAlgB = f.ctext[1].alg
               /\ c.ptHashBlocksB = Len(f.ptext)

\* A buyer holds coins made for the value R of its own seller, and works on a
\* contract for a file of that seller.
BuyersAreOurs ==
  \A s \in Sessions :
     /\ buyer[s].r \in Nat
     /\ buyer[s].coin = NULL \/ buyer[s].coin.R = s
     /\ buyer[s].ptext \in Seq(Blocks)
     /\ buyer[s].inProgress =>
           \E f \in Offers[s] : IsFor(buyer[s].contract, f) /\ buyer[s].ctext = f.ctext

\* The contract that comes with a coin is for a file of the seller that the coin
\* was made for; its id is of a number that was drawn.
OffersAreOurs ==
  \A m \in network : m.type = "buy" =>
     \E s \in Sessions : \E r \in 1 .. buyer[s].r : \E f \in Offers[s] :
        /\ m.body.coinPrime.R = s
        /\ m.body.contract.id = HashBytes(<<s, r>>)
        /\ IsFor(m.body.contract, f)

\* No two contracts have the same id.
IdsDiffer ==
  \A m, n \in network :
     m.type = "buy" /\ n.type = "buy" /\ m.body.contract.id = n.body.contract.id
        => m.body.contract = n.body.contract

\* A seller has one of its files, from before its first sale.
SellersFiles ==
  \A s \in Sessions : seller[s].inProgress \/ seller[s].ctext # <<>> =>
     \E f \in Offers[s] : seller[s].ptext = f.ptext /\ seller[s].ctext = f.ctext

\* What a seller accepted came with one message, and is for its file as long as
\* the file stays.
SalesAreOffers ==
  \A s \in Sessions : seller[s].inProgress =>
     /\ \E m \in network : /\ m.type = "buy"
                           /\ m.body.contract = seller[s].contract
                           /\ m.body.coinPrime = seller[s].coinPrime
     /\ FilesMayChange \/ seller[s].contract.ctHashB = MerkleHash(seller[s].ctext)

\* The arbiter's keys are those of a file that the seller has had since stage I,
\* and its verifiers are those of the contract.
KeysAreOfAFile ==
  \A s \in Sessions : seller[s].challenges # <<>> =>
     /\ 1 \in DOMAIN seller[s].challenges
     /\ seller[s].challenges[1] \in 1 .. seller[s].contract.ptHashBlocksB
     /\ arbiter.ctVerifier = seller[s].contract.ctHashB
     /\ \E g \in Offers[s] :
           /\ arbiter.keys = KeysOf(g.ctext)
           /\ FilesMayChange \/ seller[s].contract.ctHashB = MerkleHash(g.ctext)

\* Who endorses a coin has the seller's file.
EndorsersHaveIt ==
  \A m \in network : m.type = "endorsement" =>
     /\ m.to \in Sessions
     /\ \A f \in Offers[m.to] : <<m.to, MerkleHash(f.ptext)>> \in received

\* When the arbiter has endorsed a coin the keys are in its database.
ResolvedAreStored ==
  \A m \in network : m.type = "resolution" =>
     HashVector(seller[m.to].contract.id) \in DOMAIN db

\* Keys are stored under contracts that were sent.
StoredForOffers ==
  \A e \in DOMAIN db :
     \E m \in network : m.type = "buy" /\ e = HashVector(m.body.contract.id)

FairInv == /\ BuyersAreOurs /\ OffersAreOurs /\ IdsDiffer
           /\ SellersFiles /\ SalesAreOffers /\ KeysAreOfAFile
           /\ EndorsersHaveIt /\ ResolvedAreStored /\ StoredForOffers
           /\ StoredKeysAreRight
-----------------------------------------------------------------------------
(* Files and keys.                                                         *)

\* The parts of an EncBuffer.
LEMMA EncBufferParts ==
  ASSUME NEW p, NEW k, NEW a, NEW x, x = Encrypt(p, k, a)
  PROVE  x.plain = p /\ x.key = k /\ x.alg = a
BY DEF Encrypt

\* The parts of an encrypted file.
LEMMA EncryptedFile ==
  ASSUME NEW f, Encrypted(f)
  PROVE  /\ Len(f.ptext) \in Nat \ {0}
         /\ f.ptext = [i \in 1 .. Len(f.ptext) |-> f.ptext[i]]
         /\ DOMAIN f.ctext = 1 .. Len(f.ptext)
         /\ \A i \in 1 .. Len(f.ptext) :
               /\ f.ptext[i] # Garbage
               /\ f.ctext[i].plain = f.ptext[i]
               /\ f.ctext[i].alg = f.ctext[1].alg
<1>. DEFINE T == {f.ptext[i] : i \in DOMAIN f.ptext} \ {Garbage}
<1>1. f.ptext \in Seq(T) /\ f.ptext # <<>>
  BY DEF Encrypted
<1>2. /\ Len(f.ptext) \in Nat \ {0}
      /\ DOMAIN f.ptext = 1 .. Len(f.ptext)
      /\ f.ptext \in [1 .. Len(f.ptext) -> T]
  <2>. HIDE DEF T
  <2>. QED  BY <1>1
<1>3. f.ctext = [i \in 1 .. Len(f.ptext) |->
                   Encrypt(f.ptext[i], f.ctext[i].key, f.ctext[1].alg)]
  BY <1>2 DEF Encrypted
<1>4. \A i \in 1 .. Len(f.ptext) :
         f.ctext[i] = Encrypt(f.ptext[i], f.ctext[i].key, f.ctext[1].alg)
  BY <1>3
<1>5. \A i \in 1 .. Len(f.ptext) :
         f.ctext[i].plain = f.ptext[i] /\ f.ctext[i].alg = f.ctext[1].alg
  BY <1>4, EncBufferParts
<1>. QED
  BY <1>2, <1>3, <1>5

\* A vector with the key of each block gives each block its key.
LEMMA KeysOfFile ==
  ASSUME NEW f, Encrypted(f), NEW i \in 1 .. Len(f.ptext)
  PROVE  KeyFor(KeysOf(f.ctext), i) = f.ctext[i].key
<1>. DEFINE n == Len(f.ptext)
            keys == KeysOf(f.ctext)
<1>1. n \in Nat \ {0} /\ DOMAIN f.ctext = 1 .. n
  BY EncryptedFile
<1>2. keys = [j \in 1 .. n |-> f.ctext[j].key]
  BY <1>1 DEF KeysOf
<1>3. Len(keys) = n /\ DOMAIN keys = 1 .. n /\ \A j \in 1 .. n : keys[j] = f.ctext[j].key
  BY <1>1, <1>2
<1>. HIDE DEF keys
<1>. QED
  BY <1>1, <1>3 DEF KeyFor, keys

\* Keys that are right for every block are right for the contract.
LEMMA RightForAll ==
  ASSUME NEW c, NEW f, Encrypted(f), IsFor(c, f), NEW keys,
         \A i \in 1 .. Len(f.ptext) : KeyFor(keys, i) = f.ctext[i].key
  PROVE  KeysAreRight(c, keys)
<1>1. /\ DOMAIN f.ctext = 1 .. Len(f.ptext)
      /\ f.ptext = [i \in 1 .. Len(f.ptext) |-> f.ptext[i]]
      /\ \A i \in 1 .. Len(f.ptext) : Decrypt(f.ctext[i], KeyFor(keys, i), f.ctext[1].alg) = f.ptext[i]
  BY EncryptedFile DEF Decrypt
<1>2. DecryptAll(f.ctext, keys, f.ctext[1].alg) = f.ptext
  BY <1>1 DEF DecryptAll
<1>. QED
  BY <1>2 DEF KeysAreRight, Opens, IsFor, MerkleHash

\* The keys of a file are right for its contract.
LEMMA OwnKeysAreRight ==
  ASSUME NEW c, NEW f, Encrypted(f), IsFor(c, f)
  PROVE  KeysAreRight(c, KeysOf(f.ctext))
BY KeysOfFile, RightForAll

\* When files have one key each, the right key for one block is right for all.
LEMMA OneKeyIsRight ==
  ASSUME NEW c, NEW f, NEW g, Encrypted(f), Encrypted(g), f.ptext = g.ptext,
         OneKey(f), OneKey(g), IsFor(c, f), NEW i \in 1 .. Len(f.ptext),
         f.ctext[i].key = KeyFor(KeysOf(g.ctext), 1)
  PROVE  KeysAreRight(c, KeysOf(g.ctext))
<1>1. /\ Len(f.ptext) \in Nat \ {0}
      /\ DOMAIN f.ctext = 1 .. Len(f.ptext) /\ DOMAIN g.ctext = 1 .. Len(f.ptext)
  BY EncryptedFile
<1>2. \A j \in 1 .. Len(f.ptext) : KeyFor(KeysOf(g.ctext), j) = g.ctext[1].key
  BY <1>1, KeysOfFile DEF OneKey
<1>3. \A j \in 1 .. Len(f.ptext) : f.ctext[j].key = g.ctext[1].key
  BY <1>1, <1>2 DEF OneKey
<1>. QED
  BY <1>2, <1>3, RightForAll

\* Any keys make as many blocks of a ciphertext as the file has.
LEMMA DecryptedBlocks ==
  ASSUME NEW s \in Sessions, NEW f \in Offers[s], Encrypted(f), NEW keys, NEW alg
  PROVE  /\ DecryptAll(f.ctext, keys, alg) \in Seq(Blocks)
         /\ Len(DecryptAll(f.ctext, keys, alg)) = Len(f.ptext)
<1>. DEFINE n == Len(f.ptext)
            d == DecryptAll(f.ctext, keys, alg)
<1>1. /\ n \in Nat \ {0} /\ DOMAIN f.ctext = 1 .. n
      /\ f.ptext = [i \in 1 .. n |-> f.ptext[i]]
      /\ \A i \in 1 .. n : f.ctext[i].plain = f.ptext[i]
  BY EncryptedFile
<1>2. d = [i \in 1 .. n |-> Decrypt(f.ctext[i], KeyFor(keys, i), alg)]
  BY <1>1 DEF DecryptAll
<1>3. \A i \in 1 .. n : f.ptext[i] \in Blocks
  BY <1>1 DEF Blocks
<1>4. \A i \in 1 .. n : Decrypt(f.ctext[i], KeyFor(keys, i), alg) \in Blocks
  BY <1>1, <1>3 DEF Decrypt, Blocks
<1>. HIDE DEF n, d
<1>. QED
  BY <1>1, <1>2, <1>4 DEF n, d

\* A buyer that accepts keys has just decrypted the whole file with them: what
\* an earlier attempt left in ptext makes the check fail.
LEMMA AcceptedKeysAreRight ==
  ASSUME NEW s \in Sessions, NEW f \in Offers[s], Encrypted(f),
         IsFor(buyer[s].contract, f), buyer[s].ctext = f.ctext,
         buyer[s].ptext \in Seq(Blocks), NEW keys, KeyAccepted(s, keys)
  PROVE  KeysAreRight(buyer[s].contract, keys)
<1>. DEFINE n == Len(f.ptext)
            d == DecryptAll(f.ctext, keys, f.ctext[1].alg)
<1>1. n \in Nat \ {0}
  BY EncryptedFile
<1>2. d \in Seq(Blocks) /\ Len(d) = n
  BY DecryptedBlocks
<1>. HIDE DEF n, d
<1>3. buyer[s].ptext \o d = f.ptext
  <2>1. Decrypted(s, keys) = buyer[s].ptext \o d
    BY DEF Decrypted, IsFor, d
  <2>2. MerkleHash(Decrypted(s, keys)) = MerkleHash(f.ptext)
    BY DEF KeyAccepted, IsFor
  <2>. QED
    BY <2>1, <2>2 DEF MerkleHash
<1>4. Len(buyer[s].ptext) + n = n
  <2>1. Len(buyer[s].ptext \o d) = Len(buyer[s].ptext) + Len(d)
    BY <1>2, ConcatProperties
  <2>. QED
    BY <1>2, <1>3, <2>1 DEF n
<1>5. buyer[s].ptext = <<>>
  BY <1>1, <1>4
<1>6. d = f.ptext
  BY <1>2, <1>3, <1>5
<1>. QED
  BY <1>6 DEF KeysAreRight, Opens, IsFor, MerkleHash, d
-----------------------------------------------------------------------------
(* The invariant.                                                          *)

\* New objects and an empty network satisfy it.
LEMMA InitFairInv == Init => FairInv
<1>. SUFFICES ASSUME Init PROVE FairInv
  OBVIOUS
<1>1. BuyersAreOurs
  <2>1. /\ NewBuyer.r = 0 /\ NewBuyer.coin = NULL /\ NewBuyer.ptext = <<>>
        /\ ~ NewBuyer.inProgress
    BY DEF NewBuyer
  <2>. SUFFICES ASSUME NEW s \in Sessions
                PROVE  /\ buyer[s].r \in Nat
                       /\ buyer[s].coin = NULL
                       /\ buyer[s].ptext \in Seq(Blocks)
                       /\ ~ buyer[s].inProgress
    BY DEF BuyersAreOurs
  <2>2. buyer[s] = NewBuyer
    BY DEF Init
  <2>3. buyer[s].r = 0 /\ buyer[s].coin = NULL /\ buyer[s].ptext = <<>>
    BY <2>1, <2>2
  <2>4. ~ buyer[s].inProgress
    BY <2>1, <2>2
  <2>. QED
    BY <2>3, <2>4
<1>2. OffersAreOurs /\ IdsDiffer /\ EndorsersHaveIt /\ ResolvedAreStored
  BY DEF Init, OffersAreOurs, IdsDiffer, EndorsersHaveIt, ResolvedAreStored
<1>3. SellersFiles /\ SalesAreOffers /\ KeysAreOfAFile
  BY DEF Init, NewSeller, SellersFiles, SalesAreOffers, KeysAreOfAFile
<1>4. StoredForOffers /\ StoredKeysAreRight
  BY DEF Init, StoredForOffers, StoredKeysAreRight
<1>. QED
  BY <1>1, <1>2, <1>3, <1>4 DEF FairInv

\* What is said of sellers and arbiter stays true as long as they do nothing,
\* although more is on the network.
LEMMA SellersKeep ==
  ASSUME FairInv, UNCHANGED <<seller, arbiter, db>>, network \subseteq network',
         \A m \in network' \ network : m.type # "resolution"
  PROVE  SellersFiles' /\ SalesAreOffers' /\ KeysAreOfAFile' /\ ResolvedAreStored'
         /\ StoredForOffers'
<1>1. SellersFiles' /\ KeysAreOfAFile'
  BY DEF FairInv, SellersFiles, KeysAreOfAFile
<1>2. SalesAreOffers'
  BY DEF FairInv, SalesAreOffers
<1>3. ResolvedAreStored' /\ StoredForOffers'
  BY DEF FairInv, ResolvedAreStored, StoredForOffers
<1>. QED
  BY <1>1, <1>2, <1>3

\* What is said of offers stays true as long as none is made.
LEMMA OffersKeep ==
  ASSUME FairInv, \A t \in Sessions : buyer'[t].r = buyer[t].r,
         network \subseteq network', \A m \in network' \ network : m.type # "buy"
  PROVE  /\ OffersAreOurs' /\ IdsDiffer'
         /\ UNCHANGED db => StoredKeysAreRight'
         /\ UNCHANGED received /\ (\A m \in network' \ network : m.type # "endorsement")
               => EndorsersHaveIt'
<1>1. OffersAreOurs' /\ IdsDiffer'
  BY DEF FairInv, OffersAreOurs, IdsDiffer
<1>2. UNCHANGED db => StoredKeysAreRight'
  BY DEF FairInv, StoredKeysAreRight
<1>3. UNCHANGED received /\ (\A m \in network' \ network : m.type # "endorsement")
         => EndorsersHaveIt'
  BY DEF FairInv, EndorsersHaveIt
<1>. QED
  BY <1>1, <1>2, <1>3

\* A seller that changes its file is not selling, or the file may change.
LEMMA OfferingFair ==
  ASSUME IInv, FairInv, NEW s \in Sessions, Offering(s)
  PROVE  FairInv'
<1>1. PICK f \in Offers[s] : SetFiles(s, f.ptext, f.ctext)
  BY DEF Offering
<1>2. /\ UNCHANGED <<buyer, arbiter, db, now, network, received>>
      /\ seller[s].inProgress => FilesMayChange
  BY DEF Offering
<1>3. seller' = [seller EXCEPT ![s] = [seller[s] EXCEPT !.ptext = f.ptext, !.ctext = f.ctext]]
  BY <1>1 DEF SetFiles
<1>4. /\ \A t \in Sessions \ {s} : seller'[t] = seller[t]
      /\ seller'[s].ptext = f.ptext /\ seller'[s].ctext = f.ctext
      /\ \A t \in Sessions : /\ seller'[t].inProgress = seller[t].inProgress
                             /\ seller'[t].contract = seller[t].contract
                             /\ seller'[t].coinPrime = seller[t].coinPrime
                             /\ seller'[t].challenges = seller[t].challenges
  BY <1>3 DEF IInv, Shape, IsSeller
<1>5. SellersFiles'
  BY <1>4 DEF FairInv, SellersFiles
<1>6. SalesAreOffers'
  BY <1>2, <1>4 DEF FairInv, SalesAreOffers
<1>7. KeysAreOfAFile'
  BY <1>2, <1>4 DEF FairInv, KeysAreOfAFile
<1>8. ResolvedAreStored'
  BY <1>2, <1>4 DEF FairInv, ResolvedAreStored, IInv, Answers
<1>9. BuyersAreOurs' /\ StoredForOffers'
  BY <1>2 DEF FairInv, BuyersAreOurs, StoredForOffers
<1>. QED
  BY <1>2, <1>5, <1>6, <1>7, <1>8, <1>9, OffersKeep DEF FairInv

\* The contract that a buyer makes has a new id, and is for the seller's file.
LEMMA BuyingFair ==
  ASSUME IInv, FairInv, NEW s \in Sessions, Buying(s)
  PROVE  FairInv'
<1>1. PICK coin \in {MadeCoin(s, s), buyer[s].coin} :
        Buy(s, coin, seller[s].ctext, seller[s].ptext, now)
  BY DEF Buying
<1>. DEFINE r == buyer[s].r + 1
            c == NewContract(<<s, r>>, seller[s].ptext, seller[s].ctext, now)
            x == [buyer[s] EXCEPT !.inProgress = TRUE, !.coin = coin,
                    !.ctext = seller[s].ctext, !.contract = c, !.r = r,
                    !.coins = buyer[s].coins + IF coin = buyer[s].coin THEN 0 ELSE 1]
<1>2. /\ buyer' = [buyer EXCEPT ![s] = x]
      /\ coin # NULL /\ seller[s].ctext # <<>>
  BY <1>1 DEF Buy
<1>3. /\ x.inProgress /\ x.coin = coin /\ x.ctext = seller[s].ctext
      /\ x.contract = c /\ x.r = r /\ x.ptext = buyer[s].ptext
  BY DEF IInv, Shape, IsBuyer
<1>. HIDE DEF x
<1>4. buyer'[s] = x /\ \A t \in Sessions \ {s} : buyer'[t] = buyer[t]
  BY <1>2 DEF IInv, Shape
<1>5. coin.R = s
  BY <1>1, <1>2 DEF FairInv, BuyersAreOurs, MadeCoin
<1>6. PICK f \in Offers[s] : seller[s].ptext = f.ptext /\ seller[s].ctext = f.ctext
  BY <1>2 DEF FairInv, SellersFiles
<1>7. IsFor(c, f) /\ c.id = HashBytes(<<s, r>>)
  BY <1>6 DEF IsFor, NewContract
<1>. HIDE DEF c
<1>8. buyer[s].r \in Nat /\ r \in Nat /\ r > buyer[s].r
  BY DEF FairInv, BuyersAreOurs
<1>9. BuyersAreOurs'
  BY <1>3, <1>4, <1>5, <1>6, <1>7, <1>8 DEF FairInv, BuyersAreOurs
<1>10. PICK m : /\ network' = network \cup {m}
                /\ m.type = "buy" /\ m.body.coinPrime = coin /\ m.body.contract = c
  <2>1. network' = network \cup {[type |-> "buy", body |-> Offer(s)']}
    BY DEF Buying, Send
  <2>2. Offer(s)'.coinPrime = coin /\ Offer(s)'.contract = c
    BY <1>3, <1>4 DEF Offer, BuyMessage
  <2>. DEFINE sent == [type |-> "buy", body |-> Offer(s)']
  <2>3. sent.type = "buy" /\ sent.body = Offer(s)'
    OBVIOUS
  <2>. HIDE DEF sent
  <2>. QED
    BY <2>1, <2>2, <2>3 DEF sent
<1>. HIDE DEF r
<1>11. OffersAreOurs'
  <2>. SUFFICES ASSUME NEW n \in network', n.type = "buy"
                PROVE  \E t \in Sessions : \E q \in 1 .. buyer'[t].r : \E g \in Offers[t] :
                          /\ n.body.coinPrime.R = t
                          /\ n.body.contract.id = HashBytes(<<t, q>>)
                          /\ IsFor(n.body.contract, g)
    BY DEF OffersAreOurs
  <2>1. CASE n = m
    BY <1>3, <1>4, <1>5, <1>7, <1>8, <1>10, <2>1
  <2>2. CASE n \in network
    <3>1. PICK t, q :
             /\ t \in Sessions /\ q \in 1 .. buyer[t].r
             /\ n.body.coinPrime.R = t
             /\ n.body.contract.id = HashBytes(<<t, q>>)
             /\ \E g \in Offers[t] : IsFor(n.body.contract, g)
      BY <2>2 DEF FairInv, OffersAreOurs
    <3>2. buyer'[t].r = buyer[t].r \/ (t = s /\ buyer'[t].r = r)
      BY <1>3, <1>4, <3>1
    <3>3. q \in 1 .. buyer'[t].r
      BY <1>8, <3>1, <3>2
    <3>. QED
      BY <3>1, <3>3
  <2>. QED
    BY <1>10, <2>1, <2>2
<1>12. \A n \in network : n.type = "buy" => n.body.contract.id # c.id
  <2>. SUFFICES ASSUME NEW n \in network, n.type = "buy", n.body.contract.id = c.id
                PROVE  FALSE
    OBVIOUS
  <2>1. PICK t, q :
           t \in Sessions /\ q \in 1 .. buyer[t].r /\ n.body.contract.id = HashBytes(<<t, q>>)
    BY DEF FairInv, OffersAreOurs
  <2>2. <<t, q>> = <<s, r>>
    BY <1>7, <2>1 DEF HashBytes
  <2>. QED
    BY <1>8, <2>1, <2>2
<1>13. IdsDiffer'
  BY <1>10, <1>12 DEF FairInv, IdsDiffer
<1>14. EndorsersHaveIt'
  BY <1>10 DEF Buying, FairInv, EndorsersHaveIt
<1>15. StoredKeysAreRight'
  <2>1. HashVector(c.id) \notin DOMAIN db
    BY <1>12 DEF FairInv, StoredForOffers, HashVector
  <2>. QED
    BY <1>10, <2>1 DEF Buying, FairInv, StoredKeysAreRight
<1>. QED
  BY <1>9, <1>10, <1>11, <1>13, <1>14, <1>15, SellersKeep DEF Buying, FairInv
\* A buyer that keeps its number, and works on nothing new.
LEMMA BuyerKeeps ==
  ASSUME IInv, FairInv, NEW s \in Sessions, NEW x, buyer' = [buyer EXCEPT ![s] = x],
         x.r = buyer[s].r, x.coin = NULL \/ x.coin.R = s, x.ptext \in Seq(Blocks),
         x.inProgress => /\ buyer[s].inProgress
                         /\ x.contract = buyer[s].contract /\ x.ctext = buyer[s].ctext
  PROVE  BuyersAreOurs' /\ \A t \in Sessions : buyer'[t].r = buyer[t].r
<1>1. buyer'[s] = x /\ \A t \in Sessions \ {s} : buyer'[t] = buyer[t]
  BY DEF IInv, Shape
<1>2. \A t \in Sessions : buyer'[t].r = buyer[t].r
  BY <1>1
<1>3. BuyersAreOurs'
  BY <1>1 DEF FairInv, BuyersAreOurs
<1>. QED
  BY <1>2, <1>3

\* Steps of a buyer that send nothing.
LEMMA BuyerSideFair ==
  ASSUME FairOffers, IInv, FairInv, NEW s \in Sessions,
         \/ BuyingThrows(s) \/ PayingThrows(s) \/ Resetting(s) \/ BuyerResolving(s)
  PROVE  FairInv'
<1>1. UNCHANGED <<seller, arbiter, db, network, received>>
  BY DEF BuyingThrows, PayingThrows, Resetting, BuyerResolving
<1>2. /\ buyer[s].coin = NULL \/ buyer[s].coin.R = s
      /\ buyer[s].ptext \in Seq(Blocks)
  BY DEF FairInv, BuyersAreOurs
<1>3. BuyersAreOurs' /\ \A t \in Sessions : buyer'[t].r = buyer[t].r
  <2>1. CASE BuyingThrows(s)
    <3>. DEFINE x == [buyer[s] EXCEPT !.coin = MadeCoin(s, s), !.coins = buyer[s].coins + 1]
    <3>1. buyer' = [buyer EXCEPT ![s] = x]
      BY <2>1 DEF BuyingThrows, BuyThrows
    <3>2. /\ x.r = buyer[s].r /\ x.coin.R = s /\ x.ptext = buyer[s].ptext
          /\ x.inProgress = buyer[s].inProgress
          /\ x.contract = buyer[s].contract /\ x.ctext = buyer[s].ctext
      BY DEF IInv, Shape, IsBuyer, MadeCoin
    <3>. HIDE DEF x
    <3>. QED
      BY <1>2, <3>1, <3>2, BuyerKeeps
  <2>2. CASE PayingThrows(s)
    <3>1. PICK keys : /\ buyer' = [buyer EXCEPT ![s].ptext = Decrypted(s, keys)]
                      /\ buyer[s].inProgress
      BY <2>2 DEF PayingThrows, PayThrows, CheckKey
    <3>2. Decrypted(s, keys) \in Seq(Blocks)
      <4>1. PICK f \in Offers[s] : buyer[s].ctext = f.ctext
        BY <3>1 DEF FairInv, BuyersAreOurs
      <4>2. DecryptAll(f.ctext, keys, buyer[s].contract.encAlgB) \in Seq(Blocks)
        BY DecryptedBlocks DEF FairOffers
      <4>. QED
        BY <1>2, <4>1, <4>2 DEF Decrypted
    <3>. DEFINE x == [buyer[s] EXCEPT !.ptext = Decrypted(s, keys)]
    <3>3. buyer' = [buyer EXCEPT ![s] = x]
      BY <3>1
    <3>4. /\ x.r = buyer[s].r /\ x.coin = buyer[s].coin /\ x.ptext = Decrypted(s, keys)
          /\ x.inProgress = buyer[s].inProgress
          /\ x.contract = buyer[s].contract /\ x.ctext = buyer[s].ctext
      BY DEF IInv, Shape, IsBuyer
    <3>. HIDE DEF x
    <3>. QED
      BY <1>2, <3>2, <3>3, <3>4, BuyerKeeps
  <2>3. CASE Resetting(s)
    <3>. DEFINE x == [buyer[s] EXCEPT !.inProgress = FALSE, !.contract = NULL,
                        !.ptext = [i \in DOMAIN buyer[s].ptext |-> Garbage]]
    <3>1. buyer' = [buyer EXCEPT ![s] = x]
      BY <2>3 DEF Resetting, ResetBuyer
    <3>2. /\ x.r = buyer[s].r /\ x.coin = buyer[s].coin
          /\ x.ptext = [i \in DOMAIN buyer[s].ptext |-> Garbage] /\ ~ x.inProgress
      BY DEF IInv, Shape, IsBuyer
    <3>3. x.ptext \in Seq(Blocks)
      BY <1>2, <3>2 DEF Blocks
    <3>. HIDE DEF x
    <3>. QED
      BY <1>2, <3>1, <3>2, <3>3, BuyerKeeps
  <2>4. CASE BuyerResolving(s)
    BY <2>4 DEF BuyerResolving, FairInv, BuyersAreOurs
  <2>. QED
    BY <2>1, <2>2, <2>3, <2>4
<1>. QED
  BY <1>1, <1>3, SellersKeep, OffersKeep DEF FairInv

\* A buyer that endorses has decrypted the file of its session.
LEMMA PayingFair ==
  ASSUME FairOffers, IInv, FairInv, NEW s \in Sessions, Paying(s)
  PROVE  FairInv'
<1>1. PICK keys \in KeysInFlight :
        /\ Pay(s, keys)
        /\ network' = network \cup {[type |-> "endorsement", to |-> s, body |-> buyer[s].coin]}
        /\ received' = IF KeysAreRight(buyer[s].contract, keys)
                       THEN received \cup {<<s, buyer[s].contract.ptHashB>>}
                       ELSE received
        /\ UNCHANGED <<seller, arbiter, db>>
  BY DEF Paying, Send
<1>2. /\ buyer[s].inProgress /\ KeyAccepted(s, keys)
      /\ buyer' = [buyer EXCEPT ![s].ptext = Decrypted(s, keys)]
  BY <1>1 DEF Pay, CheckKey
<1>3. /\ buyer[s].coin = NULL \/ buyer[s].coin.R = s
      /\ buyer[s].ptext \in Seq(Blocks)
  BY DEF FairInv, BuyersAreOurs
<1>4. PICK f \in Offers[s] : IsFor(buyer[s].contract, f) /\ buyer[s].ctext = f.ctext
  BY <1>2 DEF FairInv, BuyersAreOurs
<1>5. Encrypted(f) /\ \A g \in Offers[s] : g.ptext = f.ptext
  BY DEF FairOffers
<1>6. KeysAreRight(buyer[s].contract, keys)
  BY <1>2, <1>3, <1>4, <1>5, AcceptedKeysAreRight
<1>7. received' = received \cup {<<s, MerkleHash(f.ptext)>>}
  BY <1>1, <1>4, <1>6 DEF IsFor
<1>8. Decrypted(s, keys) \in Seq(Blocks)
  <2>1. DecryptAll(f.ctext, keys, buyer[s].contract.encAlgB) \in Seq(Blocks)
    BY <1>5, DecryptedBlocks
  <2>. QED
    BY <1>3, <1>4, <2>1 DEF Decrypted
<1>9. BuyersAreOurs' /\ \A t \in Sessions : buyer'[t].r = buyer[t].r
  <2>. DEFINE x == [buyer[s] EXCEPT !.ptext = Decrypted(s, keys)]
  <2>1. buyer' = [buyer EXCEPT ![s] = x]
    BY <1>2
  <2>2. /\ x.r = buyer[s].r /\ x.coin = buyer[s].coin /\ x.ptext = Decrypted(s, keys)
        /\ x.inProgress = buyer[s].inProgress
        /\ x.contract = buyer[s].contract /\ x.ctext = buyer[s].ctext
    BY DEF IInv, Shape, IsBuyer
  <2>. HIDE DEF x
  <2>. QED
    BY <1>3, <1>8, <2>1, <2>2, BuyerKeeps
<1>10. PICK m : /\ network' = network \cup {m}
                /\ m.type = "endorsement" /\ m.to = s
  <2>. DEFINE sent == [type |-> "endorsement", to |-> s, body |-> buyer[s].coin]
  <2>1. sent.type = "endorsement" /\ sent.to = s
    OBVIOUS
  <2>. HIDE DEF sent
  <2>. QED
    BY <1>1, <2>1 DEF sent
<1>11. EndorsersHaveIt'
  BY <1>5, <1>7, <1>10 DEF FairInv, EndorsersHaveIt
<1>. QED
  BY <1>1, <1>9, <1>10, <1>11, SellersKeep, OffersKeep DEF FairInv

\* A seller accepts a contract for the file it has.
LEMMA SellingFair ==
  ASSUME IInv, FairInv, NEW s \in Sessions, Selling(s)
  PROVE  FairInv'
<1>1. PICK m \in network :
        /\ m.type = "buy"
        /\ Sell(s, m.body, now)
        /\ network' = network \cup {[type |-> "keys", body |-> SentKeys(seller[s].ctext)]}
  BY DEF Selling, Send
<1>2. UNCHANGED <<buyer, arbiter, db, received>>
  BY DEF Selling
<1>3. /\ ~ seller[s].inProgress
      /\ m.body.contract.ctHashB = MerkleHash(seller[s].ctext)
  BY <1>1 DEF Sell, SellGuard, ContractChecks, CheckBHash
<1>. DEFINE x == [seller[s] EXCEPT !.inProgress = TRUE, !.contract = m.body.contract,
                    !.escrow = m.body.escrow, !.coinPrime = m.body.coinPrime]
<1>4. seller' = [seller EXCEPT ![s] = x]
  BY <1>1 DEF Sell
<1>5. /\ x.inProgress /\ x.contract = m.body.contract /\ x.coinPrime = m.body.coinPrime
      /\ x.ptext = seller[s].ptext /\ x.ctext = seller[s].ctext
      /\ x.challenges = seller[s].challenges
  BY DEF IInv, Shape, IsSeller
<1>. HIDE DEF x
<1>6. seller'[s] = x /\ \A t \in Sessions \ {s} : seller'[t] = seller[t]
  BY <1>4 DEF IInv, Shape
<1>7. /\ network \subseteq network'
      /\ \A n \in network' \ network : n.type = "keys"
  BY <1>1
<1>8. SellersFiles'
  <2>1. seller[s].ctext # <<>>
    BY <1>1 DEF Sell, SellGuard
  <2>. QED
    BY <1>5, <1>6, <2>1 DEF FairInv, SellersFiles
<1>9. SalesAreOffers'
  <2>. SUFFICES ASSUME NEW t \in Sessions, seller'[t].inProgress
                PROVE  /\ \E n \in network' : /\ n.type = "buy"
                                              /\ n.body.contract = seller'[t].contract
                                              /\ n.body.coinPrime = seller'[t].coinPrime
                       /\ FilesMayChange \/ seller'[t].contract.ctHashB
                                               = MerkleHash(seller'[t].ctext)
    BY DEF SalesAreOffers
  <2>1. CASE t = s
    BY <1>1, <1>3, <1>5, <1>6, <1>7, <2>1
  <2>2. CASE t # s
    BY <1>6, <1>7, <2>2 DEF FairInv, SalesAreOffers
  <2>. QED
    BY <2>1, <2>2
<1>10. seller[s].challenges = <<>>
  BY <1>3 DEF IInv, FieldsAreOurs
<1>11. KeysAreOfAFile'
  BY <1>2, <1>5, <1>6, <1>10 DEF FairInv, KeysAreOfAFile
<1>12. ResolvedAreStored'
  BY <1>2, <1>3, <1>6, <1>7 DEF FairInv, ResolvedAreStored, IInv, Answers
<1>13. BuyersAreOurs' /\ StoredForOffers'
  BY <1>2, <1>7 DEF FairInv, BuyersAreOurs, StoredForOffers
<1>. QED
  BY <1>2, <1>7, <1>8, <1>9, <1>11, <1>12, <1>13, OffersKeep DEF FairInv

\* A seller that keeps its files, and that may lose its challenges, get its coin
\* endorsed or, when it is not selling, hold another contract.
SellerDrops(s, x) ==
  /\ seller' = [seller EXCEPT ![s] = x]
  /\ x.ptext = seller[s].ptext /\ x.ctext = seller[s].ctext
  /\ x.inProgress = seller[s].inProgress
  /\ x.coinPrime = seller[s].coinPrime
  /\ seller[s].inProgress => x.contract = seller[s].contract
  /\ x.challenges \in {<<>>, seller[s].challenges}

\* Such a step keeps the invariant.
LEMMA SellerDropsFair ==
  ASSUME IInv, FairInv, NEW s \in Sessions, NEW x, SellerDrops(s, x),
         UNCHANGED <<buyer, arbiter, db, network, received>>
  PROVE  FairInv'
<1>1. seller'[s] = x /\ \A t \in Sessions \ {s} : seller'[t] = seller[t]
  BY DEF SellerDrops, IInv, Shape
<1>2. SellersFiles' /\ SalesAreOffers'
  BY <1>1 DEF SellerDrops, FairInv, SellersFiles, SalesAreOffers
<1>3. KeysAreOfAFile'
  BY <1>1 DEF SellerDrops, FairInv, KeysAreOfAFile, IInv, FieldsAreOurs
<1>4. ResolvedAreStored'
  BY <1>1 DEF SellerDrops, FairInv, ResolvedAreStored, IInv, Answers
<1>5. BuyersAreOurs' /\ StoredForOffers'
  BY DEF FairInv, BuyersAreOurs, StoredForOffers
<1>. QED
  BY <1>2, <1>3, <1>4, <1>5, OffersKeep DEF FairInv

\* A sale that throws, an endorsement that arrives and a stage II that throws
\* are such steps.
LEMMA DroppingFair ==
  ASSUME IInv, FairInv, NEW s \in Sessions,
         SellingThrows(s) \/ Endorsing(s) \/ ResolvingIIThrows(s)
  PROVE  FairInv'
<1>. USE DEF IInv, Shape, IsSeller
<1>1. CASE SellingThrows(s)
  <2>1. PICK m \in network : SellThrows(s, m.body, now)
    BY <1>1 DEF SellingThrows
  <2>. DEFINE x == [seller[s] EXCEPT !.contract = m.body.contract]
  <2>2. SellerDrops(s, x)
    BY <2>1 DEF SellThrows, SellGuard, SellerDrops
  <2>. QED
    BY <1>1, <2>2, SellerDropsFair DEF SellingThrows
<1>2. CASE Endorsing(s)
  <2>1. PICK m \in network : EndorseCoin(s, m.body)
    BY <1>2 DEF Endorsing
  <2>. DEFINE x == [seller[s] EXCEPT
                      !.endorsed = seller[s].endorsed \/ m.body = seller[s].coinPrime,
                      !.challenges = IF m.body = seller[s].coinPrime THEN <<>>
                                     ELSE seller[s].challenges]
  <2>2. SellerDrops(s, x)
    BY <2>1 DEF EndorseCoin, SellerDrops
  <2>. QED
    BY <1>2, <2>2, SellerDropsFair DEF Endorsing
<1>3. CASE ResolvingIIThrows(s)
  <2>. DEFINE x == [seller[s] EXCEPT !.challenges = <<>>]
  <2>1. SellerDrops(s, x)
    BY <1>3 DEF ResolvingIIThrows, SellerDrops
  <2>. QED
    BY <1>3, <2>1, SellerDropsFair DEF ResolvingIIThrows
<1>. QED
  BY <1>1, <1>2, <1>3

\* What a seller accepted is a contract for a file of its session.
LEMMA SoldFile ==
  ASSUME IInv, FairInv, NEW s \in Sessions, seller[s].inProgress
  PROVE  /\ \E f \in Offers[s] : IsFor(seller[s].contract, f)
         /\ \E m \in network : /\ m.type = "buy" /\ m.body.coinPrime.R = s
                               /\ m.body.contract = seller[s].contract
<1>1. PICK m \in network : /\ m.type = "buy"
                           /\ m.body.contract = seller[s].contract
                           /\ m.body.coinPrime = seller[s].coinPrime
  BY DEF FairInv, SalesAreOffers
<1>2. seller[s].coinPrime.R = s
  BY DEF IInv, SoldForR
<1>3. \E f \in Offers[s] : IsFor(seller[s].contract, f)
  BY <1>1, <1>2 DEF FairInv, OffersAreOurs
<1>. QED
  BY <1>1, <1>2, <1>3

\* Stage I takes the keys of the file the seller has now, and asks for blocks of
\* the file of the contract.
LEMMA ResolvingIFair ==
  ASSUME OneAtATime, FairOffers, IInv, FairInv, NEW s \in Sessions, ResolvingI(s)
  PROVE  FairInv'
<1>. DEFINE message == ResolveI(s).message
            c == seller[s].contract
            accepted == SellerAccepted(message, now)
<1>1. message.contract = c
  BY DEF ResolveI
<1>2. /\ seller[s].inProgress /\ seller[s].challenges = <<>>
      /\ \A t \in Sessions \ {s} : seller[t].challenges = <<>>
      /\ UNCHANGED <<buyer, db, now, network, received>>
  BY DEF ResolvingI, MayResolve
<1>3. PICK g \in Offers[s] : seller[s].ptext = g.ptext /\ seller[s].ctext = g.ctext
  BY <1>2 DEF FairInv, SellersFiles
<1>4. PICK f \in Offers[s] : IsFor(c, f)
  BY <1>2, SoldFile
<1>5. /\ arbiter'.keys = KeysOf(g.ctext)
      /\ accepted => arbiter'.ctVerifier = c.ctHashB
  <2>1. arbiter' = [arbiter EXCEPT
           !.keys = ResolveI(s).keys, !.contract = c,
           !.endorsement = IF EscrowOpens(message, now)
                           THEN message.escrow.endorsement ELSE arbiter.endorsement,
           !.ptVerifier = IF accepted THEN c.ptHashB ELSE arbiter.ptVerifier,
           !.ctVerifier = IF accepted THEN c.ctHashB ELSE arbiter.ctVerifier]
    BY <1>1 DEF ResolvingI, SellerResolveI
  <2>2. ResolveI(s).keys = KeysOf(g.ctext)
    BY <1>3 DEF ResolveI
  <2>. HIDE DEF accepted, message, c
  <2>. QED
    BY <2>1, <2>2 DEF IInv, Shape, IsArbiter
<1>6. PICK ch : /\ ch # <<>> => accepted /\ ch \in Challenges(c)
                /\ seller'[s].challenges = ch
                /\ \A t \in Sessions \ {s} : seller'[t] = seller[t]
                /\ seller'[s].inProgress = seller[s].inProgress
                /\ seller'[s].contract = seller[s].contract
                /\ seller'[s].coinPrime = seller[s].coinPrime
                /\ seller'[s].ptext = seller[s].ptext
                /\ seller'[s].ctext = seller[s].ctext
  <2>1. CASE accepted
    <3>1. PICK ch \in Challenges(c) : seller' = [seller EXCEPT ![s].challenges = ch]
      BY <1>1, <2>1 DEF ResolvingI
    <3>. QED
      BY <2>1, <3>1 DEF IInv, Shape, IsSeller
  <2>2. CASE ~ accepted
    BY <1>1, <1>2, <2>2 DEF ResolvingI
  <2>. QED
    BY <2>1, <2>2
<1>7. ch # <<>> => 1 \in DOMAIN ch /\ ch[1] \in 1 .. c.ptHashBlocksB
  <2>1. c.ptHashBlocksB \in Nat \ {0}
    BY <1>4, EncryptedFile DEF FairOffers, IsFor
  <2>. DEFINE n == c.ptHashBlocksB
              k == IF n < numChallenges THEN n ELSE numChallenges
  <2>2. k \in Nat \ {0} /\ 1 \in 1 .. k
    BY <2>1 DEF numChallenges
  <2>3. Challenges(c) = [1 .. k -> 1 .. n]
    BY DEF Challenges
  <2>. HIDE DEF k, n
  <2>4. ch # <<>> => 1 \in DOMAIN ch /\ ch[1] \in 1 .. n
    BY <1>6, <2>2, <2>3
  <2>. QED
    BY <2>4 DEF n
<1>. HIDE DEF message, accepted
<1>8. /\ \A t \in Sessions \ {s} : seller'[t] = seller[t]
      /\ seller'[s].challenges = ch
      /\ \A t \in Sessions : /\ seller'[t].inProgress = seller[t].inProgress
                             /\ seller'[t].contract = seller[t].contract
                             /\ seller'[t].coinPrime = seller[t].coinPrime
                             /\ seller'[t].ptext = seller[t].ptext
                             /\ seller'[t].ctext = seller[t].ctext
  BY <1>6
<1>9. SellersFiles' /\ SalesAreOffers'
  BY <1>2, <1>8 DEF FairInv, SellersFiles, SalesAreOffers
<1>10. FilesMayChange \/ c.ctHashB = MerkleHash(g.ctext)
  BY <1>2, <1>3 DEF FairInv, SalesAreOffers
<1>11. KeysAreOfAFile'
  BY <1>2, <1>5, <1>6, <1>7, <1>8, <1>10 DEF KeysAreOfAFile
<1>12. ResolvedAreStored'
  BY <1>2, <1>8 DEF FairInv, ResolvedAreStored, IInv, Answers
<1>13. BuyersAreOurs' /\ StoredForOffers'
  BY <1>2 DEF FairInv, BuyersAreOurs, StoredForOffers
<1>. QED
  BY <1>2, <1>9, <1>11, <1>12, <1>13, OffersKeep DEF FairInv

\* When the proof of stage II verifies, the arbiter's keys are right for the
\* seller's contract: they are those of the very file, or the block that was
\* opened with the first of them shows that the only key is right.
LEMMA VerifiedKeysAreRight ==
  ASSUME FairOffers, IInv, FairInv, NEW s \in Sessions, seller[s].inProgress,
         seller[s].challenges # <<>>, VerifyKeys(ResolveII(s))
  PROVE  KeysAreRight(seller[s].contract, arbiter.keys)
<1>. DEFINE c == seller[s].contract
            i == seller[s].challenges[1]
<1>1. PICK f \in Offers[s] : IsFor(c, f)
  BY SoldFile
<1>2. /\ 1 \in DOMAIN seller[s].challenges /\ i \in 1 .. c.ptHashBlocksB
      /\ arbiter.ctVerifier = c.ctHashB
  BY DEF FairInv, KeysAreOfAFile
<1>3. PICK g \in Offers[s] : /\ arbiter.keys = KeysOf(g.ctext)
                             /\ FilesMayChange \/ c.ctHashB = MerkleHash(g.ctext)
  BY DEF FairInv, KeysAreOfAFile
<1>4. Encrypted(f) /\ Encrypted(g) /\ f.ptext = g.ptext
  BY DEF FairOffers
<1>5. CASE c.ctHashB = MerkleHash(g.ctext)
  <2>1. f.ctext = g.ctext
    BY <1>1, <1>5 DEF IsFor, MerkleHash
  <2>. QED
    BY <1>1, <1>3, <1>4, <2>1, OwnKeysAreRight
<1>6. CASE FilesMayChange
  <2>1. OneKey(f) /\ OneKey(g)
    BY <1>6 DEF FairOffers
  <2>2. PICK h \in Offers[s] : seller[s].ptext = h.ptext /\ seller[s].ctext = h.ctext
    BY DEF FairInv, SellersFiles
  <2>3. seller[s].ptext = f.ptext
    BY <2>2 DEF FairOffers
  <2>4. seller[s].ctext = f.ctext
    <3>1. ResolveII(s).ctRoot = MerkleHash(seller[s].ctext)
      BY DEF ResolveII
    <3>2. MerkleHash(seller[s].ctext) = MerkleHash(f.ctext)
      BY <1>1, <1>2, <3>1 DEF VerifyKeys, IsFor
    <3>. QED
      BY <3>2 DEF MerkleHash
  <2>5. i \in 1 .. Len(f.ptext)
    BY <1>1, <1>2 DEF IsFor
  <2>6. Decrypt(f.ctext[i], KeyFor(arbiter.keys, 1), arbiter.contract.encAlgB) = f.ptext[i]
    <3>. DEFINE proof == ResolveII(s)
    <3>1. /\ 1 \in DOMAIN proof.cTextBlocks
          /\ proof.cTextBlocks[1] = f.ctext[i] /\ proof.pTextLeaves[1] = f.ptext[i]
      BY <1>2, <2>3, <2>4 DEF ResolveII
    <3>. HIDE DEF proof, i
    <3>. QED
      BY <3>1 DEF VerifyKeys, proof
  <2>7. f.ptext[i] # Garbage
    BY <1>4, <2>5, EncryptedFile
  <2>8. f.ctext[i].key = KeyFor(arbiter.keys, 1)
    BY <2>6, <2>7 DEF Decrypt
  <2>. QED
    BY <1>1, <1>3, <1>4, <2>1, <2>5, <2>8, OneKeyIsRight
<1>. QED
  BY <1>3, <1>5, <1>6

\* Stage II stores keys that are right for the one contract with that id.
LEMMA ResolvingIIFair ==
  ASSUME FairOffers, IInv, FairInv, NEW s \in Sessions, ResolvingII(s)
  PROVE  FairInv'
<1>. DEFINE c == seller[s].contract
            entry == HashVector(c.id)
<1>1. /\ seller[s].inProgress /\ seller[s].challenges # <<>>
      /\ VerifyKeys(ResolveII(s))
      /\ UNCHANGED <<buyer, seller, arbiter, received>>
      /\ network' = network \cup {[type |-> "resolution", to |-> s,
                                   body |-> arbiter.endorsement]}
  BY DEF ResolvingII, MayResolve, SellerResolveII, Send
<1>2. arbiter.contract = c
  BY <1>1 DEF IInv, FieldsAreOurs
<1>3. /\ DOMAIN db' = DOMAIN db \cup {entry} /\ db'[entry] = arbiter.keys
      /\ \A e \in DOMAIN db \ {entry} : db'[e] = db[e]
  BY <1>2 DEF ResolvingII, SellerResolveII
<1>. HIDE DEF entry
<1>4. KeysAreRight(c, arbiter.keys)
  BY <1>1, VerifiedKeysAreRight
<1>5. PICK m : /\ network' = network \cup {m}
               /\ m.type = "resolution" /\ m.to = s
  <2>. DEFINE sent == [type |-> "resolution", to |-> s, body |-> arbiter.endorsement]
  <2>1. sent.type = "resolution" /\ sent.to = s
    OBVIOUS
  <2>. HIDE DEF sent
  <2>. QED
    BY <1>1, <2>1 DEF sent
<1>6. PICK o \in network : o.type = "buy" /\ o.body.contract = c
  BY <1>1, SoldFile
<1>7. SellersFiles' /\ SalesAreOffers' /\ KeysAreOfAFile'
  BY <1>1, <1>5 DEF FairInv, SellersFiles, SalesAreOffers, KeysAreOfAFile
<1>8. ResolvedAreStored' /\ StoredForOffers'
  BY <1>1, <1>3, <1>5, <1>6 DEF FairInv, ResolvedAreStored, StoredForOffers, entry
<1>9. StoredKeysAreRight'
  <2>. SUFFICES ASSUME NEW n \in network, n.type = "buy",
                       HashVector(n.body.contract.id) \in DOMAIN db'
                PROVE  KeysAreRight(n.body.contract, db'[HashVector(n.body.contract.id)])
    BY <1>5 DEF StoredKeysAreRight
  <2>1. CASE n.body.contract.id = c.id
    BY <1>3, <1>4, <1>6, <2>1 DEF FairInv, IdsDiffer, entry
  <2>2. CASE n.body.contract.id # c.id
    <3>1. HashVector(n.body.contract.id) # entry
      BY <2>2 DEF HashVector, entry
    <3>. QED
      BY <1>3, <3>1 DEF FairInv, StoredKeysAreRight
  <2>. QED
    BY <2>1, <2>2
<1>10. BuyersAreOurs'
  BY <1>1 DEF FairInv, BuyersAreOurs
<1>. QED
  BY <1>1, <1>5, <1>7, <1>8, <1>9, <1>10, OffersKeep DEF FairInv

\* Every step keeps FairInv, when sales are as encrypt has made them and
\* resolutions do not overlap.
LEMMA NextFairInv ==
  ASSUME OneAtATime, FairOffers, IInv, FairInv, [Next]_vars
  PROVE  FairInv'
<1>1. CASE UNCHANGED vars
  BY <1>1 DEF vars, FairInv, BuyersAreOurs, OffersAreOurs, IdsDiffer, SellersFiles,
              SalesAreOffers, KeysAreOfAFile, EndorsersHaveIt, ResolvedAreStored,
              StoredForOffers, StoredKeysAreRight
<1>2. CASE Tick
  <2>1. UNCHANGED <<buyer, seller, arbiter, db, network, received>>
    BY <1>2 DEF Tick
  <2>. QED
    BY <2>1 DEF FairInv, BuyersAreOurs, OffersAreOurs, IdsDiffer, SellersFiles,
                SalesAreOffers, KeysAreOfAFile, EndorsersHaveIt, ResolvedAreStored,
                StoredForOffers, StoredKeysAreRight
<1>3. ASSUME NEW s \in Sessions, SessionNext(s) PROVE FairInv'
  BY <1>3, OfferingFair, BuyingFair, BuyerSideFair, SellingFair, DroppingFair,
     PayingFair, ResolvingIFair, ResolvingIIFair
  DEF SessionNext
<1>. QED
  BY <1>1, <1>2, <1>3 DEF Next

\* The invariant of Spec under which the theorems below hold.
LEMMA SpecFairInv == OneAtATime /\ FairOffers /\ Spec => [](IInv /\ FairInv)
<1>1. OneAtATime /\ FairOffers /\ IInv /\ FairInv /\ [Next]_vars => IInv' /\ FairInv'
  BY NextIInv, NextFairInv
<1>2. CASE OneAtATime /\ FairOffers
  <2>1. IInv /\ FairInv /\ [Next]_vars => IInv' /\ FairInv'
    BY <1>1, <1>2
  <2>. QED
    BY InitIInv, InitFairInv, <2>1, PTL DEF Spec
<1>3. CASE ~(OneAtATime /\ FairOffers)
  BY <1>3, PTL
<1>. QED
  BY <1>2, <1>3

\* Whoever finds keys in the database under the id of a contract gets the file
\* that the contract is for.
THEOREM KeysInDatabaseAreRight == OneAtATime /\ FairOffers /\ Spec => []StoredKeysAreRight
<1>1. FairInv => StoredKeysAreRight
  BY DEF FairInv
<1>. QED
  BY <1>1, SpecFairInv, PTL
-----------------------------------------------------------------------------
(* The refinement.                                                         *)

\* What a step must not change of a seller for nobody to notice.
SaleStays(s) == /\ seller'[s].inProgress = seller[s].inProgress
                /\ seller[s].inProgress => seller'[s].contract = seller[s].contract
                /\ seller'[s].endorsed = seller[s].endorsed

\* A step that leaves sales, files received and the database alone.
LEMMA NobodyNotices ==
  ASSUME \A t \in Sessions : SaleStays(t), UNCHANGED <<received, db>>
  PROVE  UNCHANGED Fair!fairVars
<1>1. DeliveredNow' = DeliveredNow
  BY DEF DeliveredNow, SaleStays
<1>2. PaidNow' = PaidNow
  BY DEF PaidNow, SaleStays
<1>. QED
  BY <1>1, <1>2 DEF Fair!fairVars

\* A step that delivers in one session at most, and takes nothing back.
LEMMA OneDelivery ==
  ASSUME NEW s \in Sessions, \A t \in Sessions : seller'[t].endorsed = seller[t].endorsed,
         DeliveredNow \subseteq DeliveredNow',
         \A t \in Sessions \ {s} : t \in DeliveredNow' => t \in DeliveredNow
  PROVE  Fair!Deliver(s) \/ UNCHANGED Fair!fairVars
<1>1. PaidNow' = PaidNow
  BY DEF PaidNow
<1>2. DeliveredNow' = DeliveredNow \/ DeliveredNow' = DeliveredNow \cup {s}
  BY DEF DeliveredNow
<1>. QED
  BY <1>1, <1>2 DEF Fair!Deliver, Fair!fairVars

\* A sale delivers when the keys for its contract are known already.
LEMMA SellingIsFair ==
  ASSUME IInv, NEW s \in Sessions, Selling(s)
  PROVE  Fair!Deliver(s) \/ UNCHANGED Fair!fairVars
<1>1. PICK m \in network : Sell(s, m.body, now)
  BY DEF Selling
<1>. DEFINE x == [seller[s] EXCEPT !.inProgress = TRUE, !.contract = m.body.contract,
                    !.escrow = m.body.escrow, !.coinPrime = m.body.coinPrime]
<1>2. seller' = [seller EXCEPT ![s] = x] /\ ~ seller[s].inProgress
  BY <1>1 DEF Sell, SellGuard
<1>3. x.endorsed = seller[s].endorsed
  BY DEF IInv, Shape, IsSeller
<1>. HIDE DEF x
<1>4. seller'[s] = x /\ \A t \in Sessions \ {s} : seller'[t] = seller[t]
  BY <1>2 DEF IInv, Shape
<1>5. UNCHANGED <<db, received>>
  BY DEF Selling
<1>6. s \notin DeliveredNow
  BY <1>2 DEF DeliveredNow
<1>7. \A t \in Sessions \ {s} : t \in DeliveredNow' <=> t \in DeliveredNow
  BY <1>4, <1>5 DEF DeliveredNow
<1>8. DeliveredNow \subseteq DeliveredNow'
  BY <1>6, <1>7 DEF DeliveredNow
<1>. QED
  BY <1>3, <1>4, <1>7, <1>8, OneDelivery

\* A buyer that decrypts a file is one delivery.
LEMMA PayingIsFair ==
  ASSUME NEW s \in Sessions, Paying(s)
  PROVE  Fair!Deliver(s) \/ UNCHANGED Fair!fairVars
<1>1. PICK h : received' \in {received, received \cup {<<s, h>>}}
  BY DEF Paying
<1>2. UNCHANGED <<seller, db>>
  BY DEF Paying
<1>3. \A t \in Sessions \ {s} : t \in DeliveredNow' => t \in DeliveredNow
  BY <1>1, <1>2 DEF DeliveredNow
<1>4. DeliveredNow \subseteq DeliveredNow'
  BY <1>1, <1>2 DEF DeliveredNow
<1>. QED
  BY <1>2, <1>3, <1>4, OneDelivery

\* Keys that stage II stores are a delivery to the one session with the
\* contract; keys that it replaces were of the same contract.
LEMMA ResolvingIIIsFair ==
  ASSUME FairOffers, IInv, FairInv, NEW s \in Sessions, ResolvingII(s)
  PROVE  Fair!Deliver(s) \/ UNCHANGED Fair!fairVars
<1>. DEFINE c == seller[s].contract
            entry == HashVector(c.id)
<1>1. /\ seller[s].inProgress /\ seller[s].challenges # <<>>
      /\ VerifyKeys(ResolveII(s))
      /\ UNCHANGED <<seller, received>>
  BY DEF ResolvingII, MayResolve, SellerResolveII
<1>2. arbiter.contract = c
  BY <1>1 DEF IInv, FieldsAreOurs
<1>3. /\ DOMAIN db' = DOMAIN db \cup {entry} /\ db'[entry] = arbiter.keys
      /\ \A e \in DOMAIN db \ {entry} : db'[e] = db[e]
  BY <1>2 DEF ResolvingII, SellerResolveII
<1>. HIDE DEF entry
<1>4. KeysAreRight(c, arbiter.keys)
  BY <1>1, VerifiedKeysAreRight
<1>5. ASSUME NEW t \in Sessions, seller[t].inProgress,
             HashVector(seller[t].contract.id) = entry
      PROVE  t = s /\ seller[t].contract = c
  <2>1. PICK m \in network : /\ m.type = "buy" /\ m.body.coinPrime.R = s
                             /\ m.body.contract = c
    BY <1>1, SoldFile
  <2>2. PICK n \in network : /\ n.type = "buy" /\ n.body.coinPrime.R = t
                             /\ n.body.contract = seller[t].contract
    BY <1>5, SoldFile
  <2>3. n.body.contract.id = m.body.contract.id
    BY <1>5, <2>1, <2>2 DEF HashVector, entry
  <2>4. PICK q : m.body.contract.id = HashBytes(<<s, q>>)
    BY <2>1 DEF FairInv, OffersAreOurs
  <2>5. PICK r : n.body.contract.id = HashBytes(<<t, r>>)
    BY <2>2 DEF FairInv, OffersAreOurs
  <2>6. <<s, q>> = <<t, r>>
    BY <2>3, <2>4, <2>5 DEF HashBytes
  <2>. QED
    BY <2>6
<1>6. \A t \in Sessions \ {s} : t \in DeliveredNow' <=> t \in DeliveredNow
  BY <1>1, <1>3, <1>5 DEF DeliveredNow
<1>7. s \in DeliveredNow'
  BY <1>1, <1>3, <1>4 DEF DeliveredNow, entry
<1>8. DeliveredNow \subseteq DeliveredNow'
  BY <1>6, <1>7 DEF DeliveredNow
<1>. QED
  BY <1>1, <1>6, <1>8, OneDelivery

\* A coin is endorsed by the buyer, who has the file, or by the arbiter, who has
\* stored the keys.
LEMMA EndorsingIsFair ==
  ASSUME IInv, FairInv, NEW s \in Sessions, Endorsing(s)
  PROVE  Fair!Settle(s) \/ UNCHANGED Fair!fairVars
<1>1. PICK m \in network :
         /\ m.type \in {"endorsement", "resolution"} /\ m.to = s
         /\ EndorseCoin(s, m.body)
  BY DEF Endorsing
<1>2. seller[s].inProgress /\ UNCHANGED <<db, received>>
  BY DEF Endorsing
<1>. DEFINE x == [seller[s] EXCEPT
                    !.endorsed = seller[s].endorsed \/ m.body = seller[s].coinPrime,
                    !.challenges = IF m.body = seller[s].coinPrime THEN <<>>
                                   ELSE seller[s].challenges]
<1>3. seller' = [seller EXCEPT ![s] = x]
  BY <1>1 DEF EndorseCoin
<1>4. /\ x.inProgress = seller[s].inProgress /\ x.contract = seller[s].contract
      /\ seller[s].endorsed => x.endorsed
  BY DEF IInv, Shape, IsSeller
<1>. HIDE DEF x
<1>5. seller'[s] = x /\ \A t \in Sessions \ {s} : seller'[t] = seller[t]
  BY <1>3 DEF IInv, Shape
<1>6. s \in DeliveredNow
  <2>1. CASE m.type = "endorsement"
    <3>1. PICK f \in Offers[s] : IsFor(seller[s].contract, f)
      BY <1>2, SoldFile
    <3>2. <<s, seller[s].contract.ptHashB>> \in received
      BY <1>1, <2>1, <3>1 DEF FairInv, EndorsersHaveIt, IsFor
    <3>. QED
      BY <1>2, <3>2 DEF DeliveredNow
  <2>2. CASE m.type = "resolution"
    <3>1. HashVector(seller[s].contract.id) \in DOMAIN db
      BY <1>1, <2>2 DEF FairInv, ResolvedAreStored
    <3>2. PICK n \in network : n.type = "buy" /\ n.body.contract = seller[s].contract
      BY <1>2, SoldFile
    <3>3. KeysAreRight(seller[s].contract, db[HashVector(seller[s].contract.id)])
      BY <3>1, <3>2 DEF FairInv, StoredKeysAreRight
    <3>. QED
      BY <1>2, <3>1, <3>3 DEF DeliveredNow
  <2>. QED
    BY <1>1, <2>1, <2>2
<1>7. DeliveredNow' = DeliveredNow
  BY <1>2, <1>4, <1>5 DEF DeliveredNow
<1>8. PaidNow' = PaidNow \/ PaidNow' = PaidNow \cup {s}
  BY <1>4, <1>5 DEF PaidNow
<1>. QED
  BY <1>6, <1>7, <1>8 DEF Fair!Settle, Fair!fairVars

\* The other steps change neither what was delivered nor what was paid.
LEMMA OthersAreFair ==
  ASSUME IInv, NEW s \in Sessions,
         \/ Offering(s) \/ Buying(s) \/ BuyingThrows(s) \/ SellingThrows(s)
         \/ PayingThrows(s) \/ Resetting(s) \/ ResolvingI(s)
         \/ ResolvingIIThrows(s) \/ BuyerResolving(s)
  PROVE  UNCHANGED Fair!fairVars
<1>1. UNCHANGED <<received, db>>
  BY DEF Offering, Buying, BuyingThrows, SellingThrows, PayingThrows, Resetting,
         ResolvingI, ResolvingIIThrows, BuyerResolving
<1>. SUFFICES \A t \in Sessions : SaleStays(t)
  BY <1>1, NobodyNotices
<1>. USE DEF IInv, Shape, IsSeller, SaleStays
<1>2. CASE Offering(s)
  <2>1. PICK f \in Offers[s] : SetFiles(s, f.ptext, f.ctext)
    BY <1>2 DEF Offering
  <2>. DEFINE x == [seller[s] EXCEPT !.ptext = f.ptext, !.ctext = f.ctext]
  <2>2. seller' = [seller EXCEPT ![s] = x]
    BY <2>1 DEF SetFiles
  <2>3. /\ x.inProgress = seller[s].inProgress /\ x.contract = seller[s].contract
        /\ x.endorsed = seller[s].endorsed
    OBVIOUS
  <2>. HIDE DEF x
  <2>. QED
    BY <2>2, <2>3
<1>3. CASE SellingThrows(s)
  <2>1. PICK m \in network : SellThrows(s, m.body, now)
    BY <1>3 DEF SellingThrows
  <2>. QED
    BY <2>1 DEF SellThrows, SellGuard
<1>4. CASE ResolvingI(s)
  <2>1. CASE UNCHANGED seller
    BY <2>1
  <2>2. CASE \E ch : seller' = [seller EXCEPT ![s].challenges = ch]
    BY <2>2
  <2>. QED
    BY <1>4, <2>1, <2>2 DEF ResolvingI
<1>5. CASE ResolvingIIThrows(s)
  BY <1>5 DEF ResolvingIIThrows
<1>6. CASE \/ Buying(s) \/ BuyingThrows(s) \/ PayingThrows(s) \/ Resetting(s)
           \/ BuyerResolving(s)
  BY <1>6 DEF Buying, BuyingThrows, PayingThrows, Resetting, BuyerResolving
<1>. QED
  BY <1>2, <1>3, <1>4, <1>5, <1>6

\* Every step is one of the fair exchange's, or none.
LEMMA StepIsFair ==
  FairOffers /\ IInv /\ FairInv /\ [Next]_vars => [Fair!FairNext]_(Fair!fairVars)
<1>. SUFFICES ASSUME FairOffers, IInv, FairInv, [Next]_vars
              PROVE  Fair!FairNext \/ UNCHANGED Fair!fairVars
  OBVIOUS
<1>1. CASE Tick \/ UNCHANGED vars
  BY <1>1, NobodyNotices DEF Tick, vars, SaleStays
<1>2. ASSUME NEW s \in Sessions, SessionNext(s)
      PROVE  Fair!FairNext \/ UNCHANGED Fair!fairVars
  <2>1. Fair!Deliver(s) \/ Fair!Settle(s) \/ UNCHANGED Fair!fairVars
    BY <1>2, SellingIsFair, PayingIsFair, ResolvingIIIsFair, EndorsingIsFair,
       OthersAreFair
    DEF SessionNext
  <2>. QED
    BY <2>1 DEF Fair!FairNext
<1>. QED
  BY <1>1, <1>2 DEF Next

\* The buy protocol is a fair exchange, for any number of sessions, whatever the
\* network does, whoever stops where: Buyer::pay endorses only what checkKey has
\* decrypted, and Arbiter::sellerResolveII answers only after it has stored keys
\* that open the file of the contract.
THEOREM BuyIsFair == OneAtATime /\ FairOffers /\ Spec => IsFair
<1>1. Init => Fair!FairInit
  BY DEF Init, NewSeller, Fair!FairInit, DeliveredNow, PaidNow
<1>2. FairOffers /\ IInv /\ FairInv /\ [Next]_vars => [Fair!FairNext]_(Fair!fairVars)
  BY StepIsFair
<1>3. CASE FairOffers
  <2>1. IInv /\ FairInv /\ [Next]_vars => [Fair!FairNext]_(Fair!fairVars)
    BY <1>2, <1>3
  <2>. QED
    BY <1>1, <2>1, SpecFairInv, PTL DEF Spec, IsFair, Fair!FairSpec
<1>4. CASE ~FairOffers
  BY <1>4, PTL
<1>. QED
  BY <1>3, <1>4
-----------------------------------------------------------------------------
(* The objects stay coherent.                                              *)

\* What the buyer of the session s makes.
IsCoin(c, s) == \E number \in 1 .. 2 * MaxCoins : c = [owner |-> s, number |-> number, R |-> s]
IsContract(c, s) == \E r \in 1 .. MaxCoins, time \in 0 .. MaxTime : \E f \in Offers[s] :
                       c = NewContract(<<s, r>>, f.ptext, f.ctext, time)
IsEscrow(e) == \E s \in Sessions : \E coin, contract :
                  /\ IsCoin(coin, s) /\ IsContract(contract, s)
                  /\ e = BuyMessage(coin, contract).escrow

\* What is in the fields of a buyer, of a seller and of a message.
BuyerFits(x, s) ==
  /\ x.r \in 0 .. MaxCoins /\ x.coins \in 0 .. MaxCoins + x.r
  /\ x.coin = NULL \/ IsCoin(x.coin, s)
  /\ x.inProgress => IsContract(x.contract, s) /\ IsCoin(x.coin, s)
  /\ Len(x.ptext) <= MaxDecrypted
SellerFits(x) ==
  /\ x.inProgress => IsEscrow(x.escrow)
  /\ ~ x.inProgress => x.escrow = NULL
  /\ x.endorsed => x.inProgress
  /\ Len(x.challenges) <= Len(x.ctext)
MessageFits(m) ==
  /\ m.type \in {"buy", "keys", "endorsement", "resolution"}
  /\ m.type = "buy" => IsEscrow(m.body.escrow)

TypeInv == /\ now \in 0 .. MaxTime
           /\ \A s \in Sessions : BuyerFits(buyer[s], s) /\ SellerFits(seller[s])
           /\ \A m \in network : MessageFits(m)

\* None of it is a null pointer.
LEMMA NothingIsNull ==
  ASSUME NEW s \in Sessions, NEW x
  PROVE  /\ IsCoin(x, s) => x # NULL
         /\ IsContract(x, s) => x # NULL
         /\ IsEscrow(x) => x # NULL
<1>1. MaxCoins \in Nat /\ MaxTime \in Nat
  BY ExchangeAssumption
<1>2. ASSUME IsCoin(x, s) PROVE x # NULL
  <2>1. PICK number \in 1 .. 2 * MaxCoins : x = [owner |-> s, number |-> number, R |-> s]
    BY <1>2 DEF IsCoin
  <2>2. 1 \in 1 .. MaxCoins /\ 0 \in 0 .. MaxTime
    BY <1>1, <2>1
  <2>. QED
    BY <2>1, <2>2, NullIsNoObject
<1>3. ASSUME IsContract(x, s) PROVE x # NULL
  <2>1. PICK r \in 1 .. MaxCoins, time \in 0 .. MaxTime : \E f \in Offers[s] :
                       x = NewContract(<<s, r>>, f.ptext, f.ctext, time)
    BY <1>3 DEF IsContract
  <2>2. 1 \in 1 .. 2 * MaxCoins
    BY <1>1, <2>1
  <2>. QED
    BY <2>1, <2>2, NullIsNoObject
<1>4. ASSUME IsEscrow(x) PROVE x # NULL
  <2>1. PICK t \in Sessions : \E coin, contract :
                  /\ IsCoin(coin, t) /\ IsContract(contract, t)
                  /\ x = BuyMessage(coin, contract).escrow
    BY <1>4 DEF IsEscrow
  <2>2. PICK coin, contract : /\ IsCoin(coin, t) /\ IsContract(contract, t)
                              /\ x = BuyMessage(coin, contract).escrow
    BY <2>1
  <2>. QED
    BY <2>2, NullIsNoObject DEF IsCoin, IsContract
<1>. QED
  BY <1>2, <1>3, <1>4

LEMMA InitTypeInv == Init => TypeInv
<1>. SUFFICES ASSUME Init PROVE TypeInv
  OBVIOUS
<1>1. MaxCoins \in Nat /\ MaxTime \in Nat /\ MaxDecrypted \in Nat
  BY ExchangeAssumption
<1>2. /\ NewBuyer.r = 0 /\ NewBuyer.coins = 0 /\ NewBuyer.coin = NULL
      /\ ~ NewBuyer.inProgress /\ NewBuyer.ptext = <<>>
  BY DEF NewBuyer
<1>3. /\ ~ NewSeller.inProgress /\ NewSeller.escrow = NULL /\ ~ NewSeller.endorsed
      /\ NewSeller.challenges = <<>> /\ NewSeller.ctext = <<>>
  BY DEF NewSeller
<1>4. Len(<<>>) = 0
  OBVIOUS
<1>5. ASSUME NEW s \in Sessions PROVE BuyerFits(NewBuyer, s)
  BY <1>1, <1>2, <1>4 DEF BuyerFits
<1>6. SellerFits(NewSeller)
  BY <1>3, <1>4 DEF SellerFits
<1>. QED
  BY <1>1, <1>5, <1>6 DEF Init, TypeInv

\* Steps of one buyer, and of one seller, that send what fits.
LEMMA BuyerStepFits ==
  ASSUME IInv, TypeInv, NEW s \in Sessions, NEW x, buyer' = [buyer EXCEPT ![s] = x],
         BuyerFits(x, s), UNCHANGED <<seller, now>>,
         \A m \in network' \ network : MessageFits(m)
  PROVE  TypeInv'
<1>1. buyer'[s] = x /\ \A t \in Sessions \ {s} : buyer'[t] = buyer[t]
  BY DEF IInv, Shape
<1>2. \A t \in Sessions : BuyerFits(buyer'[t], t)
  BY <1>1 DEF TypeInv
<1>. QED
  BY <1>2 DEF TypeInv, BuyerFits, SellerFits, MessageFits

LEMMA SellerStepFits ==
  ASSUME IInv, TypeInv, NEW s \in Sessions, NEW x, seller' = [seller EXCEPT ![s] = x],
         SellerFits(x), UNCHANGED <<buyer, now>>,
         \A m \in network' \ network : MessageFits(m)
  PROVE  TypeInv'
<1>1. seller'[s] = x /\ \A t \in Sessions \ {s} : seller'[t] = seller[t]
  BY DEF IInv, Shape
<1>2. \A t \in Sessions : SellerFits(seller'[t])
  BY <1>1 DEF TypeInv
<1>. QED
  BY <1>2 DEF TypeInv, BuyerFits, SellerFits, MessageFits

\* A buyer that has not reached the bounds stays within them.
LEMMA WithinBounds ==
  ASSUME NEW max \in Nat, NEW r \in 0 .. max, NEW coins \in 0 .. max + r, NEW more \in {0, 1}
  PROVE  /\ r < max => /\ r + 1 \in 1 .. max /\ coins + more \in 0 .. max + (r + 1)
                       /\ coins + 1 \in 1 .. 2 * max
         /\ coins < max => coins + 1 \in 1 .. 2 * max /\ coins + 1 \in 0 .. max + r
OBVIOUS

\* The coin and the contract of an offer are new ones, and its escrow holds both.
LEMMA BuyingFits ==
  ASSUME IInv, FairInv, TypeInv, NEW s \in Sessions, Buying(s)
  PROVE  TypeInv'
<1>1. PICK coin \in {MadeCoin(s, s), buyer[s].coin} :
        Buy(s, coin, seller[s].ctext, seller[s].ptext, now)
  BY DEF Buying
<1>. DEFINE r == buyer[s].r + 1
            c == NewContract(<<s, r>>, seller[s].ptext, seller[s].ctext, now)
            more == IF coin = buyer[s].coin THEN 0 ELSE 1
            x == [buyer[s] EXCEPT !.inProgress = TRUE, !.coin = coin,
                    !.ctext = seller[s].ctext, !.contract = c, !.r = r,
                    !.coins = buyer[s].coins + more]
<1>2. /\ buyer' = [buyer EXCEPT ![s] = x] /\ buyer[s].r < MaxCoins
      /\ coin # NULL /\ seller[s].ctext # <<>>
  BY <1>1 DEF Buy, Buying
<1>3. /\ x.inProgress /\ x.coin = coin /\ x.contract = c /\ x.r = r
      /\ x.ptext = buyer[s].ptext /\ x.coins = buyer[s].coins + more
  BY DEF IInv, Shape, IsBuyer
<1>4. more \in {0, 1}
  OBVIOUS
<1>. HIDE DEF x, more
<1>5. /\ buyer[s].r \in 0 .. MaxCoins /\ buyer[s].coins \in 0 .. MaxCoins + buyer[s].r
      /\ Len(buyer[s].ptext) <= MaxDecrypted /\ MaxCoins \in Nat
      /\ buyer[s].coin = NULL \/ IsCoin(buyer[s].coin, s)
  BY ExchangeAssumption DEF TypeInv, BuyerFits
<1>6. r \in 1 .. MaxCoins /\ buyer[s].coins + more \in 0 .. MaxCoins + r
      /\ buyer[s].coins + 1 \in 1 .. 2 * MaxCoins
  BY <1>2, <1>4, <1>5, WithinBounds DEF r
<1>7. IsCoin(coin, s)
  BY <1>1, <1>2, <1>5, <1>6 DEF IsCoin, MadeCoin
<1>8. IsContract(c, s)
  BY <1>2, <1>6 DEF FairInv, SellersFiles, TypeInv, IsContract
<1>. HIDE DEF c, r
<1>9. BuyerFits(x, s)
  BY <1>3, <1>5, <1>6, <1>7, <1>8 DEF BuyerFits
<1>10. PICK m : /\ network' = network \cup {m}
                /\ m.type = "buy" /\ m.body = BuyMessage(coin, c)
  <2>1. network' = network \cup {[type |-> "buy", body |-> Offer(s)']}
    BY DEF Buying, Send
  <2>2. buyer'[s] = x
    BY <1>2 DEF IInv, Shape
  <2>3. Offer(s)' = BuyMessage(coin, c)
    BY <1>3, <2>2 DEF Offer
  <2>. DEFINE sent == [type |-> "buy", body |-> Offer(s)']
  <2>4. sent.type = "buy" /\ sent.body = Offer(s)'
    OBVIOUS
  <2>. HIDE DEF sent
  <2>. QED
    BY <2>1, <2>3, <2>4 DEF sent
<1>11. MessageFits(m)
  BY <1>7, <1>8, <1>10 DEF MessageFits, IsEscrow
<1>. QED
  BY <1>2, <1>9, <1>10, <1>11, BuyerStepFits DEF Buying

\* The other steps of a buyer.
LEMMA BuyerSideFits ==
  ASSUME IInv, FairInv, TypeInv, NEW s \in Sessions,
         \/ BuyingThrows(s) \/ Paying(s) \/ PayingThrows(s) \/ Resetting(s)
         \/ BuyerResolving(s)
  PROVE  TypeInv'
<1>1. BuyerFits(buyer[s], s)
  BY DEF TypeInv
<1>2. CASE BuyingThrows(s)
  <2>. DEFINE x == [buyer[s] EXCEPT !.coin = MadeCoin(s, s), !.coins = buyer[s].coins + 1]
  <2>1. buyer' = [buyer EXCEPT ![s] = x] /\ buyer[s].coins < MaxCoins
    BY <1>2 DEF BuyingThrows, BuyThrows
  <2>2. /\ x.r = buyer[s].r /\ x.coin = MadeCoin(s, s) /\ x.ptext = buyer[s].ptext
        /\ x.inProgress = buyer[s].inProgress
        /\ x.contract = buyer[s].contract /\ x.coins = buyer[s].coins + 1
    BY DEF IInv, Shape, IsBuyer
  <2>. HIDE DEF x
  <2>3. buyer[s].coins + 1 \in 1 .. 2 * MaxCoins /\ x.coins \in 0 .. MaxCoins + x.r
    <3>1. MaxCoins \in Nat /\ 0 \in {0, 1}
      BY ExchangeAssumption
    <3>2. buyer[s].r \in 0 .. MaxCoins /\ buyer[s].coins \in 0 .. MaxCoins + buyer[s].r
      BY <1>1 DEF BuyerFits
    <3>3. /\ buyer[s].coins + 1 \in 1 .. 2 * MaxCoins
          /\ buyer[s].coins + 1 \in 0 .. MaxCoins + buyer[s].r
      BY <2>1, <3>1, <3>2, WithinBounds
    <3>. QED
      BY <2>2, <3>3
  <2>4. IsCoin(MadeCoin(s, s), s)
    BY <2>3 DEF IsCoin, MadeCoin
  <2>5. BuyerFits(x, s)
    BY <1>1, <2>2, <2>3, <2>4 DEF BuyerFits
  <2>. QED
    BY <1>2, <2>1, <2>5, BuyerStepFits DEF BuyingThrows
<1>3. CASE Paying(s) \/ PayingThrows(s)
  <2>1. PICK keys : CheckKey(s, keys)
    BY <1>3 DEF Paying, PayingThrows, Pay, PayThrows
  <2>. DEFINE x == [buyer[s] EXCEPT !.ptext = Decrypted(s, keys)]
  <2>2. buyer' = [buyer EXCEPT ![s] = x]
    BY <2>1 DEF CheckKey
  <2>3. /\ x.r = buyer[s].r /\ x.coin = buyer[s].coin
        /\ x.inProgress = buyer[s].inProgress
        /\ x.contract = buyer[s].contract /\ x.coins = buyer[s].coins
    BY DEF IInv, Shape, IsBuyer
  <2>. HIDE DEF x
  <2>4. Len(x.ptext) <= MaxDecrypted
    <3>1. buyer'[s] = x
      BY <2>2 DEF IInv, Shape
    <3>2. Len(buyer'[s].ptext) <= MaxDecrypted
      BY <1>3 DEF Paying, PayingThrows
    <3>. QED
      BY <3>1, <3>2
  <2>5. BuyerFits(x, s)
    BY <1>1, <2>3, <2>4 DEF BuyerFits
  <2>6. UNCHANGED <<seller, now>>
    BY <1>3 DEF Paying, PayingThrows
  <2>7. \A m \in network' \ network : MessageFits(m)
    <3>. DEFINE sent == [type |-> "endorsement", to |-> s, body |-> buyer[s].coin]
    <3>1. sent.type = "endorsement"
      OBVIOUS
    <3>2. MessageFits(sent)
      <4>. HIDE DEF sent
      <4>. QED
        BY <3>1 DEF MessageFits
    <3>3. Paying(s) => network' = network \cup {sent}
      BY DEF Paying, Send
    <3>4. PayingThrows(s) => network' = network
      BY DEF PayingThrows
    <3>. HIDE DEF sent
    <3>. QED
      BY <1>3, <3>2, <3>3, <3>4
  <2>. QED
    BY <2>2, <2>5, <2>6, <2>7, BuyerStepFits
<1>4. CASE Resetting(s)
  <2>. DEFINE x == [buyer[s] EXCEPT !.inProgress = FALSE, !.contract = NULL,
                      !.ptext = [i \in DOMAIN buyer[s].ptext |-> Garbage]]
  <2>1. buyer' = [buyer EXCEPT ![s] = x]
    BY <1>4 DEF Resetting, ResetBuyer
  <2>2. /\ x.r = buyer[s].r /\ x.coin = buyer[s].coin /\ ~ x.inProgress
        /\ x.ptext = [i \in DOMAIN buyer[s].ptext |-> Garbage]
        /\ x.coins = buyer[s].coins
    BY DEF IInv, Shape, IsBuyer
  <2>. HIDE DEF x
  <2>3. buyer[s].ptext \in Seq(Blocks)
    BY DEF FairInv, BuyersAreOurs
  <2>4. Len(x.ptext) = Len(buyer[s].ptext)
    BY <2>2, <2>3
  <2>5. BuyerFits(x, s)
    BY <1>1, <2>2, <2>4 DEF BuyerFits
  <2>. QED
    BY <1>4, <2>1, <2>5, BuyerStepFits DEF Resetting
<1>5. CASE BuyerResolving(s)
  BY <1>5 DEF BuyerResolving, TypeInv, BuyerFits, SellerFits, MessageFits
<1>. QED
  BY <1>2, <1>3, <1>4, <1>5

\* A file has a block of ciphertext for each of the contract's blocks, before and
\* after it is encrypted again.
LEMMA FilesFit ==
  ASSUME FairOffers, NEW s \in Sessions, NEW f \in Offers[s], NEW g \in Offers[s]
  PROVE  Len(f.ctext) = Len(f.ptext) /\ Len(g.ctext) = Len(f.ptext) /\ Len(f.ptext) \in Nat \ {0}
<1>1. Encrypted(f) /\ f.ptext = g.ptext
  BY DEF FairOffers
<1>. QED
  BY <1>1, EncryptedFile, ExchangeAssumption

LEMMA OfferingFits ==
  ASSUME FairOffers, IInv, FairInv, TypeInv, NEW s \in Sessions, Offering(s)
  PROVE  TypeInv'
<1>1. PICK f \in Offers[s] : SetFiles(s, f.ptext, f.ctext)
  BY DEF Offering
<1>. DEFINE x == [seller[s] EXCEPT !.ptext = f.ptext, !.ctext = f.ctext]
<1>2. seller' = [seller EXCEPT ![s] = x]
  BY <1>1 DEF SetFiles
<1>3. /\ x.inProgress = seller[s].inProgress /\ x.escrow = seller[s].escrow
      /\ x.endorsed = seller[s].endorsed /\ x.challenges = seller[s].challenges
      /\ x.ctext = f.ctext
  BY DEF IInv, Shape, IsSeller
<1>. HIDE DEF x
<1>4. SellerFits(seller[s])
  BY DEF TypeInv
<1>5. Len(seller[s].challenges) <= Len(f.ctext)
  <2>1. CASE seller[s].ctext = <<>>
    <3>1. seller[s].challenges = <<>> \/ seller[s].inProgress
      BY DEF IInv, FieldsAreOurs
    <3>2. CASE seller[s].challenges = <<>>
      BY <3>2, FilesFit
    <3>3. CASE seller[s].inProgress
      <4>1. PICK g \in Offers[s] : seller[s].ctext = g.ctext
        BY <3>3 DEF FairInv, SellersFiles
      <4>. QED
        BY <1>4, <4>1, FilesFit DEF SellerFits
    <3>. QED
      BY <3>1, <3>2, <3>3
  <2>2. CASE seller[s].ctext # <<>>
    <3>1. PICK g \in Offers[s] : seller[s].ctext = g.ctext
      BY <2>2 DEF FairInv, SellersFiles
    <3>. QED
      BY <1>4, <3>1, FilesFit DEF SellerFits
  <2>. QED
    BY <2>1, <2>2
<1>6. SellerFits(x)
  BY <1>3, <1>4, <1>5 DEF SellerFits
<1>. QED
  BY <1>2, <1>6, SellerStepFits DEF Offering

\* A sale keeps the escrow that came with the offer, and its contract may change
\* only before.
LEMMA SellingFits ==
  ASSUME IInv, TypeInv, NEW s \in Sessions, Selling(s) \/ SellingThrows(s)
  PROVE  TypeInv'
<1>1. SellerFits(seller[s])
  BY DEF TypeInv
<1>2. CASE Selling(s)
  <2>1. PICK m \in network :
          /\ m.type = "buy"
          /\ Sell(s, m.body, now)
          /\ network' = network \cup {[type |-> "keys", body |-> SentKeys(seller[s].ctext)]}
    BY <1>2 DEF Selling, Send
  <2>. DEFINE x == [seller[s] EXCEPT !.inProgress = TRUE, !.contract = m.body.contract,
                      !.escrow = m.body.escrow, !.coinPrime = m.body.coinPrime]
  <2>2. seller' = [seller EXCEPT ![s] = x]
    BY <2>1 DEF Sell
  <2>3. /\ x.inProgress /\ x.escrow = m.body.escrow
        /\ x.challenges = seller[s].challenges /\ x.ctext = seller[s].ctext
    BY DEF IInv, Shape, IsSeller
  <2>. HIDE DEF x
  <2>4. IsEscrow(m.body.escrow)
    BY <2>1 DEF TypeInv, MessageFits
  <2>5. SellerFits(x)
    BY <1>1, <2>3, <2>4 DEF SellerFits
  <2>6. \A n \in network' \ network : MessageFits(n)
    BY <2>1 DEF MessageFits
  <2>. QED
    BY <1>2, <2>2, <2>5, <2>6, SellerStepFits DEF Selling
<1>3. CASE SellingThrows(s)
  <2>1. PICK m \in network : SellThrows(s, m.body, now)
    BY <1>3 DEF SellingThrows
  <2>. DEFINE x == [seller[s] EXCEPT !.contract = m.body.contract]
  <2>2. seller' = [seller EXCEPT ![s] = x]
    BY <2>1 DEF SellThrows
  <2>3. /\ x.inProgress = seller[s].inProgress /\ x.escrow = seller[s].escrow
        /\ x.endorsed = seller[s].endorsed /\ x.challenges = seller[s].challenges
        /\ x.ctext = seller[s].ctext
    BY DEF IInv, Shape, IsSeller
  <2>. HIDE DEF x
  <2>4. SellerFits(x)
    BY <1>1, <2>3 DEF SellerFits
  <2>. QED
    BY <1>3, <2>2, <2>4, SellerStepFits DEF SellingThrows
<1>. QED
  BY <1>2, <1>3

\* An endorsement, or a proof that does not verify, drops the challenges.
LEMMA DroppingFits ==
  ASSUME FairOffers, IInv, FairInv, TypeInv, NEW s \in Sessions,
         Endorsing(s) \/ ResolvingIIThrows(s)
  PROVE  TypeInv'
<1>1. SellerFits(seller[s]) /\ seller[s].inProgress
  BY DEF TypeInv, Endorsing, ResolvingIIThrows, MayResolve
<1>2. Len(<<>>) <= Len(seller[s].ctext)
  <2>1. PICK g \in Offers[s] : seller[s].ctext = g.ctext
    BY <1>1 DEF FairInv, SellersFiles
  <2>. QED
    BY <2>1, FilesFit
<1>3. CASE Endorsing(s)
  <2>1. PICK m \in network : EndorseCoin(s, m.body)
    BY <1>3 DEF Endorsing
  <2>. DEFINE ch == IF m.body = seller[s].coinPrime THEN <<>> ELSE seller[s].challenges
              x == [seller[s] EXCEPT
                      !.endorsed = seller[s].endorsed \/ m.body = seller[s].coinPrime,
                      !.challenges = ch]
  <2>2. seller' = [seller EXCEPT ![s] = x]
    BY <2>1 DEF EndorseCoin
  <2>3. /\ x.inProgress = seller[s].inProgress /\ x.escrow = seller[s].escrow
        /\ x.challenges = ch /\ x.ctext = seller[s].ctext
    BY DEF IInv, Shape, IsSeller
  <2>4. ch \in {<<>>, seller[s].challenges}
    OBVIOUS
  <2>. HIDE DEF x, ch
  <2>5. SellerFits(x)
    BY <1>1, <1>2, <2>3, <2>4 DEF SellerFits
  <2>. QED
    BY <1>3, <2>2, <2>5, SellerStepFits DEF Endorsing
<1>4. CASE ResolvingIIThrows(s)
  <2>. DEFINE x == [seller[s] EXCEPT !.challenges = <<>>]
  <2>1. seller' = [seller EXCEPT ![s] = x]
    BY <1>4 DEF ResolvingIIThrows
  <2>2. /\ x.inProgress = seller[s].inProgress /\ x.escrow = seller[s].escrow
        /\ x.challenges = <<>> /\ x.ctext = seller[s].ctext
        /\ x.endorsed = seller[s].endorsed
    BY DEF IInv, Shape, IsSeller
  <2>. HIDE DEF x
  <2>3. SellerFits(x)
    BY <1>1, <1>2, <2>2 DEF SellerFits
  <2>. QED
    BY <1>4, <2>1, <2>3, SellerStepFits DEF ResolvingIIThrows
<1>. QED
  BY <1>3, <1>4

\* The arbiter asks for no more blocks than the contract has, and the seller has a
\* block of ciphertext for each.
LEMMA ResolvingFits ==
  ASSUME FairOffers, IInv, FairInv, TypeInv, NEW s \in Sessions,
         ResolvingI(s) \/ ResolvingII(s)
  PROVE  TypeInv'
<1>1. CASE ResolvingI(s)
  <2>. DEFINE c == seller[s].contract
  <2>1. seller[s].inProgress /\ UNCHANGED <<buyer, now, network>>
    BY <1>1 DEF ResolvingI, MayResolve
  <2>2. ResolveI(s).message.contract = c
    BY DEF ResolveI
  <2>3. UNCHANGED seller \/ \E ch \in Challenges(c) : seller' = [seller EXCEPT ![s].challenges = ch]
    BY <1>1, <2>2 DEF ResolvingI
  <2>4. CASE UNCHANGED seller
    BY <2>1, <2>4 DEF TypeInv, BuyerFits, SellerFits, MessageFits
  <2>5. ASSUME NEW ch \in Challenges(c), seller' = [seller EXCEPT ![s].challenges = ch]
        PROVE  TypeInv'
    <3>. DEFINE x == [seller[s] EXCEPT !.challenges = ch]
    <3>1. seller' = [seller EXCEPT ![s] = x]
      BY <2>5
    <3>2. /\ x.inProgress = seller[s].inProgress /\ x.escrow = seller[s].escrow
          /\ x.challenges = ch /\ x.ctext = seller[s].ctext
          /\ x.endorsed = seller[s].endorsed
      BY DEF IInv, Shape, IsSeller
    <3>. HIDE DEF x
    <3>3. PICK f \in Offers[s] : IsFor(c, f)
      BY <2>1, SoldFile
    <3>4. PICK g \in Offers[s] : seller[s].ctext = g.ctext
      BY <2>1 DEF FairInv, SellersFiles
    <3>. DEFINE n == c.ptHashBlocksB
                k == IF n < numChallenges THEN n ELSE numChallenges
    <3>5. n \in Nat \ {0} /\ Len(seller[s].ctext) = n
      BY <3>3, <3>4, FilesFit DEF IsFor
    <3>6. k \in Nat /\ k <= n
      BY <3>5 DEF numChallenges
    <3>7. ch \in [1 .. k -> 1 .. n]
      BY DEF Challenges
    <3>. HIDE DEF k, n
    <3>8. Len(ch) = k
      BY <3>6, <3>7
    <3>9. SellerFits(x)
      BY <3>2, <3>5, <3>6, <3>8 DEF TypeInv, SellerFits
    <3>. QED
      BY <2>1, <3>1, <3>9, SellerStepFits
  <2>. QED
    BY <2>3, <2>4, <2>5
<1>2. CASE ResolvingII(s)
  <2>. DEFINE sent == [type |-> "resolution", to |-> s, body |-> arbiter.endorsement]
  <2>1. sent.type = "resolution"
    OBVIOUS
  <2>2. MessageFits(sent)
    <3>. HIDE DEF sent
    <3>. QED
      BY <2>1 DEF MessageFits
  <2>3. network' = network \cup {sent} /\ UNCHANGED <<buyer, seller, now>>
    BY <1>2 DEF ResolvingII, Send
  <2>. HIDE DEF sent
  <2>. QED
    BY <2>2, <2>3 DEF TypeInv, BuyerFits, SellerFits, MessageFits
<1>. QED
  BY <1>1, <1>2

\* A working buyer has a contract and a coin, a seller an escrow once it has sold
\* and an endorsed coin only then, and the challenges that stage I returns are
\* for blocks that the seller's file has, although it may have been encrypted
\* again since.
THEOREM BuyTypeCorrect == OneAtATime /\ FairOffers /\ Spec => []TypeOK
<1>1. TypeInv => TypeOK
  <2>. SUFFICES ASSUME TypeInv PROVE TypeOK
    OBVIOUS
  <2>1. ASSUME NEW s \in Sessions
        PROVE  /\ buyer[s].inProgress => buyer[s].contract # NULL /\ buyer[s].coin # NULL
               /\ Len(buyer[s].ptext) <= MaxDecrypted
               /\ seller[s].inProgress <=> seller[s].escrow # NULL
               /\ seller[s].endorsed => seller[s].inProgress
               /\ Len(seller[s].challenges) <= Len(seller[s].ctext)
    <3>1. BuyerFits(buyer[s], s) /\ SellerFits(seller[s])
      BY DEF TypeInv
    <3>. QED
      BY <3>1, NothingIsNull DEF BuyerFits, SellerFits
  <2>2. {m.type : m \in network} \subseteq {"buy", "keys", "endorsement", "resolution"}
    BY DEF TypeInv, MessageFits
  <2>3. now \in 0 .. MaxTime
    BY DEF TypeInv
  <2>. QED
    BY <2>1, <2>2, <2>3 DEF TypeOK
<1>2. ASSUME FairOffers, IInv, FairInv, TypeInv, [Next]_vars
      PROVE  TypeInv'
  <2>1. CASE UNCHANGED vars
    BY <1>2, <2>1 DEF vars, TypeInv, BuyerFits, SellerFits, MessageFits
  <2>2. CASE Tick
    <3>1. now' \in 0 .. MaxTime
      BY <1>2, <2>2, ExchangeAssumption DEF Tick, TypeInv
    <3>. QED
      BY <1>2, <2>2, <3>1 DEF Tick, TypeInv, BuyerFits, SellerFits, MessageFits
  <2>3. ASSUME NEW s \in Sessions, SessionNext(s) PROVE TypeInv'
    BY <1>2, <2>3, OfferingFits, BuyingFits, BuyerSideFits, SellingFits, DroppingFits,
       ResolvingFits
    DEF SessionNext
  <2>. QED
    BY <1>2, <2>1, <2>2, <2>3 DEF Next
<1>3. CASE FairOffers
  <2>1. IInv /\ FairInv /\ TypeInv /\ [Next]_vars => TypeInv'
    BY <1>2, <1>3
  <2>. QED
    BY <1>1, <2>1, InitTypeInv, SpecFairInv, PTL DEF Spec
<1>4. CASE ~FairOffers
  BY <1>4, PTL
<1>. QED
  BY <1>3, <1>4
=============================================================================
