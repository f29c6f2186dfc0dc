----------------------------- MODULE BuyExchange -----------------------------
(***************************************************************************)
(* The buy protocol: buyers, sellers and one arbiter, connected by a       *)
(* network that may delay, duplicate, lose and misdirect what they send.   *)
(* Session s has one Buyer and one Seller; the arbiter serves all of them. *)
(***************************************************************************)
EXTENDS Buyer, Seller, Arbiter

CONSTANTS Sessions,
          Offers,           \* [Sessions -> set of files a seller may offer],
                            \* a file being [ptext |-> .., ctext |-> ..]
          StrayKeys,        \* key vectors that reach a buyer by mistake
          OneAtATime,       \* TRUE: a resolution ends before another begins
          FilesMayChange,   \* TRUE: a seller may get other files during a sale
          MaxCoins,         \* bound: calls of buy, and coins of those that throw
          MaxDecrypted,     \* bound: length of a buyer's ptext
          MaxTime           \* bound: the clock stops here

ASSUME ExchangeAssumption ==
  /\ {OneAtATime, FilesMayChange} \subseteq BOOLEAN
  /\ {MaxCoins, MaxDecrypted, MaxTime} \subseteq Nat
  /\ \A s \in Sessions : \A f \in Offers[s] : Len(f.ptext) = Len(f.ctext)

\* A null pointer is not a coin, a contract or an escrow.
ASSUME NullIsNoObject ==
  \A s \in Sessions, r \in 1 .. MaxCoins, number \in 1 .. 2 * MaxCoins, time \in 0 .. MaxTime :
     LET coin == [owner |-> s, number |-> number, R |-> s]
     IN  /\ NULL # coin
         /\ \A f \in Offers[s] :
               LET contract == NewContract(<<s, r>>, f.ptext, f.ctext, time)
               IN  NULL # contract /\ NULL # BuyMessage(coin, contract).escrow

VARIABLES now,              \* time(NULL)
          network,          \* every message sent
          received,         \* history: <<s, h>> when the buyer of session s
                            \* has decrypted the file with hash h
          inTime,           \* history: ids of the contracts that were shown to
                            \* the arbiter before they ran out
          fetched           \* what buyerResolve last returned to each buyer

vars == <<buyer, seller, arbiter, db, now, network, received, inTime, fetched>>

Init == /\ buyer = [s \in Sessions |-> NewBuyer]
        /\ seller = [s \in Sessions |-> NewSeller]
        /\ arbiter = NewArbiter
        /\ db = <<>>
        /\ now = 0
        /\ network = {}
        /\ received = {} /\ inTime = {}
        /\ fetched = [s \in Sessions |-> NULL]

Send(m) == network' = network \cup {m}

Offering(s) == \E f \in Offers[s] :
  /\ seller[s].ctext # f.ctext
  /\ seller[s].inProgress => FilesMayChange
  /\ SetFiles(s, f.ptext, f.ctext)
  /\ UNCHANGED <<buyer, arbiter, db, now, network, received, inTime, fetched>>

\* The buyer has the seller's ciphertexts, the hashes of the files and R.
Buying(s) ==
  /\ buyer[s].r < MaxCoins
  /\ \E coin \in {MadeCoin(s, s), buyer[s].coin} :
        Buy(s, coin, seller[s].ctext, seller[s].ptext, now)
  /\ Send([type |-> "buy", body |-> Offer(s)'])
  /\ UNCHANGED <<seller, arbiter, db, now, received, inTime, fetched>>

BuyingThrows(s) ==
  /\ buyer[s].coins < MaxCoins
  /\ BuyThrows(s, s)
  /\ UNCHANGED <<seller, arbiter, db, now, network, received, inTime, fetched>>

Selling(s) == \E m \in network :
  /\ m.type = "buy"
  /\ Sell(s, m.body, now)
  /\ Send([type |-> "keys", body |-> SentKeys(seller[s].ctext)])
  /\ UNCHANGED <<buyer, arbiter, db, now, received, inTime, fetched>>

SellingThrows(s) == \E m \in network :
  /\ m.type = "buy"
  /\ SellThrows(s, m.body, now)
  /\ UNCHANGED <<buyer, arbiter, db, now, network, received, inTime, fetched>>

KeysInFlight == StrayKeys \cup {m.body : m \in {n \in network : n.type = "keys"}}

Paying(s) == \E keys \in KeysInFlight :
  /\ Pay(s, keys)
  /\ Len(buyer'[s].ptext) <= MaxDecrypted
  /\ Send([type |-> "endorsement", to |-> s, body |-> buyer[s].coin])
  /\ received' = IF KeysAreRight(buyer[s].contract, keys)
                 THEN received \cup {<<s, buyer[s].contract.ptHashB>>}
                 ELSE received
  /\ UNCHANGED <<seller, arbiter, db, now, inTime, fetched>>

PayingThrows(s) == \E keys \in KeysInFlight :
  /\ PayThrows(s, keys)
  /\ Len(buyer'[s].ptext) <= MaxDecrypted
  /\ UNCHANGED <<seller, arbiter, db, now, network, received, inTime, fetched>>

\* A buyer is used again after its exchange: when it has the file, or when the
\* contract is one no seller and no arbiter accepts any more.
Resetting(s) ==
  /\ buyer[s].inProgress
  /\ \/ <<s, buyer[s].contract.ptHashB>> \in received
     \/ ~CheckTimeout(buyer[s].contract, now)
  /\ ResetBuyer(s)
  /\ UNCHANGED <<seller, arbiter, db, now, network, received, inTime, fetched>>

\* endorseCoin, with an endorsement from the buyer or from the arbiter.
Endorsing(s) == \E m \in network :
  /\ m.type \in {"endorsement", "resolution"} /\ m.to = s
  /\ seller[s].inProgress
  /\ EndorseCoin(s, m.body)
  /\ UNCHANGED <<buyer, arbiter, db, now, network, received, inTime, fetched>>

\* The seller may turn to the arbiter as long as it has no endorsed coin.
MayResolve(s) ==
  /\ seller[s].inProgress /\ ~seller[s].endorsed
  /\ OneAtATime => \A other \in Sessions \ {s} : seller[other].challenges = <<>>

ResolvingI(s) ==
  LET request == ResolveI(s)
  IN /\ MayResolve(s)
     /\ seller[s].challenges = <<>>
     /\ SellerResolveI(request.keys, request.message, now)
     /\ IF SellerAccepted(request.message, now)
        THEN \E challenges \in Challenges(request.message.contract) :
                seller' = [seller EXCEPT ![s].challenges = challenges]
        ELSE UNCHANGED seller
     /\ inTime' = IF now <= request.message.contract.timeout + Tolerance
                  THEN inTime \cup {request.message.contract.id} ELSE inTime
     /\ UNCHANGED <<buyer, db, now, network, received, fetched>>

\* Stage II may be repeated: the endorsement may have been lost on its way.
ResolvingII(s) ==
  /\ MayResolve(s)
  /\ seller[s].challenges # <<>>
  /\ SellerResolveII(ResolveII(s))
  /\ Send([type |-> "resolution", to |-> s, body |-> arbiter.endorsement])
  /\ UNCHANGED <<buyer, seller, now, received, inTime, fetched>>

\* Stage II throws, and the seller begins again.
ResolvingIIThrows(s) ==
  /\ MayResolve(s)
  /\ seller[s].challenges # <<>>
  /\ ~VerifyKeys(ResolveII(s))
  /\ seller' = [seller EXCEPT ![s].challenges = <<>>]
  /\ UNCHANGED <<buyer, arbiter, db, now, network, received, inTime, fetched>>

BuyerResolving(s) ==
  /\ buyer[s].inProgress
  /\ fetched' = [fetched EXCEPT ![s] = BuyerResolve(Resolve(s))]
  /\ UNCHANGED <<buyer, seller, arbiter, db, now, network, received, inTime>>

Tick == /\ now < MaxTime
        /\ now' = now + 1
        /\ UNCHANGED <<buyer, seller, arbiter, db, network, received, inTime,
                       fetched>>

SessionNext(s) ==
  \/ Offering(s) \/ Buying(s) \/ BuyingThrows(s)
  \/ Selling(s) \/ SellingThrows(s)
  \/ Paying(s) \/ PayingThrows(s) \/ Resetting(s)
  \/ Endorsing(s)
  \/ ResolvingI(s) \/ ResolvingII(s) \/ ResolvingIIThrows(s)
  \/ BuyerResolving(s)

Next == Tick \/ \E s \in Sessions : SessionNext(s)

Spec == Init /\ [][Next]_vars

\* A seller that has sold turns to the arbiter until it is paid, and messages
\* of the arbiter arrive in the end.
Fairness == \A s \in Sessions : /\ WF_vars(ResolvingI(s))
                               /\ WF_vars(ResolvingII(s))
                               /\ WF_vars(Endorsing(s))

LiveSpec == Spec /\ Fairness
-----------------------------------------------------------------------------
\* The objects stay coherent: a working buyer has a contract and a coin, a
\* seller has an escrow exactly when it has sold, and only then an endorsed
\* coin, and the arbiter never asks for more blocks than the file has.
TypeOK ==
  /\ \A s \in Sessions :
        /\ buyer[s].inProgress => buyer[s].contract # NULL /\ buyer[s].coin # NULL
        /\ Len(buyer[s].ptext) <= MaxDecrypted
        /\ seller[s].inProgress <=> seller[s].escrow # NULL
        /\ seller[s].endorsed => seller[s].inProgress
        /\ Len(seller[s].challenges) <= Len(seller[s].ctext)
  /\ now \in 0 .. MaxTime
  /\ {m.type : m \in network} \subseteq {"buy", "keys", "endorsement", "resolution"}

\* The buyer has the file, or the arbiter's database has keys that give it.
DeliveredNow ==
  {s \in Sessions :
     /\ seller[s].inProgress
     /\ LET contract == seller[s].contract
            entry == HashVector(contract.id)
        IN \/ <<s, contract.ptHashB>> \in received
           \/ entry \in DOMAIN db /\ KeysAreRight(contract, db[entry])}

PaidNow == {s \in Sessions : seller[s].endorsed}

Fair == INSTANCE FairExchange WITH delivered <- DeliveredNow, paid <- PaidNow

\* The buy protocol implements a fair exchange: through delays, duplicates and
\* losses, wrong keys, timeouts and resolutions, a seller's coin is endorsed
\* only when the buyer has the file or its keys are in the database.
IsFair == Fair!FairSpec

\* What Seller::encrypt makes of a file: one algorithm for all of its blocks,
\* and one key as well when the vector of its blocks is encrypted at once.
Encrypted(f) ==
  /\ f.ptext # <<>> /\ f.ptext \in Seq({f.ptext[i] : i \in DOMAIN f.ptext} \ {Garbage})
  /\ f.ctext = [i \in DOMAIN f.ptext |->
                  Encrypt(f.ptext[i], f.ctext[i].key, f.ctext[1].alg)]
OneKey(f) == \A i \in DOMAIN f.ctext : f.ctext[i].key = f.ctext[1].key

\* Sellers sell what encrypt has made, each session one file; a file that may be
\* encrypted again during a sale has one key each time.
FairOffers ==
  \A s \in Sessions : \A f, g \in Offers[s] :
     Encrypted(f) /\ f.ptext = g.ptext /\ (FilesMayChange => OneKey(f))

\* A seller who asks the arbiter gets the endorsement of its own coin.
AnswerIsOurs ==
  \A m \in network : m.type = "resolution" => m.body = seller[m.to].coinPrime

\* Keys in the database under the id of a contract give the contract's file.
StoredKeysAreRight ==
  \A m \in network :
     m.type = "buy" =>
        LET entry == HashVector(m.body.contract.id)
        IN entry \in DOMAIN db => KeysAreRight(m.body.contract, db[entry])

\* Keys are stored only for contracts that stage I found in time, although
\* stage II does not look at the clock.
StoredInTime == DOMAIN db \subseteq {HashVector(id) : id \in inTime}

\* No two sellers have accepted the same coin, wherever messages end up.
CoinSoldOnce ==
  \A s, t \in Sessions :
     (seller[s].inProgress /\ seller[t].inProgress
        /\ seller[s].coinPrime = seller[t].coinPrime) => s = t

\* A seller that has sold is paid, or its contract expires.
SellerIsPaid ==
  \A s \in Sessions :
     seller[s].inProgress
       ~> \/ seller[s].endorsed
          \/ seller[s].contract # NULL /\ ~CheckTimeout(seller[s].contract, now)
-----------------------------------------------------------------------------
(* A promise of the code's comments that the code does not keep.            *)

\* Arbiter.h: retrieve the keys from the database if there is an entry.  So a
\* buyer whose seller has resolved gets the keys for its number r.
BuyerCanFetch ==
  \A s \in Sessions :
     (buyer[s].inProgress /\ HashVector(buyer[s].contract.id) \in DOMAIN db)
       => BuyerResolve(Resolve(s)) # <<>>
=============================================================================
