--------------------------- MODULE BarterExchange ---------------------------
(***************************************************************************)
(* Fair exchanges after a setup: one initiator and one responder who buy   *)
(* and barter in rounds with one coin, and the arbiter.  The network may   *)
(* delay, duplicate and lose; what was sent in one round may arrive in a   *)
(* later one.                                                              *)
(***************************************************************************)
EXTENDS FEInitiator, FEResponder, ArbiterBarter

CONSTANTS FilesA, FilesB,   \* files the two have, sequences of blocks
          Deals,            \* subset of {"buy", "barter"}
          StrayKeys,        \* key vectors that reach a party by mistake
          MistakenKeys,     \* key vectors an initiator may escrow by mistake
          Arbitration,      \* TRUE: the responder turns to the arbiter
          FilesMayChange,   \* TRUE: a responder may encrypt again in a round
          MaxRounds,        \* bound: times either party encrypts a file
          MaxCoins,         \* bound: setups
          MaxDecrypted,     \* bound: length of ptextA and ptextB
          MaxTime           \* bound: the clock stops here

alg == "aes"

\* Files have blocks, and vectors in escrow keys; a stray key is none of the
\* initiator's.
ASSUME BarterAssumption ==
  /\ Deals \subseteq {"buy", "barter"}
  /\ {Arbitration, FilesMayChange} \subseteq BOOLEAN
  /\ {MaxRounds, MaxCoins, MaxDecrypted, MaxTime} \subseteq Nat
  /\ \A f \in FilesA \cup FilesB :
        f # <<>> /\ f \in Seq({f[i] : i \in DOMAIN f} \ {Garbage})
  /\ \A keys \in MistakenKeys : DOMAIN keys # {}
  /\ \A keys \in StrayKeys, k \in 1 .. MaxRounds : KeyFor(keys, 1) # <<"A", k>>

\* A null pointer is not a contract.
ASSUME NullIsNoContract ==
  \A r \in 1 .. 2 * MaxRounds, time \in 0 .. MaxTime, k, n \in 1 .. MaxRounds, fB \in FilesB :
     LET ctextB == EncryptFile("B", fB, n, alg)
     IN  /\ NULL # NewContract(r, PlainOf(ctextB), ctextB, time)
         /\ \A fA \in FilesA :
               LET ctextA == EncryptFile("A", fA, k, alg)
               IN  NULL # BarterContract(r, PlainOf(ctextA), ctextA,
                                         PlainOf(ctextB), ctextB, time)

VARIABLES now, network,
          accepted,         \* history: contracts the responder gave keys for
          gotB,             \* history: ids of the contracts whose file B the
                            \* initiator has decrypted
          gotA,             \* history: ids whose file A the responder can decrypt
          paidFor           \* history: ids for which the coin got its endorsement

vars == <<initiator, responder, arbiter, db, now, network,
          accepted, gotB, gotA, paidFor>>
histories == <<accepted, gotB, gotA, paidFor>>

Init == /\ initiator = NewInitiator
        /\ responder = NewResponder
        /\ arbiter = NewArbiter
        /\ db = <<>>
        /\ now = 0
        /\ network = {}
        /\ accepted = {} /\ gotB = {} /\ gotA = {} /\ paidFor = {}

Send(m) == network' = network \cup {m}
Arrived(type) == {m.body : m \in {n \in network : n.type = type}}

-----------------------------------------------------------------------------
(* Setup and the start of a round.                                         *)

SettingUp ==
  /\ initiator.type = "none"
  /\ initiator.coin # MaxCoins
  /\ SetupInitiator
  /\ Send([type |-> "setup", body |-> SetupMessage'])
  /\ UNCHANGED <<responder, arbiter, db, now, histories>>

AcceptingSetup == \E m \in Arrived("setup") :
  /\ responder.type = "none"
  /\ SetupResponder(m)
  /\ UNCHANGED <<initiator, arbiter, db, now, network, histories>>

StartingRound == \E ptext \in FilesB :
  /\ responder.type = "none" \/ FilesMayChange
  /\ responder.keys < MaxRounds
  /\ StartRound(ptext, alg)
  /\ Send([type |-> "ctextB", body |-> responder'.ctextB])
  /\ UNCHANGED <<initiator, arbiter, db, now, histories>>

ContinuingRound == \E ptext \in FilesA :
  /\ "barter" \in Deals
  /\ initiator.coin # NULL /\ initiator.keys < MaxRounds
  /\ ContinueRound(ptext, alg)
  /\ Send([type |-> "ctextA", body |-> initiator'.ctextA])
  /\ UNCHANGED <<responder, arbiter, db, now, histories>>

-----------------------------------------------------------------------------
(* Buying.                                                                 *)

Buying == \E ctext \in Arrived("ctextB") :
  /\ "buy" \in Deals
  /\ initiator.coin # NULL /\ initiator.r < MaxRounds
  /\ InitiatorBuy(ctext, PlainOf(ctext), now)
  /\ Send([type |-> "message", body |-> BoughtMessage'])
  /\ UNCHANGED <<responder, arbiter, db, now, histories>>

\* The responder has set up and started a round before it answers a message: its
\* caller must see to that, since check reads the key of setup and the first block
\* of the ciphertext without a test (FEResponder.cpp:136).  A message that is given
\* to a responder without them, a late one after a reset too, crashes it: what
\* follows is not modelled.
Ready == responder.coinPrime # NULL /\ responder.ctextB # <<>>

Selling == \E m \in Arrived("message") :
  /\ Ready
  /\ Sell(m, now) /\ SellAccepts(m, now)
  /\ accepted' = accepted \cup {m.contract}
  /\ Send([type |-> "keysB", body |-> SentKeys(responder.ctextB)])
  /\ UNCHANGED <<initiator, arbiter, db, now, gotB, gotA, paidFor>>

SellingThrows == \E m \in Arrived("message") :
  /\ Ready
  /\ Sell(m, now) /\ ~SellAccepts(m, now)
  /\ UNCHANGED <<initiator, arbiter, db, now, network, histories>>

\* An endorsement on its way; "for" is history, the contract it was given for.
EndorsementFor(coin, contract) ==
  [type |-> "endorsement", body |-> [coin |-> coin, for |-> contract.id]]

\* pay and giveKeys of the initiator.  Both use the contract without a test: keys
\* that arrive after continueRound and before barter dereference a null pointer
\* (FEInitiator.cpp:199, 203).  Such a crash is not a step here; an initiator that
\* has crashed does nothing more, which Spec allows at any time and no fairness
\* rules out.
Answering == \E type \in {"buy", "barter"}, keys \in Arrived("keysB") \cup StrayKeys :
  /\ initiator.contract # NULL
  /\ InitiatorGives(type, keys)
  /\ Len(initiator'.ptextB) <= MaxDecrypted
  /\ gotB' = IF KeysAreRight(initiator.contract, keys)
             THEN gotB \cup {initiator.contract.id} ELSE gotB
  /\ Send(IF type = "buy" THEN EndorsementFor(initiator.coin, initiator.contract)
          ELSE [type |-> "keysA", body |-> SentKeys(initiator.ctextA)])
  /\ UNCHANGED <<responder, arbiter, db, now, accepted, gotA, paidFor>>

AnsweringThrows ==
  \E type \in {"buy", "barter"}, keys \in Arrived("keysB") \cup StrayKeys :
     /\ initiator.contract # NULL
     /\ InitiatorThrows(type, keys)
     /\ Len(initiator'.ptextB) <= MaxDecrypted
     /\ UNCHANGED <<responder, arbiter, db, now, network, histories>>

Endorsing == \E m \in Arrived("endorsement") :
  /\ responder.coinPrime # NULL
  /\ EndorseCoin(m.coin)
  /\ paidFor' = IF responder'.endorsed THEN paidFor \cup {m.for} ELSE paidFor
  /\ UNCHANGED <<initiator, arbiter, db, now, network, accepted, gotB, gotA>>

-----------------------------------------------------------------------------
(* Bartering.                                                              *)

Bartering == \E ctext \in Arrived("ctextB") :
  /\ initiator.type = "barter" /\ initiator.contract = NULL
  /\ Barter(ctext, PlainOf(ctext), now)
  /\ \E keys \in {SentKeys(initiator.ctextA)} \cup MistakenKeys :
        Send([type |-> "message", body |-> BarterMessage(keys)'])
  /\ UNCHANGED <<responder, arbiter, db, now, histories>>

Giving == \E m \in Arrived("message"), ctextA \in Arrived("ctextA") :
  /\ Ready
  /\ GiveKeys(m, ctextA, PlainOf(ctextA), now)
  /\ IF responder'.type = "barter"
     THEN /\ accepted' = accepted \cup {m.contract}
          /\ Send([type |-> "keysB", body |-> SentKeys(responder.ctextB)])
     ELSE UNCHANGED <<accepted, network>>
  /\ UNCHANGED <<initiator, arbiter, db, now, gotB, gotA, paidFor>>

CheckingKey == \E keys \in Arrived("keysA") \cup StrayKeys :
  /\ CheckKey(keys)
  /\ Len(responder'.ptextA) <= MaxDecrypted
  /\ gotA' = IF KeysAreRightA(responder.contract, keys)
             THEN gotA \cup {responder.contract.id} ELSE gotA
  /\ UNCHANGED <<initiator, arbiter, db, now, network, accepted, gotB, paidFor>>

-----------------------------------------------------------------------------
(* Resolutions, as long as the responder has neither file nor coin.        *)

MayResolve == /\ Arbitration
              /\ responder.type # "none" /\ responder.contract \in accepted
              /\ responder.contract.id \notin gotA \cup paidFor

ResolvingI ==
  /\ MayResolve
  /\ responder.challenges = <<>>
  /\ ResponderResolveI(ResolveI, now)
  /\ IF ResponderAccepted(ResolveI, now)
     THEN \E challenges \in Challenges(responder.contract) :
             responder' = [responder EXCEPT !.challenges = challenges]
     ELSE UNCHANGED responder
  /\ UNCHANGED <<initiator, db, now, network, histories>>

ResolvingII ==
  /\ MayResolve
  /\ responder.challenges # <<>> /\ responder.returned = <<>>
  /\ ResponderResolveII(ResolveII(responder.challenges))
  /\ responder' = [responder EXCEPT !.returned = InitiatorKeys]
  /\ UNCHANGED <<initiator, db, now, network, histories>>

\* resolveIII: the keys of stage II are checked.  When they are found wrong, the
\* proof of it goes to the arbiter, whose answer is the endorsement.
ResolvingIII ==
  /\ MayResolve
  /\ responder.returned # <<>>
  /\ CheckKey(responder.returned)
  /\ Len(responder.ptextA) <= MaxDecrypted
  /\ gotA' = IF KeysAreRightA(responder.contract, responder.returned)
             THEN gotA \cup {responder.contract.id} ELSE gotA
  /\ IF ~CheckKeyResult(responder.returned)
        /\ ResponderResolveIII(ProveIncorrectKeys)
     THEN Send(EndorsementFor(arbiter.endorsement, arbiter.contract))
     ELSE UNCHANGED network
  /\ UNCHANGED <<initiator, arbiter, db, now, accepted, gotB, paidFor>>

-----------------------------------------------------------------------------
\* A party is used again when its round is over: it has what it wanted, or the
\* contract has run out.
ResettingInitiator ==
  /\ initiator.type # "none"
  /\ initiator.contract # NULL
  /\ initiator.contract.id \in gotB \/ ~CheckTimeout(initiator.contract, now)
  /\ ResetInitiator
  /\ UNCHANGED <<responder, arbiter, db, now, network, histories>>

ResettingResponder ==
  /\ responder.contract # NULL
  /\ responder.contract.id \in gotA \cup paidFor
        \/ ~CheckTimeout(responder.contract, now)
  /\ ResetResponder
  /\ UNCHANGED <<initiator, arbiter, db, now, network, histories>>

Tick == /\ now < MaxTime
        /\ now' = now + 1
        /\ UNCHANGED <<initiator, responder, arbiter, db, network, histories>>

Next == \/ SettingUp \/ AcceptingSetup \/ StartingRound \/ ContinuingRound
        \/ Buying \/ Selling \/ SellingThrows
        \/ Answering \/ AnsweringThrows \/ Endorsing
        \/ Bartering \/ Giving \/ CheckingKey
        \/ ResolvingI \/ ResolvingII \/ ResolvingIII
        \/ ResettingInitiator \/ ResettingResponder \/ Tick

Spec == Init /\ [][Next]_vars

\* A responder that has given its keys pursues the matter with the arbiter; the
\* initiator and the network owe it nothing.
LiveSpec == /\ Spec
            /\ WF_vars(ResolvingI) /\ WF_vars(ResolvingII) /\ WF_vars(ResolvingIII)
            /\ WF_vars(Endorsing)
-----------------------------------------------------------------------------
\* The objects stay coherent: who barters has its own ciphertext, who answered
\* has a contract, and what the arbiter returned answers its challenges.
TypeOK ==
  /\ {initiator.type, responder.type} \subseteq {"none", "buy", "barter"}
  /\ initiator.type = "barter" => initiator.ctextA # <<>>
  /\ initiator.type = "buy" => initiator.contract # NULL
  /\ responder.type = "none" \/ responder.contract = responder.message.contract
  /\ responder.type = "barter" => responder.ctextA # <<>>
  /\ responder.returned # <<>> => responder.challenges # <<>>
  /\ accepted \subseteq {m.contract : m \in Arrived("message")}
  /\ now \in 0 .. MaxTime

DeliveredNow ==
  gotB \cup {c.id : c \in {d \in accepted : HashVector(d.id) \in DOMAIN db}}

Fair == INSTANCE FairExchange
          WITH Sessions <- {HashBytes(r) : r \in 1 .. 2 * MaxRounds},
               delivered <- DeliveredNow, paid <- gotA \cup paidFor

\* Round after round, whatever arrives late or twice, the responder has the
\* initiator's file, or the endorsement of its coin, only when the initiator
\* has the responder's file or can get its keys from the arbiter.
IsFair == Fair!FairSpec

\* Parties that work on the same contract work on the same ciphertexts, although
\* those of earlier rounds are still about.
SameRound ==
  (/\ initiator.type = "barter" /\ responder.type = "barter"
   /\ initiator.contract = responder.contract)
     => /\ initiator.ctextA = responder.ctextA
        /\ initiator.ctextB = responder.ctextB

\* When a responder that gave its keys shows the arbiter its contract before it
\* has run out, the arbiter accepts the request.
InTimeRequestAccepted ==
  (responder.contract \in accepted /\ CheckTimeout(responder.contract, now))
     => ResponderAccepted(ResolveI, now)

\* The arbiter lets the initiator's keys go only against keys of the responder
\* that decrypt the file of the contract.
KeysForKeys ==
  [][ResolvingII => KeysAreRight(arbiter.contract, arbiter.keys)]_vars

\* A responder that gave its keys and keeps its files gets the initiator's, or
\* the endorsement of the coin when wrong keys are in escrow; or its contract
\* runs out, or the keys in escrow are ones that lose bytes.
ResponderIsServed ==
  responder.type = "barter"
    ~> \/ responder.contract = NULL
       \/ responder.contract.id \in gotA \cup paidFor
       \/ ~CheckTimeout(responder.contract, now)
       \/ MerkleHash(responder.ctextB) # responder.contract.ctHashB
       \/ \E i \in DOMAIN responder.returned : responder.returned[i] = <<>>
-----------------------------------------------------------------------------
(* Promises of the code's comments that the code does not keep.            *)

\* Arbiter.h, Stage III: the endorsement is for a responder whose initiator's
\* keys were incorrect.  So nothing is sent when the keys it got are right.
NoDisputeOverRightKeys ==
  [][(ResolvingIII /\ KeysAreRightA(responder.contract, responder.returned))
        => network' = network]_vars
=============================================================================
