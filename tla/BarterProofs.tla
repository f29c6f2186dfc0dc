---------------------------- MODULE BarterProofs ----------------------------
(***************************************************************************)
(* Proofs about BarterExchange.tla, for any files, any number of rounds    *)
(* and setups, and a network that delays, loses and duplicates: the        *)
(* parties of a round work on the same ciphertexts, the arbiter serves a   *)
(* responder in time and gives the initiator's keys against right ones,    *)
(* and buying and bartering without the arbiter is a fair exchange.        *)
(***************************************************************************)
EXTENDS BarterExchange, SequenceTheorems, TLAPS

Rounds == 1 .. MaxRounds
CtextsA == {EncryptFile("A", f, k, alg) : f \in FilesA, k \in Rounds}
CtextsB == {EncryptFile("B", f, n, alg) : f \in FilesB, n \in Rounds}

\* The blocks that an initiator may come to hold.
Blocks == {Garbage} \cup UNION {{f[i] : i \in DOMAIN f} : f \in FilesA \cup FilesB}

\* The contract c is about the responder's ciphertext b, or the initiator's a.
AboutB(c, b) == /\ c.ctHashB = MerkleHash(b) /\ c.ptHashB = MerkleHash(PlainOf(b))
                /\ c.encAlgB = alg /\ c.ptHashBlocksB = Len(b)
AboutA(c, a) == /\ c.ctHashA = MerkleHash(a) /\ c.ptHashA = MerkleHash(PlainOf(a))
                /\ c.encAlgA = alg

\* Contracts that an initiator makes, and those for a barter.
IsDeal(c) == /\ c # NULL /\ c # <<>>
             /\ \E r \in 1 .. 2 * MaxRounds : c.id = HashBytes(r)
             /\ \E b \in CtextsB : AboutB(c, b)
IsBarter(c) == IsDeal(c) /\ \E a \in CtextsA : AboutA(c, a)

\* The initiator's key for the file of a barter's contract.
KeyA(c) == c.ctHashA.root[1].key

\* What a message of a buy looks like, and one of a barter.
Bought(m) == /\ IsDeal(m.contract) /\ m.escrow = <<>>
             /\ m.signature = Signed(m.contract)
Bartered(m) == /\ IsBarter(m.contract)
               /\ m.escrow.label = m.contract /\ DOMAIN m.escrow.keys # {}
               /\ m.signature = Signed(m.escrow)

\* A setup is the initiator's, and its escrow is of the coin's endorsement.
IsSetup(x) == /\ x.signPK = "initiator" /\ x.escrow.label = "initiator"
              /\ x.escrow.endorsement = x.coinPrime
-----------------------------------------------------------------------------
(* The inductive invariant.                                                *)

\* The objects keep their fields, the clock its bounds, and nobody stores.
Shape ==
  /\ DOMAIN initiator = {"type", "coin", "ctextA", "ctextB", "ptextB", "contract", "r", "keys"}
  /\ DOMAIN responder = {"type", "ptextB", "ctextB", "ctextA", "ptextA", "coinPrime",
                         "escrow", "signPK", "contract", "message", "endorsed", "keys",
                         "challenges", "returned"}
  /\ DOMAIN arbiter = {"keys", "contract", "endorsement", "message", "ptVerifier",
                       "ctVerifier"}
  /\ now \in 0 .. MaxTime
  /\ db = <<>>

\* Every barter has a key of its own, and every contract a number of its own.
Counters ==
  /\ initiator.keys \in 0 .. MaxRounds
  /\ initiator.r \in 0 .. MaxRounds + initiator.keys
  /\ initiator.type = "barter" /\ initiator.contract = NULL =>
        initiator.r < MaxRounds + initiator.keys

\* An initiator's contract is about the ciphertexts it works on.
InitiatorsDeal ==
  /\ initiator.type \in {"none", "buy", "barter"}
  /\ initiator.ptextB \in Seq(Blocks)
  /\ initiator.type = "none" => initiator.contract = NULL
  /\ initiator.type = "buy" => initiator.contract # NULL
  /\ initiator.contract # NULL => /\ IsDeal(initiator.contract)
                                  /\ initiator.ctextB \in CtextsB
                                  /\ AboutB(initiator.contract, initiator.ctextB)
  /\ initiator.type = "barter" =>
        /\ initiator.ctextA \in CtextsA
        /\ initiator.ctextA[1].key = <<"A", initiator.keys>>
        /\ initiator.contract # NULL => /\ IsBarter(initiator.contract)
                                        /\ AboutA(initiator.contract, initiator.ctextA)

\* What is on the network.
Traffic ==
  /\ Arrived("ctextA") \subseteq CtextsA
  /\ Arrived("ctextB") \subseteq CtextsB
  /\ \A m \in Arrived("setup") : IsSetup(m)
  /\ \A m \in Arrived("message") : ("buy" \in Deals /\ Bought(m)) \/ Bartered(m)

\* A responder that gave its keys is set up.
RespondersSetup == /\ accepted \subseteq {m.contract : m \in Arrived("message")}
                   /\ responder.coinPrime # NULL \/ accepted # {} => IsSetup(responder)

RespondersFile ==
  /\ responder.keys \in 0 .. MaxRounds
  /\ responder.ctextB # <<>> => /\ responder.ctextB \in CtextsB
                                /\ responder.ptextB = PlainOf(responder.ctextB)

\* A responder's contract came with a message.  Who barters has seen that it is
\* about both ciphertexts.
RespondersDeal ==
  /\ responder.type \in {"none", "buy", "barter"}
  /\ responder.contract # NULL => /\ responder.message \in Arrived("message")
                                  /\ responder.contract = responder.message.contract
  /\ responder.type # "none" => responder.contract # NULL /\ responder.ctextB # <<>>
  /\ responder.type = "barter" =>
        /\ Bartered(responder.message)
        /\ responder.ctextA # <<>>
        /\ responder.contract.ctHashA = MerkleHash(responder.ctextA)
        /\ FilesMayChange \/ responder.contract.ctHashB = MerkleHash(responder.ctextB)

\* While challenges wait to be answered, the arbiter's fields are those of the
\* request, and its keys are of one of the responder's files.
ArbitersView ==
  /\ responder.returned # <<>> => responder.challenges # <<>>
  /\ responder.challenges # <<>> =>
        /\ responder.type # "none" /\ Bartered(responder.message)
        /\ 1 \in DOMAIN responder.challenges
        /\ responder.challenges[1] \in 1 .. responder.contract.ptHashBlocksB
        /\ responder.returned = <<>> =>
              /\ arbiter.contract = responder.contract
              /\ arbiter.message = responder.message
              /\ arbiter.ctVerifier = responder.contract.ctHashB
              /\ \E b \in CtextsB : arbiter.keys = SentKeys(b)

IInv == /\ Shape /\ Counters /\ InitiatorsDeal /\ Traffic
        /\ RespondersSetup /\ RespondersFile /\ RespondersDeal /\ ArbitersView
-----------------------------------------------------------------------------
(* Ciphertexts and keys.                                                   *)

\* The blocks of a file.
LEMMA FileBlocks ==
  ASSUME NEW f \in FilesA \cup FilesB
  PROVE  /\ Len(f) \in Nat \ {0} /\ DOMAIN f = 1 .. Len(f)
         /\ f = [i \in 1 .. Len(f) |-> f[i]]
         /\ \A i \in 1 .. Len(f) : f[i] # Garbage /\ f[i] \in Blocks
<1>. DEFINE T == {f[i] : i \in DOMAIN f} \ {Garbage}
<1>1. f \in Seq(T) /\ f # <<>>
  BY BarterAssumption
<1>2. T \subseteq Blocks /\ Garbage \notin T
  BY DEF Blocks
<1>. HIDE DEF T
<1>. QED
  BY <1>1, <1>2

\* The ciphertext of a file under a common key.
IsOf(c, f, key) == /\ f \in FilesA \cup FilesB
                   /\ DOMAIN c = 1 .. Len(f) /\ Len(c) = Len(f) /\ c # <<>>
                   /\ PlainOf(c) = f
                   /\ \A i \in 1 .. Len(f) : /\ c[i].plain = f[i]
                                              /\ c[i].key = key /\ c[i].alg = alg

\* EncryptFile encrypts every block under the same key.
LEMMA EncryptFileParts ==
  ASSUME NEW f \in FilesA \cup FilesB, NEW owner, NEW n
  PROVE  IsOf(EncryptFile(owner, f, n, alg), f, <<owner, n>>)
<1>. DEFINE key == <<owner, n>>
            c == EncryptFile(owner, f, n, alg)
<1>1. /\ Len(f) \in Nat \ {0} /\ DOMAIN f = 1 .. Len(f)
      /\ f = [i \in 1 .. Len(f) |-> f[i]]
  BY FileBlocks
<1>2. c = [i \in 1 .. Len(f) |-> Encrypt(f[i], key, alg)]
  BY <1>1 DEF EncryptFile
<1>3. DOMAIN c = 1 .. Len(f) /\ \A i \in 1 .. Len(f) : c[i] = Encrypt(f[i], key, alg)
  BY <1>2
<1>. HIDE DEF key, c
<1>4. \A i \in 1 .. Len(f) : c[i].plain = f[i] /\ c[i].key = key /\ c[i].alg = alg
  BY <1>3 DEF Encrypt
<1>5. Len(c) = Len(f) /\ c # <<>>
  BY <1>1, <1>2
<1>6. PlainOf(c) = f
  BY <1>1, <1>3, <1>4 DEF PlainOf
<1>. QED
  BY <1>3, <1>4, <1>5, <1>6 DEF IsOf, key, c

\* The ciphertexts of the two parties.
LEMMA CtextsParts ==
  /\ \A a \in CtextsA : \E f \in FilesA, k \in Rounds : IsOf(a, f, <<"A", k>>)
  /\ \A b \in CtextsB : \E f \in FilesB, n \in Rounds : IsOf(b, f, <<"B", n>>)
BY EncryptFileParts DEF CtextsA, CtextsB

\* One key is sent, which is the key of every block.
LEMMA OneKeyIsSent ==
  ASSUME NEW c, NEW f, NEW key, IsOf(c, f, key)
  PROVE  SentKeys(c) = <<key>> /\ \A i : KeyFor(SentKeys(c), i) = key
<1>1. /\ Len(f) \in Nat \ {0} /\ DOMAIN c = 1 .. Len(f) /\ Len(c) = Len(f)
      /\ \A j \in 1 .. Len(f) : c[j].key = key
  BY FileBlocks DEF IsOf
<1>2. Len(c) > 1 => SentKeys(c) = <<key>>
  BY <1>1 DEF SentKeys
<1>3. ASSUME Len(c) = 1 PROVE SentKeys(c) = <<key>>
  <2>1. SentKeys(c) = [j \in 1 .. 1 |-> c[j].key]
    BY <1>1, <1>3 DEF SentKeys, KeysOf
  <2>2. Len(SentKeys(c)) = 1 /\ SentKeys(c) = <<SentKeys(c)[1]>> /\ SentKeys(c)[1] = c[1].key
    BY <2>1
  <2>. QED
    BY <1>1, <1>3, <2>2
<1>4. SentKeys(c) = <<key>>
  BY <1>1, <1>2, <1>3
<1>. QED
  BY <1>4 DEF KeyFor

\* Keys with the right one for every block decrypt the file.
LEMMA RightKeys ==
  ASSUME NEW c, NEW f, NEW key, IsOf(c, f, key), NEW keys,
         \A i \in 1 .. Len(f) : KeyFor(keys, i) = key
  PROVE  DecryptAll(c, keys, alg) = f
<1>1. f = [i \in 1 .. Len(f) |-> f[i]]
  BY FileBlocks DEF IsOf
<1>2. DecryptAll(c, keys, alg) = [i \in 1 .. Len(f) |-> f[i]]
  BY DEF DecryptAll, Decrypt, IsOf
<1>. QED
  BY <1>1, <1>2

\* Keys that decrypt the file have the right one for its first block.
LEMMA KeyMatters ==
  ASSUME NEW c, NEW f, NEW key, IsOf(c, f, key), NEW keys,
         DecryptAll(c, keys, alg) = f
  PROVE  KeyFor(keys, 1) = key
<1>1. 1 \in 1 .. Len(f) /\ f[1] # Garbage
  BY FileBlocks DEF IsOf
<1>2. DecryptAll(c, keys, alg)[1] = Decrypt(c[1], KeyFor(keys, 1), alg)
  BY <1>1 DEF DecryptAll, IsOf
<1>. QED
  BY <1>1, <1>2 DEF Decrypt, IsOf

\* Any keys make as many blocks of a ciphertext as the file has.
LEMMA DecryptedBlocks ==
  ASSUME NEW c, NEW f, NEW key, IsOf(c, f, key), NEW keys, NEW other
  PROVE  /\ DecryptAll(c, keys, other) \in Seq(Blocks)
         /\ Len(DecryptAll(c, keys, other)) = Len(f)
<1>. DEFINE n == Len(f)
            d == DecryptAll(c, keys, other)
<1>1. /\ n \in Nat \ {0} /\ DOMAIN c = 1 .. n
      /\ \A i \in 1 .. n : c[i].plain = f[i] /\ f[i] \in Blocks
  BY FileBlocks DEF IsOf
<1>2. d = [i \in 1 .. n |-> Decrypt(c[i], KeyFor(keys, i), other)]
  BY <1>1 DEF DecryptAll
<1>3. \A i \in 1 .. n : Decrypt(c[i], KeyFor(keys, i), other) \in Blocks
  BY <1>1 DEF Decrypt, Blocks
<1>. HIDE DEF n, d
<1>. QED
  BY <1>1, <1>2, <1>3 DEF n, d
-----------------------------------------------------------------------------
(* Contracts and messages.                                                 *)

\* The contract of a buy.
LEMMA BoughtContract ==
  ASSUME NEW r \in 1 .. 2 * MaxRounds, NEW b \in CtextsB, NEW time \in 0 .. MaxTime
  PROVE  LET c == NewContract(r, PlainOf(b), b, time)
         IN  IsDeal(c) /\ AboutB(c, b)
<1>. DEFINE c == NewContract(r, PlainOf(b), b, time)
<1>1. PICK f \in FilesB, n \in Rounds : b = EncryptFile("B", f, n, alg)
  BY DEF CtextsB
<1>2. PICK key : IsOf(b, f, key)
  BY <1>1, EncryptFileParts
<1>3. 1 \in 1 .. Len(f)
  BY FileBlocks
<1>4. b[1].alg = alg /\ Len(PlainOf(b)) = Len(b)
  BY <1>2, <1>3 DEF IsOf
<1>5. c # NULL
  BY <1>1, NullIsNoContract DEF Rounds
<1>6. c.id = HashBytes(r) /\ AboutB(c, b)
  BY <1>4 DEF NewContract, AboutB
<1>7. "id" \in DOMAIN c /\ DOMAIN << >> = {}
  BY DEF NewContract
<1>. HIDE DEF c
<1>. QED
  BY <1>5, <1>6, <1>7 DEF IsDeal, c

\* The contract of a barter.
LEMMA BarteredContract ==
  ASSUME NEW r \in 1 .. 2 * MaxRounds, NEW a \in CtextsA, NEW b \in CtextsB,
         NEW time \in 0 .. MaxTime
  PROVE  LET c == BarterContract(r, PlainOf(a), a, PlainOf(b), b, time)
         IN  /\ IsBarter(c) /\ AboutB(c, b) /\ AboutA(c, a)
             /\ c.id = HashBytes(r) /\ KeyA(c) = a[1].key
<1>. DEFINE c == BarterContract(r, PlainOf(a), a, PlainOf(b), b, time)
            bought == NewContract(r, PlainOf(b), b, time)
<1>1. PICK f \in FilesB, n \in Rounds : b = EncryptFile("B", f, n, alg)
  BY DEF CtextsB
<1>2. PICK g \in FilesA, k \in Rounds : a = EncryptFile("A", g, k, alg)
  BY DEF CtextsA
<1>3. a[1].alg = alg
  <2>1. PICK key : IsOf(a, g, key)
    BY <1>2, EncryptFileParts
  <2>2. 1 \in 1 .. Len(g)
    BY FileBlocks
  <2>. QED
    BY <2>1, <2>2 DEF IsOf
<1>4. /\ c.id = bought.id /\ c.ptHashB = bought.ptHashB /\ c.ctHashB = bought.ctHashB
      /\ c.encAlgB = bought.encAlgB /\ c.ptHashBlocksB = bought.ptHashBlocksB
      /\ c.ptHashA = MerkleHash(PlainOf(a)) /\ c.ctHashA = MerkleHash(a)
      /\ c.encAlgA = a[1].alg
  BY DEF BarterContract
<1>5. c # NULL
  BY <1>1, <1>2, NullIsNoContract DEF Rounds
<1>6. bought.id = HashBytes(r) /\ AboutB(bought, b)
  BY BoughtContract DEF NewContract
<1>7. "id" \in DOMAIN c /\ DOMAIN << >> = {}
  BY DEF BarterContract
<1>. HIDE DEF c, bought
<1>8. c.id = HashBytes(r) /\ AboutB(c, b) /\ AboutA(c, a)
  BY <1>3, <1>4, <1>6 DEF AboutA, AboutB
<1>9. KeyA(c) = a[1].key
  BY <1>4 DEF KeyA, MerkleHash
<1>. QED
  BY <1>5, <1>7, <1>8, <1>9 DEF IsBarter, IsDeal, c

\* More is on the network than before.
LEMMA ArrivedStays ==
  ASSUME NEW type, NEW m, Send(m)
  PROVE  /\ Arrived(type)' = Arrived(type) \cup (IF m.type = type THEN {m.body} ELSE {})
BY DEF Send, Arrived
-----------------------------------------------------------------------------
(* The invariant is inductive.                                             *)

\* New objects and an empty network satisfy it.
LEMMA InitIInv == Init => IInv
<1>. SUFFICES ASSUME Init PROVE IInv
  OBVIOUS
<1>1. MaxTime \in Nat /\ MaxRounds \in Nat
  BY BarterAssumption
<1>2. Shape
  BY <1>1 DEF Init, Shape, NewInitiator, NewResponder, NewArbiter
<1>3. Counters
  BY <1>1 DEF Init, Counters, NewInitiator
<1>4. InitiatorsDeal
  BY DEF Init, InitiatorsDeal, NewInitiator
<1>5. Traffic
  BY DEF Init, Traffic, Arrived
<1>6. RespondersSetup /\ RespondersFile
  BY <1>1 DEF Init, RespondersSetup, RespondersFile, NewResponder
<1>7. RespondersDeal /\ ArbitersView
  BY DEF Init, RespondersDeal, ArbitersView, NewResponder
<1>. QED
  BY <1>2, <1>3, <1>4, <1>5, <1>6, <1>7 DEF IInv

\* What is said of the initiator stays true while it does nothing.
LEMMA InitiatorKeeps ==
  ASSUME IInv, UNCHANGED initiator
  PROVE  Counters' /\ InitiatorsDeal'
BY DEF IInv, Counters, InitiatorsDeal

\* What is said of the responder stays true while neither it nor the arbiter
\* does anything, although more messages arrive.
LEMMA ResponderKeeps ==
  ASSUME IInv, UNCHANGED <<responder, arbiter, accepted>>,
         Arrived("message") \subseteq Arrived("message")'
  PROVE  RespondersSetup' /\ RespondersFile' /\ RespondersDeal' /\ ArbitersView'
<1>1. RespondersSetup'
  BY DEF IInv, RespondersSetup
<1>2. RespondersFile' /\ ArbitersView'
  BY DEF IInv, RespondersFile, ArbitersView
<1>3. RespondersDeal'
  BY DEF IInv, RespondersDeal
<1>. QED
  BY <1>1, <1>2, <1>3

\* A message is one of those the invariant allows.
Allowed(m) ==
  /\ m.type = "ctextA" => m.body \in CtextsA
  /\ m.type = "ctextB" => m.body \in CtextsB
  /\ m.type = "setup" => IsSetup(m.body)
  /\ m.type = "message" => ("buy" \in Deals /\ Bought(m.body)) \/ Bartered(m.body)

\* The traffic stays as it is when nothing is sent, or something allowed.
LEMMA TrafficKeeps ==
  ASSUME IInv, UNCHANGED network \/ \E m : Send(m) /\ Allowed(m)
  PROVE  Traffic' /\ \A type : Arrived(type) \subseteq Arrived(type)'
<1>1. CASE UNCHANGED network
  BY <1>1 DEF IInv, Traffic, Arrived
<1>2. ASSUME NEW m, Send(m), Allowed(m)
      PROVE  Traffic' /\ \A type : Arrived(type) \subseteq Arrived(type)'
  <2>1. \A type : Arrived(type)' = Arrived(type) \cup (IF m.type = type THEN {m.body} ELSE {})
    BY <1>2, ArrivedStays
  <2>. QED
    BY <1>2, <2>1 DEF IInv, Traffic, Allowed
<1>. QED
  BY <1>1, <1>2

\* A setup takes the next coin and puts its endorsement in escrow.
LEMMA SettingUpIInv ==
  ASSUME IInv, SettingUp
  PROVE  IInv'
<1>. DEFINE coin == IF initiator.coin = NULL THEN 1 ELSE initiator.coin + 1
            x == [initiator EXCEPT !.coin = coin]
            sent == [type |-> "setup", body |-> SetupMessage']
<1>1. initiator' = x /\ Send(sent)
  BY DEF SettingUp, SetupInitiator
<1>2. UNCHANGED <<responder, arbiter, db, now, accepted>>
  BY DEF SettingUp, histories
<1>3. /\ DOMAIN x = DOMAIN initiator
      /\ x.type = initiator.type /\ x.ctextA = initiator.ctextA
      /\ x.ctextB = initiator.ctextB /\ x.ptextB = initiator.ptextB
      /\ x.contract = initiator.contract /\ x.r = initiator.r /\ x.keys = initiator.keys
  OBVIOUS
<1>4. IsSetup(SetupMessage')
  BY DEF IsSetup, SetupMessage
<1>5. Allowed(sent)
  BY <1>4 DEF Allowed
<1>. HIDE DEF x, sent
<1>6. Traffic' /\ Arrived("message") \subseteq Arrived("message")'
  BY <1>1, <1>5, TrafficKeeps
<1>7. Shape' /\ Counters' /\ InitiatorsDeal'
  BY <1>1, <1>2, <1>3 DEF IInv, Shape, Counters, InitiatorsDeal
<1>. QED
  BY <1>2, <1>6, <1>7, ResponderKeeps DEF IInv

\* The responder accepts a setup.
LEMMA AcceptingSetupIInv ==
  ASSUME IInv, AcceptingSetup
  PROVE  IInv'
<1>1. PICK m \in Arrived("setup") : responder.type = "none" /\ SetupResponder(m)
  BY DEF AcceptingSetup
<1>2. UNCHANGED <<initiator, arbiter, db, now, network, accepted>>
  BY DEF AcceptingSetup, histories
<1>. DEFINE x == [responder EXCEPT
               !.coinPrime = m.coinPrime, !.escrow = m.escrow, !.signPK = m.signPK,
               !.endorsed = responder.endorsed /\ m.coinPrime = responder.coinPrime]
<1>3. responder' = x
  BY <1>1 DEF SetupResponder
<1>4. /\ DOMAIN x = DOMAIN responder
      /\ x.coinPrime = m.coinPrime /\ x.escrow = m.escrow /\ x.signPK = m.signPK
      /\ x.type = responder.type /\ x.ptextB = responder.ptextB
      /\ x.ctextB = responder.ctextB /\ x.ctextA = responder.ctextA
      /\ x.contract = responder.contract /\ x.message = responder.message
      /\ x.keys = responder.keys /\ x.challenges = responder.challenges
      /\ x.returned = responder.returned
  BY DEF IInv, Shape
<1>. HIDE DEF x
<1>5. Traffic' /\ \A type : Arrived(type)' = Arrived(type)
  BY <1>2, TrafficKeeps DEF Arrived
<1>6. IsSetup(m)
  BY DEF IInv, Traffic
<1>7. RespondersSetup'
  BY <1>2, <1>3, <1>4, <1>5, <1>6 DEF IInv, RespondersSetup, IsSetup
<1>8. Shape' /\ RespondersFile'
  BY <1>2, <1>3, <1>4 DEF IInv, Shape, RespondersFile
<1>9. RespondersDeal' /\ ArbitersView'
  BY <1>1, <1>2, <1>3, <1>4, <1>5 DEF IInv, RespondersDeal, ArbitersView
<1>. QED
  BY <1>2, <1>5, <1>7, <1>8, <1>9, InitiatorKeeps DEF IInv

\* The responder encrypts a file under its next key.
LEMMA StartingRoundIInv ==
  ASSUME IInv, StartingRound
  PROVE  IInv'
<1>1. PICK f \in FilesB : StartRound(f, alg)
  BY DEF StartingRound
<1>2. /\ UNCHANGED <<initiator, arbiter, db, now, accepted>>
      /\ responder.type = "none" \/ FilesMayChange
      /\ responder.keys < MaxRounds
      /\ Send([type |-> "ctextB", body |-> responder'.ctextB])
  BY DEF StartingRound, histories
<1>. DEFINE n == responder.keys + 1
            b == EncryptFile("B", f, n, alg)
            x == [responder EXCEPT !.ptextB = f, !.keys = n, !.ctextB = b]
            sent == [type |-> "ctextB", body |-> responder'.ctextB]
<1>3. responder' = x
  BY <1>1 DEF StartRound, EncryptFile
<1>4. /\ DOMAIN x = DOMAIN responder
      /\ x.ptextB = f /\ x.keys = n /\ x.ctextB = b
      /\ x.coinPrime = responder.coinPrime /\ x.escrow = responder.escrow
      /\ x.signPK = responder.signPK
      /\ x.type = responder.type /\ x.ctextA = responder.ctextA
      /\ x.contract = responder.contract /\ x.message = responder.message
      /\ x.challenges = responder.challenges /\ x.returned = responder.returned
  BY DEF IInv, Shape
<1>5. sent.type = "ctextB" /\ sent.body = responder'.ctextB
  OBVIOUS
<1>. HIDE DEF x, sent
<1>6. n \in Rounds
  BY <1>2, BarterAssumption DEF IInv, RespondersFile, Rounds
<1>7. b \in CtextsB /\ f = PlainOf(b) /\ b # <<>>
  BY <1>6, EncryptFileParts DEF CtextsB, IsOf
<1>. HIDE DEF b, n
<1>8. Allowed(sent)
  BY <1>3, <1>4, <1>5, <1>7 DEF Allowed
<1>9. Traffic' /\ Arrived("message") \subseteq Arrived("message")'
  BY <1>2, <1>8, TrafficKeeps DEF sent
<1>10. RespondersSetup'
  BY <1>2, <1>3, <1>4, <1>9 DEF IInv, RespondersSetup, IsSetup
<1>11. Shape' /\ RespondersFile'
  BY <1>2, <1>3, <1>4, <1>6, <1>7 DEF IInv, Shape, RespondersFile, Rounds
<1>12. RespondersDeal' /\ ArbitersView'
  BY <1>2, <1>3, <1>4, <1>7, <1>9 DEF IInv, RespondersDeal, ArbitersView
<1>. QED
  BY <1>2, <1>9, <1>10, <1>11, <1>12, InitiatorKeeps DEF IInv

\* The initiator encrypts its file under its next key.
LEMMA ContinuingRoundIInv ==
  ASSUME IInv, ContinuingRound
  PROVE  IInv'
<1>1. PICK f \in FilesA : ContinueRound(f, alg)
  BY DEF ContinuingRound
<1>2. /\ UNCHANGED <<responder, arbiter, db, now, accepted>>
      /\ initiator.keys < MaxRounds
      /\ Send([type |-> "ctextA", body |-> initiator'.ctextA])
  BY DEF ContinuingRound, histories
<1>. DEFINE k == initiator.keys + 1
            a == EncryptFile("A", f, k, alg)
            x == [initiator EXCEPT !.type = "barter", !.keys = k, !.ctextA = a]
            sent == [type |-> "ctextA", body |-> initiator'.ctextA]
<1>3. initiator' = x /\ initiator.type = "none"
  BY <1>1 DEF ContinueRound
<1>4. /\ DOMAIN x = DOMAIN initiator
      /\ x.type = "barter" /\ x.keys = k /\ x.ctextA = a
      /\ x.ctextB = initiator.ctextB /\ x.ptextB = initiator.ptextB
      /\ x.contract = initiator.contract /\ x.r = initiator.r
  BY DEF IInv, Shape
<1>5. sent.type = "ctextA" /\ sent.body = initiator'.ctextA
  OBVIOUS
<1>. HIDE DEF x, sent
<1>6. k \in Rounds /\ k = initiator.keys + 1
  BY <1>2, BarterAssumption DEF IInv, Counters, Rounds
<1>7. a \in CtextsA /\ a[1].key = <<"A", k>>
  <2>1. IsOf(a, f, <<"A", k>>)
    BY EncryptFileParts
  <2>2. 1 \in 1 .. Len(f)
    BY FileBlocks
  <2>. QED
    BY <1>6, <2>1, <2>2 DEF CtextsA, IsOf
<1>. HIDE DEF a, k
<1>8. Allowed(sent)
  BY <1>3, <1>4, <1>5, <1>7 DEF Allowed
<1>9. Traffic' /\ Arrived("message") \subseteq Arrived("message")'
  BY <1>2, <1>8, TrafficKeeps DEF sent
<1>10. initiator.contract = NULL
  BY <1>3 DEF IInv, InitiatorsDeal
<1>11. Shape' /\ InitiatorsDeal'
  BY <1>2, <1>3, <1>4, <1>7, <1>10 DEF IInv, Shape, InitiatorsDeal
<1>12. Counters'
  BY <1>3, <1>4, <1>6, <1>10, BarterAssumption DEF IInv, Counters, Rounds
<1>. QED
  BY <1>2, <1>9, <1>11, <1>12, ResponderKeeps DEF IInv

\* buy makes a contract about the ciphertext that arrived.
LEMMA BuyingIInv ==
  ASSUME IInv, Buying
  PROVE  IInv'
<1>1. PICK b \in Arrived("ctextB") : InitiatorBuy(b, PlainOf(b), now)
  BY DEF Buying
<1>2. /\ UNCHANGED <<responder, arbiter, db, now, accepted>>
      /\ "buy" \in Deals /\ initiator.r < MaxRounds
      /\ Send([type |-> "message", body |-> BoughtMessage'])
  BY DEF Buying, histories
<1>. DEFINE r == initiator.r + 1
            c == NewContract(r, PlainOf(b), b, now)
            x == [initiator EXCEPT !.type = "buy", !.ctextB = b, !.r = r, !.contract = c]
            sent == [type |-> "message", body |-> BoughtMessage']
<1>3. initiator' = x /\ initiator.type = "none"
  BY <1>1 DEF InitiatorBuy
<1>4. /\ DOMAIN x = DOMAIN initiator
      /\ x.type = "buy" /\ x.ctextB = b /\ x.r = r /\ x.contract = c
      /\ x.ptextB = initiator.ptextB /\ x.keys = initiator.keys
  BY DEF IInv, Shape
<1>5. sent.type = "message" /\ sent.body = BoughtMessage'
  OBVIOUS
<1>. HIDE DEF x, sent
<1>6. r \in 1 .. 2 * MaxRounds /\ r \in 0 .. MaxRounds + initiator.keys
  BY <1>2, BarterAssumption DEF IInv, Counters
<1>7. b \in CtextsB /\ now \in 0 .. MaxTime
  BY DEF IInv, Traffic, Shape
<1>8. IsDeal(c) /\ AboutB(c, b)
  BY <1>6, <1>7, BoughtContract
<1>. HIDE DEF c, r
<1>9. Bought(BoughtMessage')
  <2>1. /\ BoughtMessage'.contract = c /\ BoughtMessage'.escrow = <<>>
        /\ BoughtMessage'.signature = Signed(c)
    BY <1>3, <1>4 DEF BoughtMessage, Signed
  <2>. QED
    BY <1>8, <2>1 DEF Bought
<1>10. Allowed(sent)
  BY <1>2, <1>5, <1>9 DEF Allowed
<1>11. Traffic' /\ Arrived("message") \subseteq Arrived("message")'
  BY <1>2, <1>10, TrafficKeeps DEF sent
<1>12. Shape' /\ InitiatorsDeal'
  BY <1>2, <1>3, <1>4, <1>7, <1>8 DEF IInv, Shape, InitiatorsDeal, IsDeal
<1>13. Counters'
  BY <1>3, <1>4, <1>6 DEF IInv, Counters
<1>. QED
  BY <1>2, <1>11, <1>12, <1>13, ResponderKeeps DEF IInv

\* barter makes a contract about the ciphertexts of both parties.
LEMMA BarteringIInv ==
  ASSUME IInv, Bartering
  PROVE  IInv'
<1>1. PICK b \in Arrived("ctextB") :
         /\ Barter(b, PlainOf(b), now)
         /\ \E keys \in {SentKeys(initiator.ctextA)} \cup MistakenKeys :
               Send([type |-> "message", body |-> BarterMessage(keys)'])
  BY DEF Bartering
<1>2. PICK keys \in {SentKeys(initiator.ctextA)} \cup MistakenKeys :
         Send([type |-> "message", body |-> BarterMessage(keys)'])
  BY <1>1
<1>3. /\ UNCHANGED <<responder, arbiter, db, now, accepted>>
      /\ initiator.type = "barter" /\ initiator.contract = NULL
  BY DEF Bartering, histories
<1>. DEFINE r == initiator.r + 1
            a == initiator.ctextA
            c == BarterContract(r, PlainOf(a), a, PlainOf(b), b, now)
            x == [initiator EXCEPT !.ctextB = b, !.r = r, !.contract = c]
            sent == [type |-> "message", body |-> BarterMessage(keys)']
<1>4. initiator' = x
  BY <1>1 DEF Barter
<1>5. /\ DOMAIN x = DOMAIN initiator
      /\ x.ctextB = b /\ x.r = r /\ x.contract = c
      /\ x.type = initiator.type /\ x.ctextA = a
      /\ x.ptextB = initiator.ptextB /\ x.keys = initiator.keys
  BY DEF IInv, Shape
<1>6. sent.type = "message" /\ sent.body = BarterMessage(keys)'
  OBVIOUS
<1>. HIDE DEF x, sent
<1>7. r \in 1 .. 2 * MaxRounds /\ r \in 0 .. MaxRounds + initiator.keys
  BY <1>3, BarterAssumption DEF IInv, Counters
<1>8. a \in CtextsA /\ b \in CtextsB /\ now \in 0 .. MaxTime
  BY <1>3 DEF IInv, Traffic, Shape, InitiatorsDeal
<1>9. DOMAIN keys # {}
  <2>1. CASE keys \in MistakenKeys
    BY <2>1, BarterAssumption
  <2>2. CASE keys = SentKeys(a)
    <3>1. PICK f \in FilesA, k \in Rounds : IsOf(a, f, <<"A", k>>)
      BY <1>8, CtextsParts
    <3>2. 1 \in DOMAIN a
      BY <3>1, FileBlocks DEF IsOf
    <3>3. DOMAIN KeysOf(a) = DOMAIN a /\ \A z : 1 \in DOMAIN <<z>>
      BY DEF KeysOf
    <3>4. 1 \in DOMAIN SentKeys(a)
      BY <3>2, <3>3 DEF SentKeys
    <3>. QED
      BY <2>2, <3>4
  <2>. QED
    BY <2>1, <2>2
<1>10. IsBarter(c) /\ AboutB(c, b) /\ AboutA(c, a)
  BY <1>7, <1>8, BarteredContract
<1>. HIDE DEF c, r
<1>11. Bartered(BarterMessage(keys)')
  <2>. DEFINE e == [keys |-> keys, label |-> c]
  <2>1. /\ BarterMessage(keys)'.contract = c /\ BarterMessage(keys)'.escrow = e
        /\ BarterMessage(keys)'.signature = Signed(e)
    BY <1>4, <1>5 DEF BarterMessage, Signed
  <2>2. e.label = c /\ e.keys = keys
    OBVIOUS
  <2>. HIDE DEF e
  <2>. QED
    BY <1>9, <1>10, <2>1, <2>2 DEF Bartered
<1>12. Allowed(sent)
  BY <1>6, <1>11 DEF Allowed
<1>13. Traffic' /\ Arrived("message") \subseteq Arrived("message")'
  BY <1>2, <1>12, TrafficKeeps DEF sent
<1>14. Shape' /\ InitiatorsDeal'
  BY <1>3, <1>4, <1>5, <1>8, <1>10 DEF IInv, Shape, InitiatorsDeal, IsDeal, IsBarter
<1>15. Counters'
  BY <1>4, <1>5, <1>7, <1>10 DEF IInv, Counters, IsBarter, IsDeal
<1>. QED
  BY <1>3, <1>13, <1>14, <1>15, ResponderKeeps DEF IInv

\* An answer leaves one more decryption in ptextB.
LEMMA TryingKeys ==
  ASSUME IInv, NEW type, NEW keys, TryKeys(type, keys), initiator.contract # NULL,
         UNCHANGED <<responder, arbiter, db, now, accepted>>,
         UNCHANGED network \/ \E m : Send(m) /\ m.type \in {"endorsement", "keysA"}
  PROVE  IInv'
<1>. DEFINE p == DecryptedB(keys)
            x == [initiator EXCEPT !.ptextB = p]
<1>1. initiator' = x
  BY DEF TryKeys
<1>2. /\ DOMAIN x = DOMAIN initiator
      /\ x.ptextB = p /\ x.type = initiator.type /\ x.ctextA = initiator.ctextA
      /\ x.ctextB = initiator.ctextB /\ x.contract = initiator.contract
      /\ x.r = initiator.r /\ x.keys = initiator.keys
  BY DEF IInv, Shape
<1>. HIDE DEF x
<1>3. p \in Seq(Blocks)
  <2>1. initiator.ctextB \in CtextsB /\ initiator.ptextB \in Seq(Blocks)
    BY DEF IInv, InitiatorsDeal
  <2>2. PICK f \in FilesB, n \in Rounds : IsOf(initiator.ctextB, f, <<"B", n>>)
    BY <2>1, CtextsParts
  <2>3. DecryptAll(initiator.ctextB, keys, initiator.contract.encAlgB) \in Seq(Blocks)
    BY <2>2, DecryptedBlocks
  <2>. QED
    BY <2>1, <2>3 DEF DecryptedB
<1>. HIDE DEF p
<1>4. Traffic' /\ Arrived("message") \subseteq Arrived("message")'
  <2>1. UNCHANGED network \/ \E m : Send(m) /\ Allowed(m)
    BY DEF Allowed
  <2>. QED
    BY <2>1, TrafficKeeps
<1>5. Shape' /\ Counters' /\ InitiatorsDeal'
  BY <1>1, <1>2, <1>3 DEF IInv, Shape, Counters, InitiatorsDeal
<1>. QED
  BY <1>4, <1>5, ResponderKeeps DEF IInv

\* pay and giveKeys.
LEMMA AnsweringIInv ==
  ASSUME IInv, Answering \/ AnsweringThrows
  PROVE  IInv'
<1>1. CASE Answering
  <2>1. PICK type \in {"buy", "barter"}, keys \in Arrived("keysB") \cup StrayKeys :
          /\ initiator.contract # NULL
          /\ InitiatorGives(type, keys)
          /\ Send(IF type = "buy" THEN EndorsementFor(initiator.coin, initiator.contract)
                  ELSE [type |-> "keysA", body |-> SentKeys(initiator.ctextA)])
    BY <1>1 DEF Answering
  <2>2. \E m : Send(m) /\ m.type \in {"endorsement", "keysA"}
    BY <2>1 DEF EndorsementFor
  <2>. QED
    BY <1>1, <2>1, <2>2, TryingKeys DEF Answering, InitiatorGives
<1>2. CASE AnsweringThrows
  <2>1. PICK type \in {"buy", "barter"}, keys \in Arrived("keysB") \cup StrayKeys :
          initiator.contract # NULL /\ InitiatorThrows(type, keys)
    BY <1>2 DEF AnsweringThrows
  <2>2. UNCHANGED <<responder, arbiter, db, now, accepted, network>>
    BY <1>2 DEF AnsweringThrows, histories
  <2>. QED
    BY <2>1, <2>2, TryingKeys DEF InitiatorThrows
<1>. QED
  BY <1>1, <1>2

\* The initiator's reset keeps its counters.
LEMMA ResettingInitiatorIInv ==
  ASSUME IInv, ResettingInitiator
  PROVE  IInv'
<1>. DEFINE x == [NewInitiator EXCEPT !.coin = initiator.coin, !.r = initiator.r,
                                      !.keys = initiator.keys]
<1>1. initiator' = x
  BY DEF ResettingInitiator, ResetInitiator
<1>2. UNCHANGED <<responder, arbiter, db, now, accepted, network>>
  BY DEF ResettingInitiator, histories
<1>3. /\ DOMAIN x = DOMAIN NewInitiator /\ DOMAIN NewInitiator = DOMAIN initiator
      /\ x.type = "none" /\ x.contract = NULL /\ x.ptextB = <<>>
      /\ x.r = initiator.r /\ x.keys = initiator.keys
  BY DEF NewInitiator, IInv, Shape
<1>. HIDE DEF x
<1>4. Traffic' /\ Arrived("message") \subseteq Arrived("message")'
  BY <1>2, TrafficKeeps
<1>5. Shape' /\ Counters' /\ InitiatorsDeal'
  BY <1>1, <1>2, <1>3 DEF IInv, Shape, Counters, InitiatorsDeal
<1>. QED
  BY <1>2, <1>4, <1>5, ResponderKeeps DEF IInv

\* A signature on an escrow is on one with keys: what a buy signs is a contract.
LEMMA SignedEscrow ==
  ASSUME IInv, NEW m \in Arrived("message"), NEW pk,
         m.signature = [by |-> pk, over |-> m.escrow]
  PROVE  Bartered(m)
<1>1. CASE Bought(m)
  <2>1. m.signature.over = m.contract /\ m.signature.over = m.escrow
    BY <1>1 DEF Bought, Signed
  <2>. QED
    BY <1>1, <2>1 DEF Bought, IsDeal
<1>. QED
  BY <1>1 DEF IInv, Traffic

\* sell takes the contract of a message.  The keys are sent when it is about the
\* responder's file.
LEMMA SellingIInv ==
  ASSUME IInv, Selling \/ SellingThrows
  PROVE  IInv'
<1>1. PICK m \in Arrived("message") :
         /\ Ready /\ Sell(m, now)
         /\ accepted' \in {accepted, accepted \cup {m.contract}}
  BY DEF Selling, SellingThrows, histories
<1>2. /\ UNCHANGED <<initiator, arbiter, db, now>>
      /\ UNCHANGED network \/ Send([type |-> "keysB", body |-> SentKeys(responder.ctextB)])
  BY DEF Selling, SellingThrows
<1>. DEFINE x == [responder EXCEPT !.type = "buy", !.message = m, !.contract = m.contract]
<1>3. responder' = x /\ responder.type = "none"
  BY <1>1 DEF Sell
<1>4. /\ DOMAIN x = DOMAIN responder
      /\ x.type = "buy" /\ x.message = m /\ x.contract = m.contract
      /\ x.coinPrime = responder.coinPrime /\ x.escrow = responder.escrow
      /\ x.signPK = responder.signPK
      /\ x.ptextB = responder.ptextB /\ x.ctextB = responder.ctextB
      /\ x.keys = responder.keys /\ x.challenges = responder.challenges
      /\ x.returned = responder.returned
  BY DEF IInv, Shape
<1>. HIDE DEF x
<1>5. Traffic' /\ Arrived("message") \subseteq Arrived("message")'
  <2>1. UNCHANGED network \/ \E n : Send(n) /\ Allowed(n)
    BY <1>2 DEF Allowed
  <2>. QED
    BY <2>1, TrafficKeeps
<1>6. m.contract # NULL
  BY DEF IInv, Traffic, Bought, Bartered, IsBarter, IsDeal
<1>7. RespondersSetup'
  BY <1>1, <1>3, <1>4, <1>5 DEF IInv, RespondersSetup, IsSetup, Ready
<1>8. Shape' /\ RespondersFile'
  BY <1>2, <1>3, <1>4 DEF IInv, Shape, RespondersFile
<1>9. RespondersDeal' /\ ArbitersView'
  BY <1>1, <1>2, <1>3, <1>4, <1>5, <1>6 DEF IInv, RespondersDeal, ArbitersView, Ready
<1>. QED
  BY <1>2, <1>5, <1>7, <1>8, <1>9, InitiatorKeeps DEF IInv

\* giveKeys takes the contract of a message.  The keys are sent when it is about
\* both ciphertexts and the escrow is signed.
LEMMA GivingIInv ==
  ASSUME IInv, Giving
  PROVE  IInv'
<1>1. PICK m \in Arrived("message"), a \in Arrived("ctextA") :
         /\ Ready /\ GiveKeys(m, a, PlainOf(a), now)
         /\ IF responder'.type = "barter"
            THEN /\ accepted' = accepted \cup {m.contract}
                 /\ Send([type |-> "keysB", body |-> SentKeys(responder.ctextB)])
            ELSE UNCHANGED <<accepted, network>>
  BY DEF Giving
<1>2. UNCHANGED <<initiator, arbiter, db, now>>
  BY DEF Giving
<1>. DEFINE ok == GiveKeysAccepts(m, a, PlainOf(a), now)
            taken == IF Check(m, m.escrow, now) THEN a ELSE responder.ctextA
            type == IF ok THEN "barter" ELSE responder.type
            x == [responder EXCEPT !.message = m, !.contract = m.contract,
                    !.ctextA = taken, !.type = type]
<1>3. responder' = x /\ responder.type = "none" /\ a # <<>>
  BY <1>1 DEF GiveKeys
<1>4. /\ DOMAIN x = DOMAIN responder
      /\ x.type = type /\ x.message = m /\ x.contract = m.contract /\ x.ctextA = taken
      /\ x.coinPrime = responder.coinPrime /\ x.escrow = responder.escrow
      /\ x.signPK = responder.signPK
      /\ x.ptextB = responder.ptextB /\ x.ctextB = responder.ctextB
      /\ x.keys = responder.keys /\ x.challenges = responder.challenges
      /\ x.returned = responder.returned
  BY DEF IInv, Shape
<1>. HIDE DEF x
<1>5. Traffic' /\ Arrived("message") \subseteq Arrived("message")'
  <2>1. UNCHANGED network \/ \E n : Send(n) /\ Allowed(n)
    BY <1>1 DEF Allowed
  <2>. QED
    BY <2>1, TrafficKeeps
<1>6. m.contract # NULL
  BY DEF IInv, Traffic, Bought, Bartered, IsBarter, IsDeal
<1>7. ok => /\ Bartered(m) /\ taken = a
            /\ m.contract.ctHashA = MerkleHash(a)
            /\ m.contract.ctHashB = MerkleHash(responder.ctextB)
  <2>. SUFFICES ASSUME ok
                PROVE  /\ Bartered(m) /\ taken = a
                       /\ m.contract.ctHashA = MerkleHash(a)
                       /\ m.contract.ctHashB = MerkleHash(responder.ctextB)
    OBVIOUS
  <2>1. Check(m, m.escrow, now) /\ m.contract.ctHashA = MerkleHash(a)
    BY DEF GiveKeysAccepts, CheckAHash
  <2>2. /\ m.contract.ctHashB = MerkleHash(responder.ctextB)
        /\ m.signature = [by |-> responder.signPK, over |-> m.escrow]
    BY <2>1 DEF Check, CheckBHash
  <2>. QED
    BY <2>1, <2>2, SignedEscrow
<1>8. type = "none" \/ (type = "barter" /\ ok)
  BY <1>3
<1>. HIDE DEF ok, taken, type
<1>9. RespondersSetup'
  BY <1>1, <1>3, <1>4, <1>5 DEF IInv, RespondersSetup, IsSetup, Ready
<1>10. Shape' /\ RespondersFile'
  BY <1>2, <1>3, <1>4 DEF IInv, Shape, RespondersFile
<1>11. RespondersDeal' /\ ArbitersView'
  BY <1>1, <1>2, <1>3, <1>4, <1>5, <1>6, <1>7, <1>8
  DEF IInv, RespondersDeal, ArbitersView, Ready
<1>. QED
  BY <1>2, <1>5, <1>9, <1>10, <1>11, InitiatorKeeps DEF IInv

\* Checking keys leaves one more decryption in ptextA, and an endorsement may be
\* sent or arrive.
LEMMA CheckingIInv ==
  ASSUME IInv,
         \E p, e : responder' = [responder EXCEPT !.ptextA = p, !.endorsed = e],
         UNCHANGED <<initiator, arbiter, db, now, accepted>>,
         UNCHANGED network \/ \E m : Send(m) /\ m.type = "endorsement"
  PROVE  IInv'
<1>1. PICK p, e : responder' = [responder EXCEPT !.ptextA = p, !.endorsed = e]
  OBVIOUS
<1>. DEFINE x == [responder EXCEPT !.ptextA = p, !.endorsed = e]
<1>2. /\ DOMAIN x = DOMAIN responder
      /\ x.type = responder.type /\ x.ctextA = responder.ctextA
      /\ x.ctextB = responder.ctextB /\ x.ptextB = responder.ptextB
      /\ x.contract = responder.contract /\ x.message = responder.message
      /\ x.coinPrime = responder.coinPrime /\ x.escrow = responder.escrow
      /\ x.signPK = responder.signPK /\ x.keys = responder.keys
      /\ x.challenges = responder.challenges /\ x.returned = responder.returned
  OBVIOUS
<1>3. responder' = x
  BY <1>1
<1>. HIDE DEF x
<1>4. Traffic' /\ Arrived("message") \subseteq Arrived("message")'
  <2>1. UNCHANGED network \/ \E m : Send(m) /\ Allowed(m)
    BY DEF Allowed
  <2>. QED
    BY <2>1, TrafficKeeps
<1>5. Shape' /\ RespondersFile'
  BY <1>2, <1>3 DEF IInv, Shape, RespondersFile
<1>6. RespondersSetup'
  BY <1>2, <1>3, <1>4 DEF IInv, RespondersSetup, IsSetup
<1>7. RespondersDeal' /\ ArbitersView'
  BY <1>2, <1>3, <1>4 DEF IInv, RespondersDeal, ArbitersView
<1>. QED
  BY <1>4, <1>5, <1>6, <1>7, InitiatorKeeps DEF IInv

LEMMA CheckingKeyIInv ==
  ASSUME IInv, CheckingKey \/ Endorsing \/ ResolvingIII
  PROVE  IInv'
<1>1. UNCHANGED <<initiator, arbiter, db, now, accepted>>
  BY DEF CheckingKey, Endorsing, ResolvingIII
<1>2. \E p, e : responder' = [responder EXCEPT !.ptextA = p, !.endorsed = e]
  <2>1. ASSUME NEW p, responder' = [responder EXCEPT !.ptextA = p]
        PROVE  responder' = [responder EXCEPT !.ptextA = p, !.endorsed = responder.endorsed]
    BY <2>1 DEF IInv, Shape
  <2>2. ASSUME NEW e, responder' = [responder EXCEPT !.endorsed = e]
        PROVE  responder' = [responder EXCEPT !.ptextA = responder.ptextA, !.endorsed = e]
    BY <2>2 DEF IInv, Shape
  <2>3. ASSUME NEW keys, CheckKey(keys)
        PROVE  \E p, e : responder' = [responder EXCEPT !.ptextA = p, !.endorsed = e]
    BY <2>1, <2>3 DEF CheckKey
  <2>4. ASSUME NEW coin, EndorseCoin(coin)
        PROVE  \E p, e : responder' = [responder EXCEPT !.ptextA = p, !.endorsed = e]
    BY <2>2, <2>4 DEF EndorseCoin
  <2>. QED
    BY <2>3, <2>4 DEF CheckingKey, Endorsing, ResolvingIII
<1>3. UNCHANGED network \/ \E m : Send(m) /\ m.type = "endorsement"
  BY DEF CheckingKey, Endorsing, ResolvingIII, EndorsementFor
<1>. QED
  BY <1>1, <1>2, <1>3, CheckingIInv

\* What stage I of a resolution leaves with the arbiter, when it is accepted.
LEMMA ResolvingIIInv ==
  ASSUME IInv, ResolvingI
  PROVE  IInv'
<1>1. /\ UNCHANGED <<initiator, db, now, network, accepted>>
      /\ responder.challenges = <<>> /\ responder.returned = <<>>
      /\ responder.type # "none"
      /\ ResponderResolveI(ResolveI, now)
  BY DEF ResolvingI, histories, MayResolve, IInv, ArbitersView
<1>. DEFINE ok == ResponderAccepted(ResolveI, now)
            c == responder.contract
            m == responder.message
            y == [arbiter EXCEPT
                    !.keys = ResolveI.keys, !.message = ResolveI.message,
                    !.contract = ResolveI.message.contract,
                    !.endorsement = IF ok THEN ResolveI.setup.escrow.endorsement
                                    ELSE arbiter.endorsement,
                    !.ptVerifier = IF ok THEN ResolveI.message.contract.ptHashB
                                   ELSE arbiter.ptVerifier,
                    !.ctVerifier = IF ok THEN ResolveI.message.contract.ctHashB
                                   ELSE arbiter.ctVerifier]
<1>2. arbiter' = y
  BY <1>1 DEF ResponderResolveI
<1>3. /\ ResolveI.keys = SentKeys(responder.ctextB) /\ ResolveI.message = m
      /\ ResolveI.setup.signPK = responder.signPK
  BY DEF ResolveI
<1>4. /\ DOMAIN y = DOMAIN arbiter
      /\ y.keys = SentKeys(responder.ctextB) /\ y.message = m /\ y.contract = m.contract
      /\ ok => y.ctVerifier = m.contract.ctHashB
  BY <1>3 DEF IInv, Shape
<1>. HIDE DEF y
<1>5. m \in Arrived("message") /\ c = m.contract /\ responder.ctextB \in CtextsB
  BY <1>1 DEF IInv, RespondersDeal, RespondersFile
<1>6. Traffic' /\ \A type : Arrived(type)' = Arrived(type)
  BY <1>1, TrafficKeeps DEF Arrived
<1>7. CASE ~ok
  <2>1. UNCHANGED responder
    BY <1>7 DEF ResolvingI
  <2>2. RespondersSetup' /\ RespondersFile' /\ RespondersDeal' /\ ArbitersView'
    BY <1>1, <1>6, <2>1 DEF IInv, RespondersSetup, RespondersFile, RespondersDeal, ArbitersView
  <2>3. Shape'
    BY <1>1, <1>2, <1>4, <2>1 DEF IInv, Shape
  <2>. QED
    BY <1>1, <1>6, <2>2, <2>3, InitiatorKeeps DEF IInv
<1>8. CASE ok
  <2>1. PICK ch \in Challenges(c) : responder' = [responder EXCEPT !.challenges = ch]
    BY <1>8 DEF ResolvingI
  <2>. DEFINE x == [responder EXCEPT !.challenges = ch]
  <2>2. responder' = x
    BY <2>1
  <2>3. /\ DOMAIN x = DOMAIN responder /\ x.challenges = ch
        /\ x.type = responder.type /\ x.ctextA = responder.ctextA
        /\ x.ctextB = responder.ctextB /\ x.ptextB = responder.ptextB
        /\ x.contract = c /\ x.message = m
        /\ x.coinPrime = responder.coinPrime /\ x.escrow = responder.escrow
        /\ x.signPK = responder.signPK /\ x.keys = responder.keys
        /\ x.returned = responder.returned
    BY DEF IInv, Shape
  <2>. HIDE DEF x
  <2>4. Bartered(m)
    <3>1. m.signature = [by |-> responder.signPK, over |-> m.escrow]
      BY <1>3, <1>8 DEF ResponderAccepted
    <3>. QED
      BY <1>5, <3>1, SignedEscrow
  <2>5. c.ptHashBlocksB \in Nat \ {0}
    <3>1. PICK b \in CtextsB : AboutB(c, b)
      BY <1>5, <2>4 DEF Bartered, IsBarter, IsDeal
    <3>2. PICK f \in FilesB, n \in Rounds : IsOf(b, f, <<"B", n>>)
      BY CtextsParts
    <3>. QED
      BY <3>1, <3>2, FileBlocks DEF AboutB, IsOf
  <2>6. 1 \in DOMAIN ch /\ ch[1] \in 1 .. c.ptHashBlocksB
    <3>. DEFINE n == c.ptHashBlocksB
                len == IF n < numChallenges THEN n ELSE numChallenges
    <3>1. n \in Nat \ {0} /\ len \in Nat \ {0}
      BY <2>5 DEF numChallenges
    <3>2. ch \in [1 .. len -> 1 .. n]
      BY DEF Challenges
    <3>. HIDE DEF n, len
    <3>. QED
      BY <3>1, <3>2 DEF n
  <2>7. ch # <<>>
    BY <2>6
  <2>8. Shape' /\ RespondersSetup' /\ RespondersFile'
    BY <1>1, <1>2, <1>4, <1>6, <2>2, <2>3
    DEF IInv, Shape, RespondersSetup, RespondersFile, IsSetup
  <2>9. RespondersDeal'
    BY <1>6, <2>2, <2>3 DEF IInv, RespondersDeal
  <2>10. ArbitersView'
    BY <1>1, <1>2, <1>4, <1>5, <1>8, <2>2, <2>3, <2>4, <2>6, <2>7 DEF ArbitersView
  <2>. QED
    BY <1>1, <1>6, <2>8, <2>9, <2>10, InitiatorKeeps DEF IInv
<1>. QED
  BY <1>7, <1>8

\* Stage II returns keys, since there are keys in the escrow.
LEMMA ResolvingIIIInv ==
  ASSUME IInv, ResolvingII
  PROVE  IInv'
<1>1. /\ UNCHANGED <<initiator, db, now, network, accepted>>
      /\ responder.challenges # <<>> /\ responder.returned = <<>>
      /\ responder' = [responder EXCEPT !.returned = InitiatorKeys]
      /\ arbiter' = [arbiter EXCEPT !.keys = InitiatorKeys]
  BY DEF ResolvingII, histories, ResponderResolveII
<1>2. InitiatorKeys # <<>>
  <2>1. DOMAIN arbiter.message.escrow.keys # {}
    BY <1>1 DEF IInv, ArbitersView, Bartered
  <2>2. DOMAIN InitiatorKeys = DOMAIN arbiter.message.escrow.keys
    BY DEF InitiatorKeys
  <2>3. DOMAIN <<>> = {}
    OBVIOUS
  <2>. QED
    BY <2>1, <2>2, <2>3
<1>. DEFINE x == [responder EXCEPT !.returned = InitiatorKeys]
<1>3. /\ DOMAIN x = DOMAIN responder /\ x.returned = InitiatorKeys
      /\ x.type = responder.type /\ x.ctextA = responder.ctextA
      /\ x.ctextB = responder.ctextB /\ x.ptextB = responder.ptextB
      /\ x.contract = responder.contract /\ x.message = responder.message
      /\ x.coinPrime = responder.coinPrime /\ x.escrow = responder.escrow
      /\ x.signPK = responder.signPK /\ x.keys = responder.keys
      /\ x.challenges = responder.challenges
  BY DEF IInv, Shape
<1>4. responder' = x /\ DOMAIN arbiter' = DOMAIN arbiter
  BY <1>1
<1>. HIDE DEF x
<1>5. Traffic' /\ \A type : Arrived(type)' = Arrived(type)
  BY <1>1, TrafficKeeps DEF Arrived
<1>6. Shape' /\ RespondersSetup' /\ RespondersFile'
  BY <1>1, <1>3, <1>4, <1>5 DEF IInv, Shape, RespondersSetup, RespondersFile, IsSetup
<1>7. RespondersDeal' /\ ArbitersView'
  BY <1>1, <1>2, <1>3, <1>4, <1>5 DEF IInv, RespondersDeal, ArbitersView
<1>. QED
  BY <1>1, <1>5, <1>6, <1>7, InitiatorKeeps DEF IInv

\* The responder's reset keeps what its setup assigned.
LEMMA ResettingResponderIInv ==
  ASSUME IInv, ResettingResponder
  PROVE  IInv'
<1>. DEFINE x == [NewResponder EXCEPT
                    !.coinPrime = responder.coinPrime, !.escrow = responder.escrow,
                    !.signPK = responder.signPK, !.endorsed = responder.endorsed,
                    !.keys = responder.keys]
<1>1. /\ responder' = x
      /\ UNCHANGED <<initiator, arbiter, db, now, accepted, network>>
  BY DEF ResettingResponder, ResetResponder, histories
<1>2. /\ DOMAIN x = DOMAIN NewResponder /\ DOMAIN NewResponder = DOMAIN responder
      /\ x.coinPrime = responder.coinPrime /\ x.escrow = responder.escrow
      /\ x.signPK = responder.signPK /\ x.keys = responder.keys
      /\ x.type = "none" /\ x.contract = NULL /\ x.ctextB = <<>>
      /\ x.challenges = <<>> /\ x.returned = <<>>
  BY DEF NewResponder, IInv, Shape
<1>. HIDE DEF x
<1>3. Traffic' /\ \A type : Arrived(type)' = Arrived(type)
  BY <1>1, TrafficKeeps DEF Arrived
<1>4. Shape' /\ RespondersSetup' /\ RespondersFile'
  BY <1>1, <1>2, <1>3 DEF IInv, Shape, RespondersSetup, RespondersFile, IsSetup
<1>5. RespondersDeal' /\ ArbitersView'
  BY <1>1, <1>2 DEF RespondersDeal, ArbitersView
<1>. QED
  BY <1>1, <1>3, <1>4, <1>5, InitiatorKeeps DEF IInv

\* Every step keeps the invariant.
LEMMA NextIInv == IInv /\ [Next]_vars => IInv'
<1>. SUFFICES ASSUME IInv, [Next]_vars PROVE IInv'
  OBVIOUS
<1>1. CASE Tick \/ UNCHANGED vars
  <2>1. UNCHANGED <<initiator, responder, arbiter, db, network, accepted>>
    BY <1>1 DEF Tick, vars, histories
  <2>2. Shape'
    BY <1>1, <2>1, BarterAssumption DEF IInv, Shape, Tick, vars
  <2>3. Traffic' /\ Arrived("message") \subseteq Arrived("message")'
    BY <2>1, TrafficKeeps
  <2>. QED
    BY <2>1, <2>2, <2>3, InitiatorKeeps, ResponderKeeps DEF IInv
<1>2. CASE \/ SettingUp \/ AcceptingSetup \/ StartingRound \/ ContinuingRound \/ Buying
           \/ Selling \/ SellingThrows \/ Answering \/ AnsweringThrows
  BY <1>2, SettingUpIInv, AcceptingSetupIInv, StartingRoundIInv, ContinuingRoundIInv,
     BuyingIInv, SellingIInv, AnsweringIInv
<1>3. CASE \/ Endorsing \/ Bartering \/ Giving \/ CheckingKey \/ ResolvingI
           \/ ResolvingII \/ ResolvingIII \/ ResettingInitiator \/ ResettingResponder
  BY <1>3, BarteringIInv, GivingIInv, CheckingKeyIInv, ResolvingIIInv, ResolvingIIIInv,
     ResettingInitiatorIInv, ResettingResponderIInv
<1>. QED
  BY <1>1, <1>2, <1>3 DEF Next

LEMMA SpecIInv == Spec => []IInv
<1>. QED
  BY InitIInv, NextIInv, PTL DEF Spec
-----------------------------------------------------------------------------
(* What the invariant gives.                                               *)

\* The objects stay coherent in every round, whatever arrives.
THEOREM TypeCorrect == Spec => []TypeOK
<1>1. IInv => TypeOK
  <2>. SUFFICES ASSUME IInv PROVE TypeOK
    OBVIOUS
  <2>1. initiator.type = "barter" => initiator.ctextA # <<>>
    BY CtextsParts DEF IInv, InitiatorsDeal, IsOf
  <2>2. /\ {initiator.type, responder.type} \subseteq {"none", "buy", "barter"}
        /\ initiator.type = "buy" => initiator.contract # NULL
        /\ responder.type = "none" \/ responder.contract = responder.message.contract
        /\ responder.type = "barter" => responder.ctextA # <<>>
    BY DEF IInv, InitiatorsDeal, RespondersDeal
  <2>3. /\ responder.returned # <<>> => responder.challenges # <<>>
        /\ accepted \subseteq {m.contract : m \in Arrived("message")}
        /\ now \in 0 .. MaxTime
    BY DEF IInv, ArbitersView, RespondersSetup, Shape
  <2>. QED
    BY <2>1, <2>2, <2>3 DEF TypeOK
<1>. QED
  BY <1>1, SpecIInv, PTL

\* Parties that barter over the same contract hold the same ciphertexts, as long
\* as a responder encrypts its file once a round: giveKeys compares the hashes
\* of both with those of the contract that barter made.
THEOREM RoundsDoNotMix == ~FilesMayChange /\ Spec => []SameRound
<1>1. IInv /\ ~FilesMayChange => SameRound
  <2>. SUFFICES ASSUME IInv, ~FilesMayChange, initiator.type = "barter",
                       responder.type = "barter",
                       initiator.contract = responder.contract
                PROVE  /\ initiator.ctextA = responder.ctextA
                       /\ initiator.ctextB = responder.ctextB
    BY DEF SameRound
  <2>1. /\ responder.contract # NULL
        /\ responder.contract.ctHashA = MerkleHash(responder.ctextA)
        /\ responder.contract.ctHashB = MerkleHash(responder.ctextB)
    BY DEF IInv, RespondersDeal
  <2>2. /\ initiator.contract.ctHashA = MerkleHash(initiator.ctextA)
        /\ initiator.contract.ctHashB = MerkleHash(initiator.ctextB)
    BY <2>1 DEF IInv, InitiatorsDeal, AboutA, AboutB
  <2>. QED
    BY <2>1, <2>2 DEF MerkleHash
<1>2. CASE ~FilesMayChange
  <2>1. IInv => SameRound
    BY <1>1, <1>2
  <2>. QED
    BY <2>1, SpecIInv, PTL
<1>. QED
  BY <1>2

\* Whoever barters, and turns to the arbiter before its contract has run out, is
\* accepted by responderResolveI: what giveKeys and setup checked is what the
\* arbiter looks at.  A contract of a buy would be turned down.
THEOREM ArbiterServesInTime == "buy" \notin Deals /\ Spec => []InTimeRequestAccepted
<1>1. IInv /\ "buy" \notin Deals => InTimeRequestAccepted
  <2>. SUFFICES ASSUME IInv, "buy" \notin Deals, responder.contract \in accepted,
                       CheckTimeout(responder.contract, now)
                PROVE  ResponderAccepted(ResolveI, now)
    BY DEF InTimeRequestAccepted
  <2>1. PICK m \in Arrived("message") : responder.contract = m.contract
    BY DEF IInv, RespondersSetup
  <2>2. responder.contract # NULL
    BY <2>1 DEF IInv, Traffic, Bartered, IsBarter, IsDeal
  <2>3. /\ responder.message \in Arrived("message")
        /\ responder.contract = responder.message.contract
    BY <2>2 DEF IInv, RespondersDeal
  <2>4. responder.message.signature = Signed(responder.message.escrow)
    BY <2>3 DEF IInv, Traffic, Bartered
  <2>5. IsSetup(responder)
    BY DEF IInv, RespondersSetup
  <2>6. /\ ResolveI.message = responder.message
        /\ ResolveI.setup.signPK = responder.signPK
        /\ ResolveI.setup.escrow = responder.escrow
        /\ ResolveI.setup.coinPrime = responder.coinPrime
    BY DEF ResolveI
  <2>. QED
    BY <2>3, <2>4, <2>5, <2>6 DEF ResponderAccepted, IsSetup, Signed
<1>2. CASE "buy" \notin Deals
  <2>1. IInv => InTimeRequestAccepted
    BY <1>1, <1>2
  <2>. QED
    BY <2>1, SpecIInv, PTL
<1>. QED
  BY <1>2

\* The arbiter lets the initiator's keys go only when the responder's keys open
\* the file of the contract: verifyKeys has decrypted a block of the ciphertext
\* with one of them, and a file has one key.
THEOREM RightKeysForKeys == Spec => KeysForKeys
<1>1. IInv /\ ResolvingII => KeysAreRight(arbiter.contract, arbiter.keys)
  <2>. SUFFICES ASSUME IInv, ResolvingII
                PROVE  KeysAreRight(arbiter.contract, arbiter.keys)
    OBVIOUS
  <2>. DEFINE ch == responder.challenges
              c == responder.contract
              proof == ResolveII(ch)
  <2>1. ch # <<>> /\ responder.returned = <<>> /\ VerifyKeys(proof)
    BY DEF ResolvingII, ResponderResolveII
  <2>2. /\ Bartered(responder.message) /\ c = responder.message.contract
        /\ 1 \in DOMAIN ch /\ ch[1] \in 1 .. c.ptHashBlocksB
        /\ arbiter.contract = c /\ arbiter.ctVerifier = c.ctHashB
        /\ responder.ctextB # <<>>
    BY <2>1 DEF IInv, ArbitersView, RespondersDeal
  <2>3. PICK b \in CtextsB : arbiter.keys = SentKeys(b)
    BY <2>1 DEF IInv, ArbitersView
  <2>4. /\ responder.ctextB \in CtextsB /\ responder.ptextB = PlainOf(responder.ctextB)
    BY <2>2 DEF IInv, RespondersFile
  <2>5. PICK own \in CtextsB : AboutB(c, own)
    BY <2>2 DEF Bartered, IsBarter, IsDeal
  <2>6. own = responder.ctextB
    BY <2>1, <2>2, <2>5 DEF VerifyKeys, ResolveII, AboutB, MerkleHash
  <2>7. PICK f \in FilesB, n \in Rounds : IsOf(own, f, <<"B", n>>)
    BY CtextsParts
  <2>8. PICK g \in FilesB, k \in Rounds : IsOf(b, g, <<"B", k>>)
    BY CtextsParts
  <2>9. /\ ch[1] \in 1 .. Len(f) /\ Len(f) \in Nat \ {0} /\ Len(g) \in Nat \ {0}
        /\ f[ch[1]] # Garbage
    BY <2>2, <2>5, <2>7, FileBlocks DEF AboutB, IsOf
  <2>10. KeyFor(arbiter.keys, 1) = <<"B", k>>
    BY <2>3, <2>8, OneKeyIsSent
  <2>11. Decrypt(own[ch[1]], <<"B", k>>, alg) = f[ch[1]]
    <3>1. /\ 1 \in DOMAIN proof.cTextBlocks
          /\ proof.cTextBlocks[1] = own[ch[1]]
          /\ proof.pTextLeaves[1] = f[ch[1]]
      BY <2>2, <2>4, <2>6, <2>7 DEF ResolveII, IsOf
    <3>. HIDE DEF proof
    <3>2. Decrypt(proof.cTextBlocks[1], KeyFor(arbiter.keys, 1), arbiter.contract.encAlgB)
             = proof.pTextLeaves[1]
      BY <2>1, <3>1 DEF VerifyKeys
    <3>. QED
      BY <2>2, <2>5, <2>10, <3>1, <3>2 DEF AboutB
  <2>12. own[ch[1]].key = <<"B", k>>
    BY <2>9, <2>11 DEF Decrypt
  <2>13. \A i \in 1 .. Len(f) : KeyFor(arbiter.keys, i) = <<"B", n>>
    <3>1. <<"B", n>> = <<"B", k>>
      BY <2>7, <2>9, <2>12 DEF IsOf
    <3>2. \A i : KeyFor(arbiter.keys, i) = <<"B", k>>
      BY <2>3, <2>8, OneKeyIsSent
    <3>. QED
      BY <3>1, <3>2
  <2>14. DecryptAll(own, arbiter.keys, alg) = f
    BY <2>7, <2>13, RightKeys
  <2>. QED
    BY <2>2, <2>5, <2>7, <2>14 DEF KeysAreRight, Opens, AboutB, MerkleHash, IsOf
<1>2. IInv /\ [Next]_vars => [ResolvingII => KeysAreRight(arbiter.contract, arbiter.keys)]_vars
  BY <1>1
<1>. QED
  BY <1>2, SpecIInv, PTL DEF Spec, KeysForKeys
-----------------------------------------------------------------------------
(* Without the arbiter the exchange is fair.                               *)

\* The contract of a barter has the initiator's key for that round, and no other
\* contract has.
OneKeyEach ==
  \A m \in Arrived("message") : Bartered(m) =>
     /\ \E k \in 1 .. initiator.keys : KeyA(m.contract) = <<"A", k>>
     /\ initiator.type = "barter" /\ KeyA(m.contract) = <<"A", initiator.keys>> =>
           m.contract = initiator.contract

\* When the initiator has sent a key for its file, it has the file of every
\* contract that has this key, and there will be no other.
KeysAreEarned ==
  \A keys \in Arrived("keysA") : \E k \in 1 .. initiator.keys :
     /\ keys = <<(<<"A", k>>)>>
     /\ initiator.type = "barter" /\ k = initiator.keys => initiator.contract # NULL
     /\ \A m \in Arrived("message") :
           Bartered(m) /\ KeyA(m.contract) = <<"A", k>> => m.contract.id \in gotB

\* When it has sent an endorsement, it has the file it was for.
CoinsAreEarned ==
  \A e \in Arrived("endorsement") :
     e.for \in gotB /\ \E r \in 1 .. 2 * MaxRounds : e.for = HashBytes(r)

FairInv == OneKeyEach /\ KeysAreEarned /\ CoinsAreEarned

\* A message is of a buy or of a barter, not of both.
LEMMA BuysAreNoBarters ==
  ASSUME NEW m, Bought(m)
  PROVE  ~ Bartered(m)
<1>. SUFFICES ASSUME Bartered(m) PROVE FALSE
  OBVIOUS
<1>1. m.signature.over = m.contract /\ m.signature.over = m.escrow
  BY DEF Bought, Bartered, Signed
<1>. QED
  BY <1>1 DEF Bought, IsDeal

\* Keys that decryptCheck accepts are right: what an earlier attempt left in
\* ptextB makes the check fail.
LEMMA AcceptedKeysAreRight ==
  ASSUME IInv, initiator.contract # NULL, NEW keys, DecryptCheck(keys)
  PROVE  KeysAreRight(initiator.contract, keys)
<1>. DEFINE c == initiator.contract
            b == initiator.ctextB
            d == DecryptAll(b, keys, alg)
            before == initiator.ptextB
<1>1. AboutB(c, b) /\ b \in CtextsB /\ before \in Seq(Blocks)
  BY DEF IInv, InitiatorsDeal
<1>2. PICK f \in FilesB, n \in Rounds : IsOf(b, f, <<"B", n>>)
  BY <1>1, CtextsParts
<1>3. d \in Seq(Blocks) /\ Len(d) = Len(f) /\ Len(f) \in Nat \ {0}
  BY <1>2, DecryptedBlocks, FileBlocks
<1>4. before \o d = f
  <2>1. DecryptedB(keys) = before \o d
    BY <1>1 DEF DecryptedB, AboutB
  <2>2. MerkleHash(DecryptedB(keys)) = MerkleHash(f)
    BY <1>1, <1>2 DEF DecryptCheck, AboutB, IsOf
  <2>. QED
    BY <2>1, <2>2 DEF MerkleHash
<1>. HIDE DEF d, before
<1>5. Len(before) + Len(d) = Len(d)
  <2>1. Len(before \o d) = Len(before) + Len(d)
    BY <1>1, <1>3
  <2>. QED
    BY <1>3, <1>4, <2>1
<1>6. before = <<>>
  BY <1>1, <1>3, <1>5
<1>7. d = f
  BY <1>3, <1>4, <1>6
<1>. QED
  BY <1>1, <1>2, <1>7 DEF KeysAreRight, Opens, AboutB, IsOf, MerkleHash, d

\* Nothing that concerns keys happens.
LEMMA FairInvKeeps ==
  ASSUME IInv, FairInv, UNCHANGED gotB,
         initiator'.keys = initiator.keys,
         initiator'.type = "barter" => /\ initiator.type = "barter"
                                       /\ initiator'.contract = initiator.contract,
         \/ UNCHANGED network
         \/ \E m : Send(m) /\ m.type \notin {"message", "keysA", "endorsement"}
  PROVE  FairInv'
<1>1. \A type \in {"message", "keysA", "endorsement"} : Arrived(type)' = Arrived(type)
  <2>1. CASE UNCHANGED network
    BY <2>1 DEF Arrived
  <2>2. ASSUME NEW m, Send(m), m.type \notin {"message", "keysA", "endorsement"}
        PROVE  \A type \in {"message", "keysA", "endorsement"} : Arrived(type)' = Arrived(type)
    BY <2>2, ArrivedStays
  <2>. QED
    BY <2>1, <2>2
<1>2. OneKeyEach'
  BY <1>1 DEF FairInv, OneKeyEach
<1>3. KeysAreEarned'
  BY <1>1 DEF FairInv, KeysAreEarned
<1>4. CoinsAreEarned'
  BY <1>1 DEF FairInv, CoinsAreEarned
<1>. QED
  BY <1>2, <1>3, <1>4 DEF FairInv

\* A new key is in no contract yet.
LEMMA ContinuingRoundFair ==
  ASSUME IInv, FairInv, ContinuingRound
  PROVE  FairInv'
<1>1. PICK f \in FilesA : ContinueRound(f, alg)
  BY DEF ContinuingRound
<1>2. /\ UNCHANGED gotB
      /\ Send([type |-> "ctextA", body |-> initiator'.ctextA])
  BY DEF ContinuingRound, histories
<1>. DEFINE x == [initiator EXCEPT
               !.type = "barter", !.keys = initiator.keys + 1,
               !.ctextA = EncryptFile("A", f, initiator.keys + 1, alg)]
<1>3. initiator' = x
  BY <1>1 DEF ContinueRound
<1>4. x.keys = initiator.keys + 1
  BY DEF IInv, Shape
<1>. HIDE DEF x
<1>5. \A type \in {"message", "keysA", "endorsement"} : Arrived(type)' = Arrived(type)
  <2>. DEFINE sent == [type |-> "ctextA", body |-> initiator'.ctextA]
  <2>1. sent.type = "ctextA" /\ Send(sent)
    BY <1>2
  <2>. HIDE DEF sent
  <2>. QED
    BY <2>1, ArrivedStays
<1>6. initiator.keys \in Nat /\ 1 .. initiator.keys \subseteq 1 .. initiator'.keys
      /\ \A k \in 1 .. initiator.keys : k # initiator'.keys
  BY <1>3, <1>4 DEF IInv, Counters
<1>7. OneKeyEach'
  BY <1>5, <1>6 DEF FairInv, OneKeyEach
<1>8. KeysAreEarned'
  BY <1>2, <1>5, <1>6 DEF FairInv, KeysAreEarned
<1>9. CoinsAreEarned'
  BY <1>2, <1>5 DEF FairInv, CoinsAreEarned
<1>. QED
  BY <1>7, <1>8, <1>9 DEF FairInv

\* The contract of a buy has no key of the initiator.
LEMMA BuyingFair ==
  ASSUME IInv, FairInv, Buying
  PROVE  FairInv'
<1>1. PICK b \in Arrived("ctextB") : InitiatorBuy(b, PlainOf(b), now)
  BY DEF Buying
<1>2. /\ UNCHANGED gotB
      /\ Send([type |-> "message", body |-> BoughtMessage'])
  BY DEF Buying, histories
<1>. DEFINE x == [initiator EXCEPT
               !.type = "buy", !.ctextB = b, !.r = initiator.r + 1,
               !.contract = NewContract(initiator.r + 1, PlainOf(b), b, now)]
            sent == [type |-> "message", body |-> BoughtMessage']
<1>3. initiator' = x
  BY <1>1 DEF InitiatorBuy
<1>4. x.type = "buy" /\ x.keys = initiator.keys
  BY DEF IInv, Shape
<1>5. sent.type = "message" /\ sent.body = BoughtMessage' /\ Send(sent)
  BY <1>2
<1>. HIDE DEF x, sent
<1>6. /\ Arrived("message")' = Arrived("message") \cup {BoughtMessage'}
      /\ Arrived("keysA")' = Arrived("keysA")
      /\ Arrived("endorsement")' = Arrived("endorsement")
  BY <1>5, ArrivedStays
<1>7. ~ Bartered(BoughtMessage')
  <2>1. initiator'.contract # NULL /\ IsDeal(initiator'.contract)
    BY BuyingIInv, <1>3, <1>4 DEF IInv, InitiatorsDeal
  <2>2. Bought(BoughtMessage')
    BY <2>1 DEF Bought, BoughtMessage, Signed
  <2>. QED
    BY <2>2, BuysAreNoBarters
<1>8. OneKeyEach'
  BY <1>3, <1>4, <1>6, <1>7 DEF FairInv, OneKeyEach
<1>9. KeysAreEarned'
  BY <1>2, <1>3, <1>4, <1>6, <1>7 DEF FairInv, KeysAreEarned
<1>10. CoinsAreEarned'
  BY <1>2, <1>6 DEF FairInv, CoinsAreEarned
<1>. QED
  BY <1>8, <1>9, <1>10 DEF FairInv

\* The contract of a barter is the only one with the key of the round, and the
\* initiator has not sent this key yet.
LEMMA BarteringFair ==
  ASSUME IInv, FairInv, Bartering
  PROVE  FairInv'
<1>1. PICK b \in Arrived("ctextB") :
         /\ Barter(b, PlainOf(b), now)
         /\ \E keys \in {SentKeys(initiator.ctextA)} \cup MistakenKeys :
               Send([type |-> "message", body |-> BarterMessage(keys)'])
  BY DEF Bartering
<1>2. PICK keys : Send([type |-> "message", body |-> BarterMessage(keys)'])
  BY <1>1
<1>3. UNCHANGED gotB /\ initiator.type = "barter" /\ initiator.contract = NULL
  BY DEF Bartering, histories
<1>. DEFINE r == initiator.r + 1
            a == initiator.ctextA
            c == BarterContract(r, PlainOf(a), a, PlainOf(b), b, now)
            x == [initiator EXCEPT !.ctextB = b, !.r = r, !.contract = c]
            sent == [type |-> "message", body |-> BarterMessage(keys)']
<1>4. initiator' = x
  BY <1>1 DEF Barter
<1>5. /\ x.contract = c /\ x.type = initiator.type /\ x.keys = initiator.keys
  BY DEF IInv, Shape
<1>6. sent.type = "message" /\ sent.body = BarterMessage(keys)' /\ Send(sent)
  BY <1>2
<1>. HIDE DEF x, sent
<1>7. /\ r \in 1 .. 2 * MaxRounds /\ initiator.keys \in Nat
      /\ a \in CtextsA /\ b \in CtextsB /\ now \in 0 .. MaxTime
      /\ a[1].key = <<"A", initiator.keys>>
  BY <1>3, BarterAssumption DEF IInv, Counters, Traffic, Shape, InitiatorsDeal
<1>8. KeyA(c) = <<"A", initiator.keys>> /\ c # NULL
  BY <1>7, BarteredContract DEF IsBarter, IsDeal
<1>9. initiator.keys \in 1 .. initiator.keys
  <2>1. PICK f \in FilesA, k \in Rounds : IsOf(a, f, <<"A", k>>)
    BY <1>7, CtextsParts
  <2>2. a[1].key = <<"A", k>>
    BY <2>1, FileBlocks DEF IsOf
  <2>3. k = initiator.keys
    BY <1>7, <2>2
  <2>. QED
    BY <1>7, <2>1, <2>3 DEF Rounds
<1>. HIDE DEF c, r
<1>10. BarterMessage(keys)'.contract = c /\ initiator'.contract = c
  BY <1>4, <1>5 DEF BarterMessage
<1>11. /\ Arrived("message")' = Arrived("message") \cup {BarterMessage(keys)'}
       /\ Arrived("keysA")' = Arrived("keysA")
       /\ Arrived("endorsement")' = Arrived("endorsement")
  BY <1>6 DEF Send, Arrived
<1>12. \A m \in Arrived("message") :
          Bartered(m) => KeyA(m.contract) # <<"A", initiator.keys>>
  <2>. SUFFICES ASSUME NEW m \in Arrived("message"), Bartered(m),
                       KeyA(m.contract) = <<"A", initiator.keys>>
                PROVE  FALSE
    OBVIOUS
  <2>1. m.contract = NULL
    BY <1>3 DEF FairInv, OneKeyEach
  <2>. QED
    BY <2>1 DEF Bartered, IsBarter, IsDeal
<1>13. OneKeyEach'
  BY <1>4, <1>5, <1>8, <1>9, <1>10, <1>11, <1>12 DEF FairInv, OneKeyEach
<1>14. KeysAreEarned'
  <2>. SUFFICES ASSUME NEW old \in Arrived("keysA")
                PROVE  \E k \in 1 .. initiator'.keys :
                         /\ old = <<(<<"A", k>>)>>
                         /\ initiator'.contract # NULL
                         /\ \A m \in Arrived("message")' :
                               Bartered(m) /\ KeyA(m.contract) = <<"A", k>>
                                  => m.contract.id \in gotB'
    BY <1>11 DEF KeysAreEarned
  <2>1. PICK k \in 1 .. initiator.keys :
          /\ old = <<(<<"A", k>>)>>
          /\ k # initiator.keys
          /\ \A m \in Arrived("message") :
                Bartered(m) /\ KeyA(m.contract) = <<"A", k>> => m.contract.id \in gotB
    BY <1>3 DEF FairInv, KeysAreEarned
  <2>2. KeyA(BarterMessage(keys)'.contract) # <<"A", k>>
    BY <1>8, <1>10, <2>1
  <2>. QED
    BY <1>3, <1>4, <1>5, <1>8, <1>10, <1>11, <2>1, <2>2
<1>15. CoinsAreEarned'
  BY <1>3, <1>11 DEF FairInv, CoinsAreEarned
<1>. QED
  BY <1>13, <1>14, <1>15 DEF FairInv

\* What the initiator answers with is earned: decryptCheck has passed.
LEMMA AnsweringFair ==
  ASSUME IInv, FairInv, Answering
  PROVE  FairInv' /\ gotB' = gotB \cup {initiator.contract.id}
         /\ IsDeal(initiator.contract)
<1>1. PICK type \in {"buy", "barter"}, keys \in Arrived("keysB") \cup StrayKeys :
         /\ initiator.contract # NULL
         /\ InitiatorGives(type, keys)
         /\ gotB' = IF KeysAreRight(initiator.contract, keys)
                    THEN gotB \cup {initiator.contract.id} ELSE gotB
         /\ Send(IF type = "buy" THEN EndorsementFor(initiator.coin, initiator.contract)
                 ELSE [type |-> "keysA", body |-> SentKeys(initiator.ctextA)])
  BY DEF Answering
<1>. DEFINE c == initiator.contract
            x == [initiator EXCEPT !.ptextB = DecryptedB(keys)]
<1>2. initiator' = x /\ initiator.type = type /\ DecryptCheck(keys)
  BY <1>1 DEF InitiatorGives, TryKeys
<1>3. x.type = initiator.type /\ x.keys = initiator.keys /\ x.contract = c
  BY DEF IInv, Shape
<1>. HIDE DEF x
<1>4. gotB' = gotB \cup {c.id}
  BY <1>1, <1>2, AcceptedKeysAreRight
<1>5. IsDeal(c)
  BY <1>1 DEF IInv, InitiatorsDeal
<1>6. CASE type = "buy"
  <2>. DEFINE e == [coin |-> initiator.coin, for |-> c.id]
              sent == [type |-> "endorsement", body |-> e]
  <2>1. sent.type = "endorsement" /\ sent.body = e /\ e.for = c.id /\ Send(sent)
    BY <1>1, <1>6 DEF EndorsementFor
  <2>. HIDE DEF e, sent
  <2>2. /\ Arrived("endorsement")' = Arrived("endorsement") \cup {e}
        /\ Arrived("message")' = Arrived("message") /\ Arrived("keysA")' = Arrived("keysA")
    BY <2>1 DEF Send, Arrived
  <2>3. OneKeyEach'
    BY <1>2, <1>3, <2>2 DEF FairInv, OneKeyEach
  <2>4. KeysAreEarned'
    BY <1>2, <1>3, <1>4, <2>2 DEF FairInv, KeysAreEarned
  <2>5. CoinsAreEarned'
    BY <1>4, <1>5, <2>1, <2>2 DEF FairInv, CoinsAreEarned, IsDeal
  <2>. QED
    BY <1>4, <1>5, <2>3, <2>4, <2>5 DEF FairInv
<1>7. CASE type = "barter"
  <2>. DEFINE ours == SentKeys(initiator.ctextA)
              sent == [type |-> "keysA", body |-> ours]
  <2>1. sent.type = "keysA" /\ sent.body = ours /\ Send(sent)
    BY <1>1, <1>7
  <2>. HIDE DEF ours, sent
  <2>2. /\ Arrived("keysA")' = Arrived("keysA") \cup {ours}
        /\ Arrived("message")' = Arrived("message")
        /\ Arrived("endorsement")' = Arrived("endorsement")
    BY <2>1 DEF Send, Arrived
  <2>3. /\ ours = <<(<<"A", initiator.keys>>)>>
        /\ initiator.keys \in 1 .. initiator.keys
    <3>1. /\ initiator.ctextA \in CtextsA /\ initiator.keys \in Nat
          /\ initiator.ctextA[1].key = <<"A", initiator.keys>>
      BY <1>2, <1>7 DEF IInv, InitiatorsDeal, Counters
    <3>2. PICK f \in FilesA, k \in Rounds : IsOf(initiator.ctextA, f, <<"A", k>>)
      BY <3>1, CtextsParts
    <3>3. initiator.ctextA[1].key = <<"A", k>>
      BY <3>2, FileBlocks DEF IsOf
    <3>4. k = initiator.keys
      BY <3>1, <3>3
    <3>. QED
      BY <3>1, <3>2, <3>4, OneKeyIsSent DEF Rounds, ours
  <2>4. OneKeyEach'
    BY <1>2, <1>3, <2>2 DEF FairInv, OneKeyEach
  <2>5. KeysAreEarned'
    <3>. SUFFICES ASSUME NEW sentkeys \in Arrived("keysA")'
                  PROVE  \E k \in 1 .. initiator.keys :
                           /\ sentkeys = <<(<<"A", k>>)>>
                           /\ initiator'.contract # NULL
                           /\ \A m \in Arrived("message") :
                                 Bartered(m) /\ KeyA(m.contract) = <<"A", k>>
                                    => m.contract.id \in gotB'
      BY <1>2, <1>3, <2>2 DEF KeysAreEarned
    <3>1. CASE sentkeys \in Arrived("keysA")
      <4>1. PICK k \in 1 .. initiator.keys :
               /\ sentkeys = <<(<<"A", k>>)>>
               /\ \A m \in Arrived("message") :
                     Bartered(m) /\ KeyA(m.contract) = <<"A", k>> => m.contract.id \in gotB
        BY <3>1 DEF FairInv, KeysAreEarned
      <4>. QED
        BY <1>1, <1>2, <1>3, <1>4, <4>1
    <3>2. CASE sentkeys = ours
      <4>1. \A m \in Arrived("message") :
               Bartered(m) /\ KeyA(m.contract) = <<"A", initiator.keys>>
                  => m.contract.id \in gotB'
        BY <1>2, <1>4, <1>7 DEF FairInv, OneKeyEach
      <4>. QED
        BY <1>1, <1>2, <1>3, <2>3, <3>2, <4>1
    <3>. QED
      BY <2>2, <3>1, <3>2
  <2>6. CoinsAreEarned'
    BY <1>4, <2>2 DEF FairInv, CoinsAreEarned
  <2>. QED
    BY <1>4, <1>5, <2>4, <2>5, <2>6 DEF FairInv
<1>. QED
  BY <1>1, <1>6, <1>7

\* Every step that is not a resolution keeps what is said of keys.
LEMMA NextFairInv ==
  ASSUME IInv, FairInv, [Next]_vars, ~Arbitration
  PROVE  FairInv'
<1>1. ~ ResolvingI /\ ~ ResolvingII /\ ~ ResolvingIII
  BY DEF ResolvingI, ResolvingII, ResolvingIII, MayResolve
<1>2. CASE ContinuingRound \/ Buying \/ Bartering \/ Answering
  BY <1>2, ContinuingRoundFair, BuyingFair, BarteringFair, AnsweringFair
<1>3. CASE \/ SettingUp \/ AnsweringThrows \/ ResettingInitiator
  <2>1. /\ UNCHANGED gotB
        /\ \/ UNCHANGED network
           \/ \E m : Send(m) /\ m.type \notin {"message", "keysA", "endorsement"}
    BY <1>3 DEF SettingUp, AnsweringThrows, ResettingInitiator, histories
  <2>2. /\ initiator'.keys = initiator.keys
        /\ initiator'.type = "barter" => /\ initiator.type = "barter"
                                         /\ initiator'.contract = initiator.contract
    <3>. USE DEF IInv, Shape
    <3>1. CASE SettingUp
      BY <3>1 DEF SettingUp, SetupInitiator
    <3>2. CASE AnsweringThrows
      BY <3>2 DEF AnsweringThrows, InitiatorThrows, TryKeys
    <3>3. CASE ResettingInitiator
      BY <3>3 DEF ResettingInitiator, ResetInitiator, NewInitiator
    <3>. QED
      BY <1>3, <3>1, <3>2, <3>3
  <2>. QED
    BY <2>1, <2>2, FairInvKeeps
<1>4. CASE \/ AcceptingSetup \/ StartingRound \/ Selling \/ SellingThrows \/ Endorsing
           \/ Giving \/ CheckingKey \/ ResettingResponder \/ Tick \/ UNCHANGED vars
  <2>1. UNCHANGED <<initiator, gotB>>
    BY <1>4 DEF AcceptingSetup, StartingRound, Selling, SellingThrows, Endorsing, Giving,
                CheckingKey, ResettingResponder, Tick, vars, histories
  <2>2. \/ UNCHANGED network
        \/ \E m : Send(m) /\ m.type \notin {"message", "keysA", "endorsement"}
    <3>1. CASE StartingRound
      BY <3>1 DEF StartingRound
    <3>2. CASE Selling
      BY <3>2 DEF Selling
    <3>3. CASE Giving
      BY <3>3 DEF Giving
    <3>4. CASE \/ AcceptingSetup \/ SellingThrows \/ Endorsing
               \/ CheckingKey \/ ResettingResponder \/ Tick \/ UNCHANGED vars
      BY <3>4 DEF AcceptingSetup, SellingThrows, Endorsing,
                  CheckingKey, ResettingResponder, Tick, vars, histories
    <3>. QED
      BY <1>4, <3>1, <3>2, <3>3, <3>4
  <2>. QED
    BY <2>1, <2>2, FairInvKeeps
<1>. QED
  BY <1>1, <1>2, <1>3, <1>4 DEF Next

LEMMA InitFairInv == Init => FairInv
BY DEF Init, FairInv, OneKeyEach, KeysAreEarned, CoinsAreEarned, Arrived

\* A key that decrypts the initiator's file was sent by the initiator, which then
\* has the responder's file.
LEMMA CheckedKeysAreEarned ==
  ASSUME IInv, FairInv, responder.type = "barter",
         NEW keys \in Arrived("keysA") \cup StrayKeys,
         KeysAreRightA(responder.contract, keys)
  PROVE  responder.contract.id \in gotB
<1>. DEFINE c == responder.contract
            m == responder.message
<1>1. m \in Arrived("message") /\ Bartered(m) /\ c = m.contract
  BY DEF IInv, RespondersDeal
<1>2. PICK a \in CtextsA : AboutA(c, a)
  BY <1>1 DEF Bartered, IsBarter
<1>3. PICK f \in FilesA, k \in Rounds : IsOf(a, f, <<"A", k>>)
  BY CtextsParts
<1>4. DecryptAll(a, keys, alg) = f
  BY <1>2, <1>3 DEF KeysAreRightA, Opens, AboutA, IsOf, MerkleHash
<1>5. KeyFor(keys, 1) = <<"A", k>>
  BY <1>3, <1>4, KeyMatters
<1>6. KeyA(c) = <<"A", k>>
  BY <1>2, <1>3, FileBlocks DEF KeyA, AboutA, IsOf, MerkleHash
<1>7. keys \in Arrived("keysA")
  BY <1>5, BarterAssumption DEF Rounds
<1>8. PICK j \in 1 .. initiator.keys :
        /\ keys = <<(<<"A", j>>)>>
        /\ \A n \in Arrived("message") :
              Bartered(n) /\ KeyA(n.contract) = <<"A", j>> => n.contract.id \in gotB
  BY <1>7 DEF FairInv, KeysAreEarned
<1>9. KeyFor(keys, 1) = <<"A", j>>
  BY <1>8 DEF KeyFor
<1>. QED
  BY <1>1, <1>5, <1>6, <1>8, <1>9

\* What has been delivered, in a fair exchange, is what the initiator has got:
\* the database is empty.
LEMMA DeliveredIsGot ==
  ASSUME IInv, IInv'
  PROVE  DeliveredNow = gotB /\ DeliveredNow' = gotB'
<1>1. db = <<>> /\ db' = <<>>
  BY DEF IInv, Shape
<1>2. DOMAIN <<>> = {}
  OBVIOUS
<1>. QED
  BY <1>1, <1>2 DEF DeliveredNow

\* Every step is one of the fair exchange's, or none.
LEMMA StepIsFair ==
  ASSUME IInv, FairInv, [Next]_vars, ~Arbitration
  PROVE  [Fair!FairNext]_(Fair!fairVars)
<1>1. IInv' /\ DeliveredNow = gotB /\ DeliveredNow' = gotB'
  BY NextIInv, DeliveredIsGot
<1>2. ~ ResolvingI /\ ~ ResolvingII /\ ~ ResolvingIII
  BY DEF ResolvingI, ResolvingII, ResolvingIII, MayResolve
<1>. DEFINE Ids == {HashBytes(r) : r \in 1 .. 2 * MaxRounds}
<1>3. ASSUME NEW c, IsDeal(c)
      PROVE  c.id \in Ids
  BY <1>3 DEF IsDeal
<1>4. CASE Answering
  <2>1. gotB' = gotB \cup {initiator.contract.id} /\ initiator.contract.id \in Ids
    BY <1>3, <1>4, AnsweringFair
  <2>2. UNCHANGED <<gotA, paidFor>>
    BY <1>4 DEF Answering
  <2>3. Fair!Deliver(initiator.contract.id)
    BY <1>1, <2>1, <2>2 DEF Fair!Deliver
  <2>. QED
    BY <2>1, <2>3 DEF Fair!FairNext
<1>5. CASE Endorsing
  <2>1. PICK m \in Arrived("endorsement") : paidFor' \in {paidFor, paidFor \cup {m.for}}
    BY <1>5 DEF Endorsing
  <2>2. UNCHANGED <<gotA, gotB>> /\ m.for \in gotB /\ m.for \in Ids
    BY <1>5 DEF Endorsing, FairInv, CoinsAreEarned
  <2>3. CASE paidFor' = paidFor
    BY <1>1, <2>2, <2>3 DEF Fair!fairVars
  <2>4. CASE paidFor' = paidFor \cup {m.for}
    <3>1. Fair!Settle(m.for)
      BY <1>1, <2>2, <2>4 DEF Fair!Settle
    <3>. QED
      BY <2>2, <3>1 DEF Fair!FairNext
  <2>. QED
    BY <2>1, <2>3, <2>4
<1>6. CASE CheckingKey
  <2>1. PICK keys \in Arrived("keysA") \cup StrayKeys :
          /\ responder.type = "barter"
          /\ gotA' = IF KeysAreRightA(responder.contract, keys)
                     THEN gotA \cup {responder.contract.id} ELSE gotA
    BY <1>6 DEF CheckingKey, CheckKey
  <2>2. UNCHANGED <<gotB, paidFor>>
    BY <1>6 DEF CheckingKey
  <2>3. CASE KeysAreRightA(responder.contract, keys)
    <3>1. responder.contract.id \in gotB
      BY <2>1, <2>3, CheckedKeysAreEarned
    <3>2. responder.contract.id \in Ids
      BY <1>3, <2>1 DEF IInv, RespondersDeal, Bartered, IsBarter
    <3>3. Fair!Settle(responder.contract.id)
      BY <1>1, <2>1, <2>2, <2>3, <3>1 DEF Fair!Settle
    <3>. QED
      BY <3>2, <3>3 DEF Fair!FairNext
  <2>. QED
    BY <1>1, <2>1, <2>2, <2>3 DEF Fair!fairVars
<1>7. CASE UNCHANGED <<gotB, gotA, paidFor>>
  BY <1>1, <1>7 DEF Fair!fairVars
<1>8. \/ Answering \/ Endorsing \/ CheckingKey \/ UNCHANGED <<gotB, gotA, paidFor>>
  BY <1>2 DEF Next, vars, histories, SettingUp, AcceptingSetup, StartingRound,
     ContinuingRound, Buying, Selling, SellingThrows, AnsweringThrows, Bartering, Giving,
     ResettingInitiator, ResettingResponder, Tick
<1>. QED
  BY <1>4, <1>5, <1>6, <1>7, <1>8

\* Without the arbiter buying and bartering is a fair exchange, round after round
\* and whatever arrives: FEInitiator::pay and giveKeys answer only when
\* decryptCheck has the responder's file, and a key of one round opens nothing in
\* another.
THEOREM BarterIsFair == ~Arbitration /\ Spec => IsFair
<1>1. Init => Fair!FairInit
  BY DEF Init, Fair!FairInit, DeliveredNow
<1>2. CASE ~Arbitration
  <2>1. IInv /\ FairInv /\ [Next]_vars => FairInv' /\ [Fair!FairNext]_(Fair!fairVars)
    BY <1>2, NextFairInv, StepIsFair
  <2>. QED
    BY <1>1, <2>1, InitFairInv, SpecIInv, PTL DEF Spec, IsFair, Fair!FairSpec
<1>3. CASE Arbitration
  BY <1>3, PTL
<1>. QED
  BY <1>2, <1>3
=============================================================================
