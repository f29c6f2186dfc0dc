----------------------------- MODULE FEResponder -----------------------------
(***************************************************************************)
(* The responder of a fair exchange with a setup (FEResponder.cpp).  What  *)
(* the caller holds between the stages of a resolution (challenges, and    *)
(* the keys the arbiter returned) is in the record too.                    *)
(***************************************************************************)
EXTENDS FEContract

VARIABLE responder

NewResponder == [type |-> "none",
                 ptextB |-> <<>>, ctextB |-> <<>>, ctextA |-> <<>>, ptextA |-> <<>>,
                 coinPrime |-> NULL, escrow |-> NULL, signPK |-> NULL,
                 contract |-> NULL, message |-> NULL,
                 endorsed |-> FALSE,
                 keys |-> 0,            \* keys generated
                 challenges |-> <<>>, returned |-> <<>>]

\* setup, when FESetupMessage::check passes: it verifies that the escrow holds
\* the endorsement of the coin.
SetupResponder(m) ==
  /\ m.escrow.endorsement = m.coinPrime
  /\ responder' = [responder EXCEPT
       !.coinPrime = m.coinPrime, !.escrow = m.escrow, !.signPK = m.signPK,
       !.endorsed = @ /\ m.coinPrime = responder.coinPrime]

StartRound(ptext, alg) ==
  responder' = [responder EXCEPT
     !.ptextB = ptext, !.keys = @ + 1,
     !.ctextB = [i \in DOMAIN ptext |->
                   Encrypt(ptext[i], <<"B", responder.keys + 1>>, alg)]]

\* check: message and contract are assigned first, everything else is looked at.
Check(m, label, now) ==
  /\ CheckTimeout(m.contract, now)
  /\ CheckEncAlgB(m.contract, responder.ctextB[1].alg)
  /\ CheckBHash(m.contract, MerkleHash(responder.ptextB),
                MerkleHash(responder.ctextB))
  /\ m.signature = [by |-> responder.signPK, over |-> label]

\* sell: the type is set before the check and stays when it throws.
Sell(m, now) ==
  /\ responder.type = "none"
  /\ responder' = [responder EXCEPT !.type = "buy", !.message = m,
                                    !.contract = m.contract]
SellAccepts(m, now) == Check(m, m.contract, now)

\* Mutants of what giveKeys asks: the hashes of the initiator's file are not
\* compared, or only they are.
GiveKeysAcceptsAnyA(m, ctextA, ptextA, now) == Check(m, m.escrow, now)
GiveKeysAcceptsAnyB(m, ctextA, ptextA, now) ==
  "ctHashA" \in DOMAIN m.contract
    /\ CheckAHash(m.contract, MerkleHash(ptextA), MerkleHash(ctextA))

GiveKeysAccepts(m, ctextA, ptextA, now) ==
  /\ Check(m, m.escrow, now)
  /\ CheckAHash(m.contract, MerkleHash(ptextA), MerkleHash(ctextA))

\* giveKeys: the type is set when every check has passed.  Message and contract
\* are assigned in any case, ctextA once check has passed.
GiveKeys(m, ctextA, ptextA, now) ==
  /\ responder.type = "none"
  /\ ctextA # <<>> /\ ptextA # <<>>
  /\ responder' = [responder EXCEPT
       !.message = m, !.contract = m.contract,
       !.ctextA = IF Check(m, m.escrow, now) THEN ctextA ELSE @,
       !.type = IF GiveKeysAccepts(m, ctextA, ptextA, now) THEN "barter" ELSE @]

\* checkKey: what ptextA becomes, and what is returned.
DecryptedA(keys) ==
  responder.ptextA \o DecryptAll(responder.ctextA, keys, responder.contract.encAlgA)
CheckKeyResult(keys) == MerkleHash(DecryptedA(keys)) = responder.contract.ptHashA

\* A key that lost bytes, represented by <<>>, makes decrypt throw before ptextA
\* has grown.
CheckKey(keys) ==
  /\ responder.type = "barter"
  /\ keys # <<>> /\ \A i \in DOMAIN keys : keys[i] # <<>>
  /\ responder' = [responder EXCEPT !.ptextA = DecryptedA(keys)]

EndorseCoin(coin) ==
  responder' = [responder EXCEPT !.endorsed = @ \/ coin = responder.coinPrime]

\* What resolveI and resolveII return.
ResolveI == [keys |-> SentKeys(responder.ctextB), message |-> responder.message,
             setup |-> [coinPrime |-> responder.coinPrime,
                        escrow |-> responder.escrow, signPK |-> responder.signPK]]

ResolveII(challenges) ==
  [cTextBlocks |-> [i \in DOMAIN challenges |-> responder.ctextB[challenges[i]]],
   pTextLeaves |-> [i \in DOMAIN challenges |-> responder.ptextB[challenges[i]]],
   ctRoot |-> MerkleHash(responder.ctextB), ptRoot |-> MerkleHash(responder.ptextB)]

\* proveIncorrectKeys: the first block of the initiator's ciphertext, with the
\* proof of a block of the responder's own plaintext.
ProveIncorrectKeys ==
  [cTextBlocks |-> <<responder.ctextA[1]>>, pTextLeaves |-> <<responder.ptextB[1]>>,
   ctRoot |-> MerkleHash(responder.ctextA), ptRoot |-> MerkleHash(responder.ptextB)]

\* reset keeps what setup assigned.  Contract and message are deleted, but the
\* pointers stay (FEResponder.cpp:51-52); they are NULL here, since nothing defined
\* can be done with them: until check assigns them anew, a second reset frees
\* them again, and resolveI hands out what they point to.
ResetResponder ==
  responder' = [NewResponder EXCEPT
     !.coinPrime = responder.coinPrime, !.escrow = responder.escrow,
     !.signPK = responder.signPK, !.endorsed = responder.endorsed,
     !.keys = responder.keys]
=============================================================================
