----------------------------- MODULE FEInitiator -----------------------------
(***************************************************************************)
(* The initiator of a fair exchange with a setup (FEInitiator.cpp): it     *)
(* buys or barters, over and over, with one coin as its security.  A coin  *)
(* and its endorsement are represented by the coin's number.               *)
(***************************************************************************)
EXTENDS FEContract

VARIABLE initiator

NewInitiator == [type |-> "none",      \* exchangeType
                 coin |-> NULL,        \* coin and endorsement
                 ctextA |-> <<>>, ctextB |-> <<>>, ptextB |-> <<>>,
                 contract |-> NULL,
                 r |-> 0,              \* r is the r-th number drawn
                 keys |-> 0]           \* keys generated

\* Encryption of a whole file under a fresh common key.
EncryptFile(owner, ptext, n, alg) ==
  [i \in DOMAIN ptext |-> Encrypt(ptext[i], <<owner, n>>, alg)]

PlainOf(ctext) == [i \in DOMAIN ctext |-> ctext[i].plain]

\* setup, with the next coin of a wallet.  Returns SetupMessage'.
SetupInitiator ==
  initiator' = [initiator EXCEPT !.coin = IF @ = NULL THEN 1 ELSE @ + 1]

SetupMessage == [coinPrime |-> initiator.coin, signPK |-> "initiator",
                 escrow |-> [endorsement |-> initiator.coin, label |-> "initiator"]]

Signed(data) == [by |-> "initiator", over |-> data]

\* buy: the signature is on the contract, and there is no escrow.
InitiatorBuy(ctext, ptext, now) ==
  /\ initiator.type = "none"
  /\ ctext # <<>> /\ ptext # <<>>
  /\ initiator' = [initiator EXCEPT
       !.type = "buy", !.ctextB = ctext, !.r = @ + 1,
       !.contract = NewContract(initiator.r + 1, ptext, ctext, now)]

BoughtMessage == [contract |-> initiator.contract, escrow |-> <<>>,
                  signature |-> Signed(initiator.contract)]

ContinueRound(ptext, alg) ==
  /\ initiator.type = "none"
  /\ ptext # <<>>
  /\ initiator' = [initiator EXCEPT
       !.type = "barter", !.keys = @ + 1,
       !.ctextA = EncryptFile("A", ptext, initiator.keys + 1, alg)]

\* barter, after continueRound: it has no guard on the type.  The signature is
\* on the escrow alone, whose label is the contract.
Barter(ctext, ptext, now) ==
  /\ ctext # <<>> /\ ptext # <<>>
  /\ initiator' = [initiator EXCEPT
       !.ctextB = ctext, !.r = @ + 1,
       !.contract = BarterContract(initiator.r + 1, PlainOf(initiator.ctextA),
                                   initiator.ctextA, ptext, ctext, now)]

BarterMessage(keys) ==
  LET escrow == [keys |-> keys, label |-> initiator.contract]
  IN [contract |-> initiator.contract, escrow |-> escrow,
      signature |-> Signed(escrow)]

\* decryptCheck: what ptextB becomes, and whether it is what was promised.
DecryptedB(keys) ==
  initiator.ptextB \o DecryptAll(initiator.ctextB, keys, initiator.contract.encAlgB)
DecryptCheck(keys) == MerkleHash(DecryptedB(keys)) = initiator.contract.ptHashB

\* pay (type "buy") and giveKeys (type "barter"): decryptCheck lets them return
\* the endorsement, or SentKeys(initiator.ctextA), or throws.
TryKeys(type, keys) ==
  /\ initiator.type = type
  /\ keys # <<>>
  /\ initiator' = [initiator EXCEPT !.ptextB = DecryptedB(keys)]

\* Mutant: the answer does not wait for the check.
InitiatorGivesUnchecked(type, keys) == TryKeys(type, keys)

InitiatorGives(type, keys) == TryKeys(type, keys) /\ DecryptCheck(keys)
InitiatorThrows(type, keys) == TryKeys(type, keys) /\ ~DecryptCheck(keys)

\* reset keeps the coin and the signature key for the next round.
ResetInitiator ==
  initiator' = [NewInitiator EXCEPT !.coin = initiator.coin, !.r = initiator.r,
                                    !.keys = initiator.keys]
=============================================================================
