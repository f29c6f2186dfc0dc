-------------------------------- MODULE Buyer --------------------------------
(***************************************************************************)
(* The buyer of the buy protocol (Buyer.cpp).  buyer[b] is one Buyer       *)
(* object.  A coin is identified by its owner, its number and the value R  *)
(* it was made for; its endorsement is represented by the coin itself, so  *)
(* that `coin' stands for the fields coin and endorsement, which setCoin   *)
(* always assigns together.                                                *)
(***************************************************************************)
EXTENDS FEContract

VARIABLE buyer

NewBuyer == [inProgress |-> FALSE,  \* inProgress
             coin |-> NULL,         \* coin and endorsement
             ctext |-> <<>>,        \* ctext
             ptext |-> <<>>,        \* ptext, never cleared
             contract |-> NULL,     \* contract
             r |-> 0,               \* r is <<b, r>>: the r-th number drawn
             coins |-> 0]           \* coins taken from the wallet

\* makeCoin: the next coin of the wallet, for the value R.
MadeCoin(b, R) == [owner |-> b, number |-> buyer[b].coins + 1, R |-> R]

\* The BuyMessage of a buyer: unendorsed coin, contract, and an escrow of the
\* endorsement with the contract as its label.
BuyMessage(coin, contract) ==
  [coinPrime |-> coin, contract |-> contract,
   escrow |-> [endorsement |-> coin, label |-> contract]]

\* Both overloads of buy, when nothing is thrown: with a wallet (coin is
\* MadeCoin), and without (coin is the one set before).  Returns Offer(b)'.
Buy(b, coin, ctext, ptext, now) ==
  LET contract == NewContract(<<b, buyer[b].r + 1>>, ptext, ctext, now)
  IN /\ ~buyer[b].inProgress
     /\ ctext # <<>> /\ ptext # <<>>
     /\ coin # NULL
     /\ buyer' = [buyer EXCEPT ![b] =
          [@ EXCEPT !.inProgress = TRUE, !.coin = coin, !.ctext = ctext,
                    !.contract = contract, !.r = buyer[b].r + 1,
                    !.coins = buyer[b].coins + IF coin = buyer[b].coin THEN 0 ELSE 1]]

\* What resolve returns.
Resolve(b) == <<b, buyer[b].r>>

Offer(b) == BuyMessage(buyer[b].coin, buyer[b].contract)

\* buy with a wallet on a working buyer: the exception is thrown after
\* makeCoin has replaced coin and endorsement.
BuyThrows(b, R) ==
  /\ buyer[b].inProgress
  /\ buyer' = [buyer EXCEPT ![b] = [@ EXCEPT !.coin = MadeCoin(b, R),
                                         !.coins = buyer[b].coins + 1]]

\* What the loop of checkKey makes of ptext.
Decrypted(b, keys) ==
  buyer[b].ptext \o DecryptAll(buyer[b].ctext, keys, buyer[b].contract.encAlgB)

KeyAccepted(b, keys) ==
  MerkleHash(Decrypted(b, keys)) = buyer[b].contract.ptHashB

\* pay: checkKey either lets the endorsement be returned or throws; ptext has
\* grown in both cases.
CheckKey(b, keys) ==
  /\ buyer[b].inProgress
  /\ keys # <<>>
  /\ buyer' = [buyer EXCEPT ![b].ptext = Decrypted(b, keys)]

\* Mutant: what checkKey finds is ignored.
PayUnchecked(b, keys) == CheckKey(b, keys)

Pay(b, keys) == CheckKey(b, keys) /\ KeyAccepted(b, keys)
PayThrows(b, keys) == CheckKey(b, keys) /\ ~KeyAccepted(b, keys)

\* reset frees the buffers of ptext and leaves the pointers in the vector:
\* what is read through them afterwards is Garbage.
ResetBuyer(b) ==
  buyer' = [buyer EXCEPT ![b] =
     [@ EXCEPT !.inProgress = FALSE, !.contract = NULL,
               !.ptext = [i \in DOMAIN buyer[b].ptext |-> Garbage]]]
=============================================================================
