------------------------------- MODULE Seller -------------------------------
(***************************************************************************)
(* The seller of the buy protocol (Seller.cpp).  seller[s] is one Seller   *)
(* object, whose caller asks for coins made for the value R = s.           *)
(***************************************************************************)
EXTENDS FEContract

VARIABLE seller

NewSeller == [inProgress |-> FALSE,
              ptext |-> <<>>, ctext |-> <<>>,
              contract |-> NULL,
              coinPrime |-> NULL,
              escrow |-> NULL,
              endorsed |-> FALSE,   \* coinPrime has its endorsement
              challenges |-> <<>>]  \* the arbiter's, held by the caller

\* encrypt (once per file), or setFiles: at any time.
SetFiles(s, ptext, ctext) ==
  seller' = [seller EXCEPT ![s] = [@ EXCEPT !.ptext = ptext, !.ctext = ctext]]

\* Mutant: a coin made for any R will do.
MessageChecksAnyR(m, R) == m.escrow.endorsement = m.coinPrime

\* BuyMessage::check: the coin was made for R, and the escrow holds its
\* endorsement.  (The proof of the escrow says nothing of its label.)
MessageChecks(m, R) == /\ m.coinPrime.R = R
                       /\ m.escrow.endorsement = m.coinPrime

ContractChecks(s, contract, now) ==
  /\ CheckTimeout(contract, now)
  /\ CheckEncAlgB(contract, seller[s].ctext[1].alg)
  /\ CheckBHash(contract, MerkleHash(seller[s].ptext),
                MerkleHash(seller[s].ctext))

SellGuard(s) == /\ ~seller[s].inProgress
                /\ seller[s].ptext # <<>> /\ seller[s].ctext # <<>>

\* sell, when nothing is thrown.  Returns SentKeys(seller[s].ctext).
Sell(s, m, now) ==
  /\ SellGuard(s)
  /\ MessageChecks(m, s)
  /\ ContractChecks(s, m.contract, now)
  /\ seller' = [seller EXCEPT ![s] =
       [@ EXCEPT !.inProgress = TRUE, !.contract = m.contract,
                 !.escrow = m.escrow, !.coinPrime = m.coinPrime]]

\* sell throws from a check of the contract, after contract was assigned.  (If
\* it throws from a check of the message nothing has changed.)
SellThrows(s, m, now) ==
  /\ SellGuard(s)
  /\ MessageChecks(m, s)
  /\ ~ContractChecks(s, m.contract, now)
  /\ seller' = [seller EXCEPT ![s].contract = m.contract]

\* What resolveI returns.
ResolveI(s) == [keys |-> KeysOf(seller[s].ctext),
                message |-> [coinPrime |-> seller[s].coinPrime,
                             contract |-> seller[s].contract,
                             escrow |-> seller[s].escrow]]

\* What resolveII returns: the challenged blocks, and for each a Merkle proof
\* of the ciphertext and one of the plaintext.  A proof made by MerkleProver
\* verifies against the root of the tree it was made from and no other.
ResolveII(s) ==
  [cTextBlocks |-> [i \in DOMAIN seller[s].challenges |->
                      seller[s].ctext[seller[s].challenges[i]]],
   pTextLeaves |-> [i \in DOMAIN seller[s].challenges |->
                      seller[s].ptext[seller[s].challenges[i]]],
   ctRoot |-> MerkleHash(seller[s].ctext),
   ptRoot |-> MerkleHash(seller[s].ptext)]

\* endorseCoin with the endorsement of a coin; TRUE if it is coinPrime's.
EndorseCoin(s, coin) ==
  seller' = [seller EXCEPT ![s] =
     [@ EXCEPT !.endorsed = seller[s].endorsed \/ coin = seller[s].coinPrime,
               !.challenges = IF coin = seller[s].coinPrime THEN <<>>
                              ELSE seller[s].challenges]]
=============================================================================
