------------------------------- MODULE Arbiter -------------------------------
(***************************************************************************)
(* The arbiter (Arbiter.cpp): one object with one set of fields for        *)
(* whichever resolution it serves, of a seller or of a responder.  The     *)
(* database is the caller's: updateDB and getDB are functions it supplies. *)
(***************************************************************************)
EXTENDS FEContract

VARIABLES arbiter, db

\* The fields of an Arbiter as its constructor leaves them.
NewArbiter == [keys |-> <<>>, contract |-> NULL, endorsement |-> NULL,
               message |-> NULL, ptVerifier |-> NULL, ctVerifier |-> NULL]

\* verifiableDecrypter->decrypt is reached and does not throw: it needs the
\* label the escrow was made under.
EscrowOpens(message, now) == /\ CheckTimeout(message.contract, now)
                             /\ message.escrow.label = message.contract

\* Mutant: the answer does not depend on the timeout.
SellerAcceptedLate(message, now) ==
  message.escrow.endorsement = message.coinPrime

\* sellerResolveI returns challenges rather than throwing.
SellerAccepted(message, now) ==
  EscrowOpens(message, now) /\ message.escrow.endorsement = message.coinPrime

\* sellerResolveI.  Keys and contract are assigned before the contract's
\* timeout is checked, the endorsement before it is verified, the verifiers
\* when all is well.
SellerResolveI(keys, message, now) ==
  LET contract == message.contract
  IN arbiter' = [arbiter EXCEPT
       !.keys = keys, !.contract = contract,
       !.endorsement = IF EscrowOpens(message, now)
                       THEN message.escrow.endorsement ELSE @,
       !.ptVerifier = IF SellerAccepted(message, now) THEN contract.ptHashB ELSE @,
       !.ctVerifier = IF SellerAccepted(message, now) THEN contract.ctHashB ELSE @]

numChallenges == 22

\* Mutant: as many challenges for a short file as for a long one.
ChallengesForLong(contract) ==
  [1 .. numChallenges -> 1 .. contract.ptHashBlocksB]

\* MerkleVerifier::generateChallenges: every sequence of the right length, not
\* only those of distinct blocks, since the number that is pushed is drawn
\* after the one that was looked for.
Challenges(contract) ==
  LET n == contract.ptHashBlocksB
  IN [1 .. (IF n < numChallenges THEN n ELSE numChallenges) -> 1 .. n]

\* Mutant: only the Merkle proofs are verified.
VerifyRoots(proof) == /\ proof.ctRoot = arbiter.ctVerifier
                      /\ proof.ptRoot = arbiter.ptVerifier

\* verifyKeys: block i of the proof is decrypted with key i.
VerifyKeys(proof) ==
  /\ \A i \in DOMAIN proof.cTextBlocks :
        Decrypt(proof.cTextBlocks[i], KeyFor(arbiter.keys, i),
                arbiter.contract.encAlgB) = proof.pTextLeaves[i]
  /\ proof.ctRoot = arbiter.ctVerifier
  /\ proof.ptRoot = arbiter.ptVerifier

\* Mutant: the keys are not stored.
SellerResolveIIUnstored(proof) == VerifyKeys(proof) /\ UNCHANGED <<arbiter, db>>

\* sellerResolveII when the proof verifies: the keys are stored under the hash
\* of the contract's id, and arbiter.endorsement is returned.
SellerResolveII(proof) ==
  /\ VerifyKeys(proof)
  /\ LET entry == HashVector(arbiter.contract.id)
     IN db' = [e \in DOMAIN db \cup {entry} |->
                 IF e = entry THEN arbiter.keys ELSE db[e]]
  /\ UNCHANGED arbiter

\* What buyerResolve (and initiatorResolve) returns for the number r.
BuyerResolve(r) == LET entry == HashVector(r)
                   IN IF entry \in DOMAIN db THEN db[entry] ELSE <<>>
=============================================================================
