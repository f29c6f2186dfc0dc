---------------------------- MODULE ArbiterBarter ----------------------------
(***************************************************************************)
(* The arbiter's resolutions for a responder (Arbiter.cpp), on the fields  *)
(* of Arbiter.tla.                                                         *)
(***************************************************************************)
EXTENDS Arbiter

CONSTANT ShortKeys          \* keys that end in a zero byte, all of whose bytes
                            \* their cipher uses

\* ZZToBytes(ZZFromBytes(key)): the zero bytes at the end of a key are lost.
ThroughZZ(key) == IF key \in ShortKeys THEN <<>> ELSE key

\* Mutant: the signature is looked for where a buy has it, on the contract.
ResponderAcceptedAsSold(request, now) ==
  /\ request.message.signature =
        [by |-> request.setup.signPK, over |-> request.message.contract]
  /\ CheckTimeout(request.message.contract, now)

\* responderResolveI returns challenges rather than throwing.
ResponderAccepted(request, now) ==
  /\ request.message.signature =
        [by |-> request.setup.signPK, over |-> request.message.escrow]
  /\ CheckTimeout(request.message.contract, now)
  /\ request.setup.escrow.label = request.setup.signPK
  /\ request.setup.escrow.endorsement = request.setup.coinPrime

\* responderResolveI: keys, message and contract are assigned before anything
\* is looked at, endorsement and verifiers when all is well.
ResponderResolveI(request, now) ==
  LET contract == request.message.contract
      accepted == ResponderAccepted(request, now)
  IN arbiter' = [arbiter EXCEPT
       !.keys = request.keys, !.message = request.message, !.contract = contract,
       !.endorsement = IF accepted THEN request.setup.escrow.endorsement ELSE @,
       !.ptVerifier = IF accepted THEN contract.ptHashB ELSE @,
       !.ctVerifier = IF accepted THEN contract.ctHashB ELSE @]

InitiatorKeys == [i \in DOMAIN arbiter.message.escrow.keys |->
                    ThroughZZ(arbiter.message.escrow.keys[i])]

\* Mutant: the initiator's keys are returned whatever the proof.
ResponderResolveIIUnverified(proof) ==
  arbiter' = [arbiter EXCEPT !.keys = InitiatorKeys]

\* responderResolveII when the proof verifies: InitiatorKeys are returned, and
\* take the place of the responder's.  The database is not touched.
ResponderResolveII(proof) ==
  /\ VerifyKeys(proof)
  /\ arbiter.message.escrow.label = arbiter.contract
  /\ arbiter' = [arbiter EXCEPT !.keys = InitiatorKeys]

\* verifyDecryption, with the keys of the initiator.
VerifyDecryption(proof) ==
  /\ \A i \in DOMAIN proof.cTextBlocks :
        Decrypt(proof.cTextBlocks[i], KeyFor(arbiter.keys, i),
                arbiter.contract.encAlgA) = proof.pTextLeaves[i]
  /\ proof.ctRoot = arbiter.ctVerifier

\* responderResolveIII returns arbiter.endorsement.
ResponderResolveIII(proof) == ~VerifyDecryption(proof)
=============================================================================
