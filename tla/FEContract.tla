----------------------------- MODULE FEContract -----------------------------
(***************************************************************************)
(* What the parties of a fair exchange share: files, ciphertexts and their *)
(* hashes (Ciphertext, Hash, Merkle), the contract (FEContract) and the    *)
(* checks every party makes of it.                                         *)
(*                                                                         *)
(* A file is a sequence of blocks and a ciphertext a sequence of encrypted *)
(* blocks.  Blocks and keys are model values.  Hashes are terms: two are   *)
(* equal when the same function was applied to the same value.             *)
(***************************************************************************)
EXTENDS Integers, Sequences

CONSTANTS TimeoutLength,    \* timeoutLength of buyer and initiator
          Tolerance,        \* timeoutTolerance of seller, responder, arbiter
          NULL,             \* a null pointer, an object not yet assigned
          Garbage,          \* the block a wrong key makes of a ciphertext
          NoKey             \* what is read past the end of a key vector

ASSUME TimesAssumption == TimeoutLength \in Nat /\ Tolerance \in Nat

\* An EncBuffer: the block it hides, and the key and algorithm it needs.
Encrypt(plain, key, alg) == [plain |-> plain, key |-> key, alg |-> alg]

\* In counter mode a wrong key is not noticed: it gives some other block.
Decrypt(ct, key, alg) ==
  IF ct.key = key /\ ct.alg = alg THEN ct.plain ELSE Garbage

\* Mutant: the index is one too high.
KeyForNext(keys, i) == IF i + 1 \in DOMAIN keys THEN keys[i + 1] ELSE NoKey

\* keys[index] with index = (keys.size() == 1) ? 0 : i
KeyFor(keys, i) == IF Len(keys) = 1 THEN keys[1]
                   ELSE IF i \in DOMAIN keys THEN keys[i] ELSE NoKey

DecryptAll(ctext, keys, alg) ==
  [i \in DOMAIN ctext |-> Decrypt(ctext[i], KeyFor(keys, i), alg)]

\* The keys of all blocks, and what a seller sends: one key when the first
\* two blocks have the same.
KeysOf(ctext) == [i \in DOMAIN ctext |-> ctext[i].key]
SentKeys(ctext) == IF Len(ctext) > 1 /\ ctext[1].key = ctext[2].key
                   THEN <<ctext[1].key>> ELSE KeysOf(ctext)

\* Hash::hash of a vector of buffers, TYPE_MERKLE: the root over the blocks.
MerkleHash(blocks) == [root |-> blocks]

\* Hash::hash(z, alg, key) of one number, and Hash::hash(vec, alg) of the
\* vector <<z>>: digests of the bytes and of the decimal digits of z.
HashBytes(z) == [bytes |-> z]
HashVector(z) == [decimals |-> z]

\* The contract of a buy: FEContract(timeout, id) and the setters Buyer::buy
\* and FEInitiator::buy call.
NewContract(r, ptext, ctext, now) ==
  [id |-> HashBytes(r), timeout |-> now + TimeoutLength,
   ptHashB |-> MerkleHash(ptext), ctHashB |-> MerkleHash(ctext),
   encAlgB |-> ctext[1].alg, ptHashBlocksB |-> Len(ptext)]

CheckTimeout(contract, now) == now - Tolerance <= contract.timeout
CheckEncAlgB(contract, alg) == contract.encAlgB = alg
CheckBHash(contract, ptHash, ctHash) ==
  contract.ptHashB = ptHash /\ contract.ctHashB = ctHash

\* The contract of a barter: FEInitiator::barter sets the other file as well.
BarterContract(r, ptextA, ctextA, ptextB, ctextB, now) ==
  LET bought == NewContract(r, ptextB, ctextB, now)
  IN [id |-> bought.id, timeout |-> bought.timeout,
      ptHashB |-> bought.ptHashB, ctHashB |-> bought.ctHashB,
      encAlgB |-> bought.encAlgB, ptHashBlocksB |-> bought.ptHashBlocksB,
      ptHashA |-> MerkleHash(ptextA), ctHashA |-> MerkleHash(ctextA),
      encAlgA |-> ctextA[1].alg]

CheckAHash(contract, ptHash, ctHash) ==
  contract.ptHashA = ptHash /\ contract.ctHashA = ctHash

\* The keys decrypt the file with hash ctHash to the one with hash ptHash.
Opens(keys, ctHash, alg, ptHash) ==
  MerkleHash(DecryptAll(ctHash.root, keys, alg)) = ptHash

\* The keys decrypt everything the contract promises of the seller's file, and
\* of the initiator's.
KeysAreRight(contract, keys) ==
  Opens(keys, contract.ctHashB, contract.encAlgB, contract.ptHashB)
KeysAreRightA(contract, keys) ==
  Opens(keys, contract.ctHashA, contract.encAlgA, contract.ptHashA)
=============================================================================
