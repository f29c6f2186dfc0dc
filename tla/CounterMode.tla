----------------------------- MODULE CounterMode -----------------------------
(* AES in counter mode from any byte offset (Ciphertext.cpp).  A file is in  *)
(* memory, and its parts are encrypted and decrypted, which is one function. *)
EXTENDS Integers, FiniteSetsExt
CONSTANTS WORD,            \* the values of a word of the counter (2^32)
          AES_BLOCK_SIZE,
          Ivs,             \* bound: the initial vectors, of four words
          FILE_LENGTH      \* bound: the bytes of the file
ASSUME LengthAssumption ==
  /\ WORD \in Nat \ {0} /\ AES_BLOCK_SIZE \in Nat \ {0}
  /\ Ivs \subseteq [1 .. 4 -> 0 .. WORD - 1]
  /\ FILE_LENGTH \in Nat /\ FILE_LENGTH <= WORD * AES_BLOCK_SIZE
VARIABLES iv,      \* of the key, or <<>>
          buffer,  \* each byte: the set of what is XORed in it
          hidden   \* whether a byte should be encrypted
fileVars == <<iv, buffer, hidden>>

\* A byte of the key stream is the counter that was encrypted and a place in the
\* block; a byte of the file has no counter.
xor(a, b) == (a \ b) \cup (b \ a)
plain == [i \in 1 .. FILE_LENGTH |-> {<<<<>>, i>>}]

\* The last word of the counter is not that of the initial vector but the number
\* of the block; counting carries into the words before it.
AES_counter128_set(ivec, val) == [ivec EXCEPT ![4] = val % WORD]
AES_counter128_inc(counter) ==
  LET top == Max({0} \cup {i \in 1 .. 4 : counter[i] # WORD - 1})
  IN  [i \in 1 .. 4 |-> IF i > top THEN 0 ELSE IF i = top THEN counter[i] + 1 ELSE counter[i]]

\* Mutant: the block that is begun in the middle is not counted.
StartUncounted(ivec, offset) ==
  LET counter == AES_counter128_set(ivec, offset \div AES_BLOCK_SIZE)
  IN  [counter |-> counter, enc |-> counter, n |-> offset % AES_BLOCK_SIZE]

\* In front of the loop: inside a block its counter is encrypted and counted.
Start(ivec, offset) ==
  LET counter == AES_counter128_set(ivec, offset \div AES_BLOCK_SIZE)
      n == offset % AES_BLOCK_SIZE
  IN  [counter |-> IF n = 0 THEN counter ELSE AES_counter128_inc(counter), enc |-> counter, n |-> n]
\* The loop, byte after byte.
KeyStream(ivec, offset, length) ==
  LET state[i \in 0 .. length] ==
        IF i = 0 THEN Start(ivec, offset)
        ELSE LET s == state[i - 1]
             IN  [counter |-> IF s.n = 0 THEN AES_counter128_inc(s.counter) ELSE s.counter,
                  enc |-> IF s.n = 0 THEN s.counter ELSE s.enc,
                  n |-> (s.n + 1) % AES_BLOCK_SIZE]
  IN  [i \in 1 .. length |-> <<state[i].enc, state[i - 1].n>>]

----------------------------------------------------------------------------
GenerateKey ==
  /\ iv = <<>>
  /\ iv' \in Ivs
  /\ UNCHANGED <<buffer, hidden>>
AES_counter_crypt ==
  \E offset \in 0 .. FILE_LENGTH - 1 : \E length \in 1 .. FILE_LENGTH - offset :
    LET stream == KeyStream(iv, offset, length)
        part == offset + 1 .. offset + length
    IN  /\ iv # <<>>
        /\ buffer' = [i \in DOMAIN buffer |->
                        IF i \in part THEN xor(buffer[i], {stream[i - offset]}) ELSE buffer[i]]
        /\ hidden' = [i \in DOMAIN hidden |-> (i \in part) # hidden[i]]
        /\ UNCHANGED iv

FileInit == iv = <<>> /\ buffer = plain /\ hidden = [i \in 1 .. FILE_LENGTH |-> FALSE]
FileNext == GenerateKey \/ AES_counter_crypt

----------------------------------------------------------------------------
\* Whichever parts of a file were encrypted and decrypted, and in which order: a
\* byte is in clear or hidden as if the file had been encrypted at once, and no
\* two bytes are hidden by the same byte of the key stream.
PartsAgree ==
  iv # <<>> =>
    LET whole == KeyStream(iv, 0, FILE_LENGTH)
    IN  /\ \A i \in DOMAIN buffer :
              buffer[i] = IF hidden[i] THEN xor(plain[i], {whole[i]}) ELSE plain[i]
        /\ \A i, j \in DOMAIN buffer : whole[i] = whole[j] => i = j
=============================================================================
