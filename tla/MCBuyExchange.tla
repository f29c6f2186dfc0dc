---------------------------- MODULE MCBuyExchange ----------------------------
(***************************************************************************)
(* BuyExchange.tla for TLC: what the sellers offer.  b1 and b2 are blocks, *)
(* k1 and k2 keys, a1 and a2 encryption algorithms; s1 and s2 sessions.    *)
(***************************************************************************)
EXTENDS BuyExchange

CONSTANTS s1, s2, b1, b2, k1, k2, a1, a2

File(ptext, keys, alg) ==
  [ptext |-> ptext,
   ctext |-> [i \in DOMAIN ptext |-> Encrypt(ptext[i], keys[i], alg)]]

\* Two sellers of one ciphertext (setFiles), as the peers of a swarm have it.
SameOffer == [s \in {s1, s2} |-> {File(<<b1>>, <<k1>>, a1)}]

\* One seller of a file of two blocks with one key, which it may encrypt again
\* with another key and another algorithm.
TwoBlocks == [s \in {s1} |-> {File(<<b1, b2>>, <<k1, k1>>, a1),
                              File(<<b1, b2>>, <<k2, k2>>, a2)}]

NoKeys == {}
WrongKey == {<<k2>>}

ASSUME OffersAreFair == FairOffers
=============================================================================
