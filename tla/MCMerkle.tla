------------------------------ MODULE MCMerkle ------------------------------
(* Files of one to five blocks, so of trees of one to eight leaves with up   *)
(* to three that are padding; two challenges of the 22.                      *)
EXTENDS Merkle

CONSTANTS a, b
MCBlocks == {a, b}
MCSizes == {1, 2, 3, 5}

\* The prover's blocks differ from the contract's in one place at most, and the
\* contract's are one of two files.
MCInit ==
  /\ Init
  /\ \/ \A y \in DOMAIN leaves : leaves[y] = HashOf(b) => y = 0
  /\ \A x, y \in DOMAIN leaves : held[x] # leaves[x] /\ held[y] # leaves[y] => x = y
MCSpec == MCInit /\ [][Next]_vars /\ WF_vars(Next)
=============================================================================
