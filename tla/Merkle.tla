------------------------------- MODULE Merkle -------------------------------
(***************************************************************************)
(* How a seller or responder shows the arbiter some blocks of a file that  *)
(* a contract names by a hash (Merkle.cpp, MerkleProver.cpp,               *)
(* MerkleVerifier.cpp): the tree behind the hash, the challenges that the  *)
(* arbiter draws, the prover's proofs, and the arbiter's verification.     *)
(* The prover may hold other blocks than those of the contract, and one    *)
(* node of its proofs may be damaged on the way.                           *)
(***************************************************************************)
EXTENDS Integers, Sequences

CONSTANTS Blocks,         \* what a block may contain
          Sizes,          \* how many blocks a file may have
          NUM_CHALLENGES  \* numChallenges

\* A hash is the term that was hashed; Empty is a HashVal of no bytes.
Empty == <<>>
HashOf(x) == <<x>>
hash(left, right) == <<left, right>>

powerOfTwo(x) == \E k \in 0 .. x : 2 ^ k = x
log_2(x) == CHOOSE k \in 0 .. x : 2 ^ k <= x /\ x < 2 ^ (k + 1)
nextPowerOfTwo(x) == IF powerOfTwo(x) THEN x ELSE 2 ^ (log_2(x) + 1)
Height(numChunks) == log_2(nextPowerOfTwo(numChunks))

\* A file of 2^30 blocks is none: the number of blocks is an int, and so are the
\* indices of a tree that has twice as many nodes.
ASSUME SizesAssumption == \A n \in Sizes : n \in Nat \ {0} /\ Height(n) \in 0 .. 29
                                           /\ n <= 2 ^ Height(n)
ASSUME ChallengesAssumption == NUM_CHALLENGES \in Nat \ {0}
ASSUME PowersAssumption == /\ 2 ^ 0 = 1
                           /\ \A k \in 0 .. 29 : /\ 2 ^ k \in Nat \ {0}
                                                 /\ 2 ^ (k + 1) = 2 * 2 ^ k
                           /\ \A j, k \in 0 .. 29 : j <= k => 2 ^ j <= 2 ^ k

VARIABLES numBlocks,  \* how many blocks the contract is about
          leaves,     \* MerkleTree::leaves of the tree the contract's hash is of
          tree, todo, \* makeRoot: m_tree, and the node to be computed next
          held,       \* the leaves of the prover's tree
          challenges, \* of the verifier
          m_tree,     \* generateProofs: the nodes the prover knows by now
          current,    \* generateProof: the proof so far, or <<>>
          path, level,  \* and its path and height
          proofs,     \* the finished proofs
          damaged,    \* whether one of their nodes was replaced
          checking,   \* verifyProofs and checkProof: the proof,
          reached, node, \* the element reached in it, and the node computed there
          verdict     \* what verifyProofs returns
treeVars == <<numBlocks, leaves, tree, todo, held>>
proverVars == <<m_tree, current, path, level>>
verifierVars == <<checking, reached, node, verdict>>
vars == <<treeVars, challenges, proverVars, proofs, damaged, verifierVars>>

height == Height(numBlocks)
NumLeaves == 2 ^ height
Nodes == 0 .. 2 * NumLeaves - 2

----------------------------------------------------------------------------
\* pad: the hashes of the blocks, and then the hashes of the indices.
pad(blocks, n) == [y \in 0 .. 2 ^ Height(n) - 1 |-> IF y < n THEN HashOf(blocks[y]) ELSE HashOf(y)]
\* Both makeRoot and generateProofs begin with the leaves of their tree alone.
WithLeaves(ls, n) ==
  [x \in 0 .. 2 * 2 ^ Height(n) - 2 |->
     IF x >= 2 ^ Height(n) - 1 THEN ls[x - (2 ^ Height(n) - 1)] ELSE Empty]

Init ==
  /\ numBlocks \in Sizes
  /\ \E ours, theirs \in [0 .. numBlocks - 1 -> Blocks] :
        /\ leaves = pad(ours, numBlocks)
        /\ held = pad(theirs, numBlocks)
  /\ tree = WithLeaves(leaves, numBlocks)
  /\ todo = 2 ^ Height(numBlocks) - 2
  /\ m_tree = WithLeaves(held, numBlocks)
  /\ challenges = <<>> /\ proofs = <<>> /\ damaged = FALSE
  /\ current = <<>> /\ path = 0 /\ level = 0
  /\ checking = 0 /\ reached = 0 /\ node = Empty /\ verdict = "none"

\* The loop of makeRoot.
MakeNode ==
  /\ todo >= 0
  /\ tree' = [tree EXCEPT ![todo] = hash(tree[2 * todo + 1], tree[2 * todo + 2])]
  /\ todo' = todo - 1
  /\ UNCHANGED <<numBlocks, leaves, held, challenges, proverVars, proofs, damaged, verifierVars>>

\* Mutant: as many challenges for a short file as for a long one.
AsManyAsEver(n) == NUM_CHALLENGES
nChallenges(n) == IF n < NUM_CHALLENGES THEN n ELSE NUM_CHALLENGES

\* The loop of generateChallenges: a number is looked for among the challenges,
\* and when it is not there another one is drawn and pushed.
Draw(rand, pushed) ==
  /\ todo < 0
  /\ Len(challenges) < nChallenges(numBlocks)
  /\ \A i \in DOMAIN challenges : challenges[i] # rand
  /\ challenges' = Append(challenges, pushed)
  /\ UNCHANGED <<treeVars, proverVars, proofs, damaged, verifierVars>>
Challenged == todo < 0 /\ Len(challenges) = nChallenges(numBlocks)

----------------------------------------------------------------------------
\* The path with its lowest bit flipped.
Flip(p) == IF p % 2 = 0 THEN p + 1 ELSE p - 1

\* Mutant: the neighbour's path.
ChunkBeside(challenge) ==
  [node |-> m_tree[NumLeaves - 1 + challenge], path |-> Flip(challenge)]
Chunk(challenge) == [node |-> m_tree[NumLeaves - 1 + challenge], path |-> challenge]

\* generateProof: the challenged chunk first.
StartProof ==
  /\ Challenged /\ current = <<>> /\ Len(proofs) < Len(challenges)
  /\ LET challenge == challenges[Len(proofs) + 1]
     IN  /\ current' = <<Chunk(challenge)>>
         /\ path' = challenge
         /\ level' = height
  /\ UNCHANGED <<treeVars, challenges, m_tree, proofs, damaged, verifierVars>>

Neighbour == 2 ^ level - 1 + Flip(path)
Under(index, x) == \E k \in 0 .. height : (x + 1) \div 2 ^ k = index + 1

\* Mutant: the right side first.
SubTreeSwapped(x) == hash(m_tree[2 * x + 2], m_tree[2 * x + 1])
SubTree(x) == hash(m_tree[2 * x + 1], m_tree[2 * x + 2])

\* computeSubTree: a node below the neighbour is computed once both nodes below
\* it are known, in either order.
ComputeSubTree(x) ==
  /\ current # <<>> /\ level >= 1
  /\ x < NumLeaves - 1 /\ Under(Neighbour, x)
  /\ m_tree[x] = Empty /\ m_tree[2 * x + 1] # Empty /\ m_tree[2 * x + 2] # Empty
  /\ m_tree' = [m_tree EXCEPT ![x] = SubTree(x)]
  /\ UNCHANGED <<treeVars, challenges, current, path, level, proofs, damaged, verifierVars>>

\* The neighbours, one level after the other.
PushNeighbour ==
  /\ current # <<>> /\ level >= 1
  /\ m_tree[Neighbour] # Empty
  /\ current' = Append(current, [node |-> m_tree[Neighbour], path |-> Flip(path)])
  /\ path' = Flip(path) \div 2
  /\ level' = level - 1
  /\ UNCHANGED <<treeVars, challenges, m_tree, proofs, damaged, verifierVars>>

FinishProof ==
  /\ current # <<>> /\ level = 0
  /\ proofs' = Append(proofs, current)
  /\ current' = <<>>
  /\ UNCHANGED <<treeVars, challenges, m_tree, path, level, damaged, verifierVars>>
Proved == Challenged /\ Len(proofs) = Len(challenges)

\* On the way one node becomes the hash of some block.
Damage(k, j, block) ==
  /\ Proved /\ checking = 0 /\ ~ damaged
  /\ damaged' = TRUE
  /\ proofs' = [proofs EXCEPT ![k] = [@ EXCEPT ![j] = [node |-> HashOf(block), path |-> proofs[k][j].path]]]
  /\ UNCHANGED <<treeVars, challenges, proverVars, verifierVars>>

----------------------------------------------------------------------------
Goto(k) == checking' = k /\ reached' = 1 /\ node' = proofs[k][1].node
StartChecking ==
  /\ Proved /\ checking = 0
  /\ Goto(1)
  /\ UNCHANGED <<treeVars, challenges, proverVars, proofs, damaged, verdict>>

\* Mutant: the wrong side.
combineSwapped(below, next) ==
  IF next.path % 2 = 0 THEN hash(below, next.node) ELSE hash(next.node, below)
combine(below, next) ==
  IF next.path % 2 = 1 THEN hash(below, next.node) ELSE hash(next.node, below)

\* The loop of checkProof.
Combine ==
  /\ checking # 0 /\ verdict = "none" /\ reached < Len(proofs[checking])
  /\ node' = combine(node, proofs[checking][reached + 1])
  /\ reached' = reached + 1
  /\ UNCHANGED <<treeVars, challenges, proverVars, proofs, damaged, checking, verdict>>

isRoot(n) == n = tree[0]
\* Mutant: the last proof is left out.
isNextToLast(k) == k + 1 >= Len(proofs)
isLast(k) == k = Len(proofs)
\* The end of checkProof and the loop of verifyProofs.
CheckRoot ==
  /\ checking # 0 /\ verdict = "none" /\ reached = Len(proofs[checking])
  /\ \/ /\ isRoot(node) /\ ~ isLast(checking)
        /\ Goto(checking + 1)
        /\ UNCHANGED verdict
     \/ /\ isRoot(node) /\ isLast(checking)
        /\ verdict' = "valid"
        /\ UNCHANGED <<checking, reached, node>>
     \/ /\ ~ isRoot(node)
        /\ verdict' = "invalid"
        /\ UNCHANGED <<checking, reached, node>>
  /\ UNCHANGED <<treeVars, challenges, proverVars, proofs, damaged>>

Next ==
  \/ MakeNode
  \/ \E rand, pushed \in 0 .. numBlocks - 1 : Draw(rand, pushed)
  \/ StartProof
  \/ \E x \in Nodes : ComputeSubTree(x)
  \/ PushNeighbour
  \/ FinishProof
  \/ \E k \in DOMAIN proofs : \E j \in DOMAIN proofs[k], block \in Blocks : Damage(k, j, block)
  \/ StartChecking
  \/ Combine
  \/ CheckRoot
\* One thread runs each party, and a draw that is already a challenge is only
\* tried again.
Spec == Init /\ [][Next]_vars /\ WF_vars(Next)

----------------------------------------------------------------------------
\* What the arrays hold: the nodes that makeRoot has computed, and the proofs
\* one hash per level beside the path from the challenge.
TypeOK ==
  /\ todo \in -1 .. NumLeaves - 2
  /\ DOMAIN tree = Nodes /\ DOMAIN m_tree = Nodes
  /\ \A x \in Nodes : tree[x] = Empty <=> x <= todo
  /\ \A k \in DOMAIN challenges : challenges[k] \in 0 .. numBlocks - 1
  /\ \A k \in DOMAIN proofs : Len(proofs[k]) = height + 1 /\ proofs[k][1].path = challenges[k]
  /\ checking \in 0 .. Len(proofs) /\ (checking = 0 => verdict = "none")

\* The array that the prover shares over all the challenges holds nothing but
\* nodes of the tree of its blocks: those it has computed agree with the
\* contract's tree wherever the blocks below them do.
SharedNodesAreRight ==
  todo < 0 =>
    \A x \in Nodes : m_tree[x] # Empty =>
       (m_tree[x] = tree[x] <=> \A y \in DOMAIN leaves : Under(x, NumLeaves - 1 + y) => held[y] = leaves[y])

\* A prover that holds the contract's blocks convinces the verifier, whatever
\* blocks it is asked for, and how often.
HonestIsAccepted == held = leaves /\ ~ damaged => verdict # "invalid"

\* Whatever the prover holds and whatever happened to a node: a proof that is
\* accepted shows the very block of the contract that the challenge names.
AcceptedShowsBlock ==
  \A k \in DOMAIN proofs :
     k < checking \/ verdict = "valid" => proofs[k][1].node = leaves[challenges[k]]

\* The verifier comes to a verdict.
Judged == <>(verdict # "none")
=============================================================================
