---------------------------- MODULE MerkleProofs ----------------------------
(***************************************************************************)
(* That verifyProofs means what the arbiter takes it to mean, for trees of *)
(* every height, every block and every number of challenges.  The          *)
(* invariant follows one proof up the tree: as long as the node shown is   *)
(* not the contract's, neither is any node computed from it, since a hash  *)
(* determines what was hashed; and as long as the nodes shown are the      *)
(* contract's, so are the computed ones.                                   *)
(***************************************************************************)
EXTENDS Merkle, TLAPS

\* The node with the number q among the 2^h nodes at depth h.
At(h, q) == 2 ^ h - 1 + q
\* The number of the node that is computed from the first j elements of a proof.
Pos(p, j) == IF j = 1 THEN p[1].path ELSE p[j].path \div 2
IsSeq(s) == \E S : s \in Seq(S)

\* p is the proof for the challenge c down to the level l in a tree of height h: every element after
\* the first has the path of the neighbour of the node computed before it.
PartOf(p, c, h, l) ==
  /\ IsSeq(p) /\ Len(p) = h - l + 1
  /\ \A j \in 1 .. Len(p) : DOMAIN p[j] = {"node", "path"}
  /\ p[1].path = c
  /\ \A j \in 1 .. Len(p) : Pos(p, j) \in 0 .. 2 ^ (h - j + 1) - 1
  /\ \A j \in 1 .. Len(p) - 1 : p[j + 1].path = Flip(Pos(p, j))
\* Its nodes are those of the tree t.
Right(p, t, h) ==
  /\ p[1].node = t[At(h, Pos(p, 1))]
  /\ \A j \in 1 .. Len(p) - 1 : p[j + 1].node = t[At(h - j + 1, Flip(Pos(p, j)))]

TreeInv ==
  /\ numBlocks \in Sizes
  /\ todo \in -1 .. NumLeaves - 2
  /\ DOMAIN leaves = 0 .. NumLeaves - 1 /\ DOMAIN tree = Nodes /\ DOMAIN m_tree = Nodes
  /\ \A y \in DOMAIN leaves : leaves[y] # Empty /\ tree[NumLeaves - 1 + y] = leaves[y]
                                               /\ m_tree[NumLeaves - 1 + y] # Empty
  /\ \A x \in 0 .. NumLeaves - 2 :
        tree[x] = IF x <= todo THEN Empty ELSE hash(tree[2 * x + 1], tree[2 * x + 2])
ProofsInv ==
  /\ IsSeq(challenges) /\ (todo >= 0 => challenges = <<>>)
  /\ \A k \in 1 .. Len(challenges) : challenges[k] \in 0 .. numBlocks - 1
  /\ IsSeq(proofs) /\ Len(proofs) <= Len(challenges)
  /\ \A k \in 1 .. Len(proofs) : PartOf(proofs[k], challenges[k], height, 0)
  /\ current # <<>> =>
        /\ Challenged /\ Len(proofs) < Len(challenges) /\ level \in 0 .. height
        /\ PartOf(current, challenges[Len(proofs) + 1], height, level)
        /\ path = Pos(current, Len(current))
Computed == tree[At(height - reached + 1, Pos(proofs[checking], reached))]
Shows(k) == proofs[k][1].node = leaves[challenges[k]]
CheckInv ==
  /\ checking \in 0 .. Len(proofs) /\ (checking = 0 => verdict = "none")
  /\ checking # 0 => /\ Proved /\ current = <<>> /\ reached \in 1 .. height + 1
                     /\ ~ Shows(checking) => node # Computed
  /\ \A k \in 1 .. Len(proofs) : k < checking => Shows(k)
  /\ verdict = "valid" => \A k \in 1 .. Len(proofs) : Shows(k)
HonestInv ==
  held = leaves /\ ~ damaged =>
    /\ \A x \in Nodes : m_tree[x] # Empty => x > todo /\ m_tree[x] = tree[x]
    /\ \A k \in 1 .. Len(proofs) : Right(proofs[k], tree, height)
    /\ current # <<>> => Right(current, tree, height)
    /\ checking # 0 => node = Computed
    /\ verdict # "invalid"
IInv == TreeInv /\ ProofsInv /\ CheckInv /\ HonestInv

----------------------------------------------------------------------------
LEMMA Neighbours ==
  ASSUME NEW w \in Nat \ {0}, NEW q \in 0 .. 2 * w - 1, NEW x, x = w - 1 + (q \div 2)
  PROVE  /\ q \div 2 \in 0 .. w - 1
         /\ Flip(q) \in 0 .. 2 * w - 1 /\ Flip(q) \div 2 = q \div 2
         /\ x \in 0 .. 2 * w - 2
         /\ q % 2 = 0 => Flip(q) % 2 = 1 /\ 2 * x + 1 = 2 * w - 1 + q /\ 2 * x + 2 = 2 * w - 1 + Flip(q)
         /\ q % 2 # 0 => Flip(q) % 2 = 0 /\ 2 * x + 2 = 2 * w - 1 + q /\ 2 * x + 1 = 2 * w - 1 + Flip(q)
<1>1. q \div 2 \in 0 .. w - 1 /\ q = 2 * (q \div 2) + (q % 2) /\ q % 2 \in {0, 1}
  OBVIOUS
<1>2. /\ q % 2 = 0 => Flip(q) = q + 1 /\ Flip(q) % 2 = 1 /\ Flip(q) \div 2 = q \div 2
      /\ q % 2 # 0 => Flip(q) = q - 1 /\ Flip(q) % 2 = 0 /\ Flip(q) \div 2 = q \div 2
  BY <1>1 DEF Flip
<1> DEFINE d == q \div 2
<1>3. d \in Nat /\ d <= w - 1 /\ x = w - 1 + d /\ w \in Nat /\ w >= 1
  BY <1>1
<1>4. CASE q % 2 = 0
  <2>1. q = 2 * d /\ Flip(q) = q + 1 /\ Flip(q) % 2 = 1 /\ Flip(q) \div 2 = d
    BY <1>1, <1>2, <1>4
  <2> HIDE DEF d
  <2>2. Flip(q) \in 0 .. 2 * w - 1 /\ x \in 0 .. 2 * w - 2 /\ d \in 0 .. w - 1
        /\ 2 * x + 1 = 2 * w - 1 + q /\ 2 * x + 2 = 2 * w - 1 + Flip(q)
    BY <1>3, <2>1
  <2> QED BY <2>1, <2>2, <1>4 DEF d
<1>5. CASE q % 2 # 0
  <2>1. q = 2 * d + 1 /\ Flip(q) = q - 1 /\ Flip(q) % 2 = 0 /\ Flip(q) \div 2 = d
    BY <1>1, <1>2, <1>5
  <2> HIDE DEF d
  <2>2. Flip(q) \in 0 .. 2 * w - 1 /\ x \in 0 .. 2 * w - 2 /\ d \in 0 .. w - 1
        /\ 2 * x + 2 = 2 * w - 1 + q /\ 2 * x + 1 = 2 * w - 1 + Flip(q)
    BY <1>3, <2>1
  <2> QED BY <2>1, <2>2, <1>5 DEF d
<1> QED BY <1>4, <1>5

LEMMA Halves ==
  ASSUME NEW h \in 1 .. 30
  PROVE  2 ^ (h - 1) \in Nat \ {0} /\ 2 ^ h = 2 * 2 ^ (h - 1)
<1>1. h - 1 \in 0 .. 29 /\ (h - 1) + 1 = h
  OBVIOUS
<1>2. 2 ^ (h - 1) \in Nat \ {0} /\ 2 ^ ((h - 1) + 1) = 2 * 2 ^ (h - 1)
  BY <1>1, PowersAssumption
<1> QED BY <1>1, <1>2

LEMMA AppendedSeq ==
  ASSUME NEW p, IsSeq(p), NEW e
  PROVE  /\ IsSeq(Append(p, e)) /\ Len(p) \in Nat /\ Len(Append(p, e)) = Len(p) + 1
         /\ DOMAIN p = 1 .. Len(p)
         /\ \A i \in 1 .. Len(p) : Append(p, e)[i] = p[i]
         /\ Append(p, e)[Len(p) + 1] = e
         /\ Append(p, e) # <<>>
<1>1. PICK S : p \in Seq(S)
  BY DEF IsSeq
<1>2. p \in Seq(S \union {e})
  BY <1>1
<1>3. Append(p, e) \in Seq(S \union {e})
  BY <1>2
<1> QED BY <1>2, <1>3 DEF IsSeq

LEMMA ReplacedSeq ==
  ASSUME NEW p, IsSeq(p), NEW j \in 1 .. Len(p), NEW e
  PROVE  /\ IsSeq([p EXCEPT ![j] = e]) /\ Len([p EXCEPT ![j] = e]) = Len(p)
         /\ DOMAIN p = 1 .. Len(p)
         /\ \A i \in 1 .. Len(p) : [p EXCEPT ![j] = e][i] = IF i = j THEN e ELSE p[i]
<1>1. PICK S : p \in Seq(S)
  BY DEF IsSeq
<1>2. p \in Seq(S \union {e})
  BY <1>1
<1>3. [p EXCEPT ![j] = e] \in Seq(S \union {e}) /\ Len([p EXCEPT ![j] = e]) = Len(p)
  BY <1>2
<1> QED BY <1>2, <1>3 DEF IsSeq

LEMMA Heights ==
  ASSUME TreeInv
  PROVE  /\ height \in 0 .. 29 /\ NumLeaves \in Nat \ {0} /\ numBlocks \in Nat \ {0} /\ numBlocks <= NumLeaves
         /\ \A h \in 0 .. height : 2 ^ h \in Nat \ {0} /\ 2 ^ h <= NumLeaves
         /\ 2 ^ 0 = 1
<1>1. height \in 0 .. 29 /\ numBlocks \in Nat \ {0} /\ numBlocks <= NumLeaves
  BY SizesAssumption DEF TreeInv, height, NumLeaves
<1>2. \A h \in 0 .. height : h \in 0 .. 29 /\ h <= height
  BY <1>1
<1>3. \A h \in 0 .. height : 2 ^ h \in Nat \ {0} /\ 2 ^ h <= NumLeaves
  BY <1>1, <1>2, PowersAssumption DEF NumLeaves
<1> QED BY <1>1, <1>3, PowersAssumption DEF NumLeaves

\* One step of checkProof goes from a node and its neighbour to the node above.
LEMMA Climb ==
  ASSUME TreeInv, todo < 0, NEW p, NEW c, PartOf(p, c, height, 0), NEW j \in 1 .. height
  PROVE  LET n == tree[At(height - j + 1, Pos(p, j))]
             s == tree[At(height - j + 1, Flip(Pos(p, j)))]
         IN  tree[At(height - j, Pos(p, j + 1))] =
               IF p[j + 1].path % 2 = 1 THEN hash(n, s) ELSE hash(s, n)
<1> DEFINE h == height - j + 1  q == Pos(p, j)  w == 2 ^ (h - 1)  x == w - 1 + (q \div 2)
<1>0. height \in 0 .. 29 /\ \A k \in 0 .. height : 2 ^ k \in Nat \ {0} /\ 2 ^ k <= NumLeaves
  BY Heights
<1>1. /\ h \in 1 .. 30 /\ h - 1 = height - j /\ h \in 0 .. height
      /\ Len(p) = height + 1 /\ j \in 1 .. Len(p) - 1 /\ j \in 1 .. Len(p)
  <2>1. Len(p) = height + 1
    BY <1>0 DEF PartOf
  <2> HIDE DEF w, x, q
  <2> QED BY <1>0, <2>1
<1>2. w \in Nat \ {0} /\ 2 ^ h = 2 * w /\ 2 * w <= NumLeaves
  <2>1. w \in Nat \ {0} /\ 2 ^ h = 2 * w
    BY <1>1, Halves
  <2> QED BY <1>0, <1>1, <2>1
<1>3. q \in 0 .. 2 * w - 1
  BY <1>1, <1>2 DEF PartOf
<1>4. p[j + 1].path = Flip(q)
  BY <1>1 DEF PartOf
<1>5. Pos(p, j + 1) = Flip(q) \div 2
  BY <1>1, <1>4 DEF Pos
<1>6. /\ Flip(q) \div 2 = q \div 2 /\ x \in 0 .. 2 * w - 2
      /\ q % 2 = 0 => Flip(q) % 2 = 1 /\ 2 * x + 1 = 2 * w - 1 + q /\ 2 * x + 2 = 2 * w - 1 + Flip(q)
      /\ q % 2 # 0 => Flip(q) % 2 = 0 /\ 2 * x + 2 = 2 * w - 1 + q /\ 2 * x + 1 = 2 * w - 1 + Flip(q)
  BY <1>2, <1>3, Neighbours
<1>7. x \in 0 .. NumLeaves - 2
  BY <1>2, <1>6, Heights
<1>8. tree[x] = hash(tree[2 * x + 1], tree[2 * x + 2])
  BY <1>7 DEF TreeInv
<1>9. At(height - j, Pos(p, j + 1)) = x /\ At(h, q) = 2 * w - 1 + q /\ At(h, Flip(q)) = 2 * w - 1 + Flip(q)
  BY <1>1, <1>2, <1>5, <1>6 DEF At
<1>10. tree[x] = IF Flip(q) % 2 = 1 THEN hash(tree[At(h, q)], tree[At(h, Flip(q))])
                                   ELSE hash(tree[At(h, Flip(q))], tree[At(h, q)])
  BY <1>6, <1>8, <1>9
<1> QED BY <1>4, <1>9, <1>10

\* The node that a proof begins with stands at the challenged leaf.
LEMMA Leaf ==
  ASSUME TreeInv, NEW p, NEW c \in 0 .. numBlocks - 1, NEW l, p[1].path = c
  PROVE  /\ At(height, Pos(p, 1)) = NumLeaves - 1 + c
         /\ c \in DOMAIN leaves /\ tree[NumLeaves - 1 + c] = leaves[c]
         /\ m_tree[NumLeaves - 1 + c] # Empty /\ NumLeaves - 1 + c \in Nodes
<1>1. NumLeaves \in Nat \ {0} /\ numBlocks \in Nat \ {0} /\ numBlocks <= NumLeaves
  BY Heights
<1>2. At(height, Pos(p, 1)) = NumLeaves - 1 + c
  BY DEF At, Pos, NumLeaves
<1>3. c \in DOMAIN leaves /\ NumLeaves - 1 + c \in Nodes
  BY <1>1 DEF TreeInv, Nodes
<1> QED BY <1>2, <1>3 DEF TreeInv

\* And the one that it ends with stands at the root.
LEMMA Top ==
  ASSUME TreeInv, NEW p, NEW c, PartOf(p, c, height, 0)
  PROVE  At(height - (height + 1) + 1, Pos(p, height + 1)) = 0
<1>1. height \in 0 .. 29 /\ 2 ^ 0 = 1
  BY Heights
<1>2. Len(p) = height + 1 /\ height + 1 \in 1 .. Len(p) /\ height - (height + 1) + 1 = 0
  BY <1>1 DEF PartOf
<1>3. Pos(p, height + 1) \in 0 .. 2 ^ 0 - 1
  BY <1>2 DEF PartOf
<1> QED BY <1>1, <1>2, <1>3 DEF At

LEMMA SameTree ==
  ASSUME UNCHANGED numBlocks
  PROVE  height' = height /\ NumLeaves' = NumLeaves /\ Nodes' = Nodes
BY DEF height, NumLeaves, Nodes

\* Before the challenges are all there, no proof is being made or checked.
LEMMA Phases ==
  ASSUME IInv
  PROVE  /\ ~ Challenged => current = <<>>
         /\ ~ Proved => checking = 0 /\ verdict = "none"
         /\ current # <<>> => todo < 0 /\ checking = 0 /\ verdict = "none"
         /\ DOMAIN proofs = 1 .. Len(proofs) /\ DOMAIN challenges = 1 .. Len(challenges)
         /\ Len(proofs) \in Nat /\ Len(challenges) \in Nat
<1>1. IsSeq(proofs) /\ IsSeq(challenges)
  BY DEF IInv, ProofsInv
<1>2. /\ DOMAIN proofs = 1 .. Len(proofs) /\ DOMAIN challenges = 1 .. Len(challenges)
      /\ Len(proofs) \in Nat /\ Len(challenges) \in Nat
  BY <1>1, AppendedSeq
<1> QED BY <1>2 DEF IInv, ProofsInv, CheckInv, Challenged, Proved

LEMMA InitIInv == Init => IInv
<1> SUFFICES ASSUME Init PROVE IInv
  OBVIOUS
<1>1. numBlocks \in Sizes /\ height \in 0 .. 29 /\ NumLeaves \in Nat \ {0} /\ todo = NumLeaves - 2
  BY SizesAssumption, PowersAssumption DEF Init, height, NumLeaves
<1>2. PICK ours, theirs \in [0 .. numBlocks - 1 -> Blocks] :
         leaves = pad(ours, numBlocks) /\ held = pad(theirs, numBlocks)
  BY DEF Init
<1>3. /\ DOMAIN leaves = 0 .. NumLeaves - 1 /\ DOMAIN held = 0 .. NumLeaves - 1
      /\ \A y \in 0 .. NumLeaves - 1 : leaves[y] # Empty /\ held[y] # Empty
  BY <1>2 DEF pad, height, NumLeaves, HashOf, Empty
<1>4. /\ DOMAIN tree = Nodes /\ DOMAIN m_tree = Nodes
      /\ \A x \in Nodes : /\ tree[x] = IF x >= NumLeaves - 1 THEN leaves[x - (NumLeaves - 1)] ELSE Empty
                          /\ m_tree[x] = IF x >= NumLeaves - 1 THEN held[x - (NumLeaves - 1)] ELSE Empty
  BY DEF Init, WithLeaves, height, NumLeaves, Nodes
<1>5. TreeInv
  <2>1. \A y \in DOMAIN leaves : leaves[y] # Empty /\ tree[NumLeaves - 1 + y] = leaves[y]
                                 /\ m_tree[NumLeaves - 1 + y] # Empty
    BY <1>1, <1>3, <1>4 DEF Nodes
  <2>2. \A x \in 0 .. NumLeaves - 2 : x <= todo /\ tree[x] = Empty
    BY <1>1, <1>4 DEF Nodes
  <2> QED BY <1>1, <1>3, <1>4, <2>1, <2>2 DEF TreeInv
<1>6. /\ challenges = <<>> /\ proofs = <<>> /\ current = <<>> /\ checking = 0 /\ verdict = "none"
      /\ Len(challenges) = 0 /\ Len(proofs) = 0 /\ IsSeq(challenges) /\ IsSeq(proofs)
  <2>1. <<>> \in Seq({}) /\ Len(<<>>) = 0
    OBVIOUS
  <2> QED BY <2>1 DEF Init, IsSeq
<1>7. ProofsInv /\ CheckInv
  BY <1>6 DEF ProofsInv, CheckInv
<1>8. HonestInv
  BY <1>1, <1>3, <1>4, <1>6 DEF HonestInv, Nodes
<1> QED BY <1>5, <1>7, <1>8 DEF IInv

----------------------------------------------------------------------------
LEMMA MakeNodeIInv == IInv /\ MakeNode => IInv'
<1> SUFFICES ASSUME IInv, MakeNode PROVE IInv'
  OBVIOUS
<1>1. /\ todo \in 0 .. NumLeaves - 2 /\ todo' = todo - 1 /\ NumLeaves \in Nat \ {0}
      /\ tree' = [tree EXCEPT ![todo] = hash(tree[2 * todo + 1], tree[2 * todo + 2])]
      /\ UNCHANGED <<numBlocks, leaves, m_tree, NumLeaves, Nodes, height>>
  <2>1. NumLeaves \in Nat \ {0} /\ todo \in -1 .. NumLeaves - 2 /\ todo >= 0
    BY Heights DEF MakeNode, IInv, TreeInv
  <2>2. UNCHANGED <<numBlocks, leaves, m_tree, NumLeaves, Nodes, height>>
    BY SameTree DEF MakeNode, proverVars
  <2> QED BY <2>1, <2>2 DEF MakeNode
<1>2. /\ challenges = <<>> /\ current = <<>> /\ Len(challenges) = 0 /\ Len(proofs) = 0
      /\ checking = 0 /\ verdict = "none" /\ IsSeq(challenges) /\ IsSeq(proofs)
  <2>1. challenges = <<>> /\ ~ Challenged /\ ~ Proved
    BY <1>1 DEF IInv, ProofsInv, Challenged, Proved
  <2>2. Len(challenges) = 0 /\ Len(proofs) <= Len(challenges)
    BY <2>1 DEF IInv, ProofsInv
  <2> QED BY <2>1, <2>2, Phases DEF IInv, ProofsInv
<1>3. UNCHANGED <<challenges, current, checking, verdict, proofs, held, damaged>>
  BY DEF MakeNode, proverVars, verifierVars
<1>4. /\ DOMAIN tree' = Nodes
      /\ \A x \in Nodes : tree'[x] = IF x = todo THEN hash(tree[2 * todo + 1], tree[2 * todo + 2])
                                                 ELSE tree[x]
  BY <1>1 DEF IInv, TreeInv
<1>5. TreeInv'
  <2>1. \A y \in DOMAIN leaves : NumLeaves - 1 + y \in Nodes /\ NumLeaves - 1 + y # todo
    BY <1>1 DEF IInv, TreeInv, Nodes
  <2>2. \A y \in DOMAIN leaves : tree'[NumLeaves - 1 + y] = leaves[y]
    BY <1>4, <2>1 DEF IInv, TreeInv
  <2>3. ASSUME NEW x \in 0 .. NumLeaves - 2
        PROVE  tree'[x] = IF x <= todo' THEN Empty ELSE hash(tree'[2 * x + 1], tree'[2 * x + 2])
    <3>1. x \in Nodes /\ 2 * x + 1 \in Nodes /\ 2 * x + 2 \in Nodes
      BY <1>1 DEF Nodes
    <3>2. CASE x < todo
      BY <1>1, <1>4, <3>1, <3>2 DEF IInv, TreeInv
    <3>3. CASE x >= todo
      <4>1. 2 * x + 1 # todo /\ 2 * x + 2 # todo /\ ~ x <= todo' /\ (x # todo => ~ x <= todo)
        BY <1>1, <3>3
      <4>2. tree'[2 * x + 1] = tree[2 * x + 1] /\ tree'[2 * x + 2] = tree[2 * x + 2]
        BY <1>4, <3>1, <4>1
      <4>3. tree'[x] = hash(tree[2 * x + 1], tree[2 * x + 2])
        BY <1>4, <3>1, <4>1 DEF IInv, TreeInv
      <4> QED BY <4>1, <4>2, <4>3
    <3> QED BY <1>1, <3>2, <3>3
  <2>4. todo' \in -1 .. NumLeaves - 2
    BY <1>1
  <2> QED BY <1>1, <1>4, <2>2, <2>3, <2>4 DEF IInv, TreeInv
<1>6. ProofsInv' /\ CheckInv'
  BY <1>2, <1>3 DEF ProofsInv, CheckInv
<1>7. HonestInv'
  <2> SUFFICES ASSUME held = leaves, ~ damaged
               PROVE  \A x \in Nodes : m_tree[x] # Empty => x > todo' /\ m_tree[x] = tree'[x]
    BY <1>1, <1>2, <1>3 DEF HonestInv
  <2>1. \A x \in Nodes : m_tree[x] # Empty => x > todo /\ m_tree[x] = tree[x]
    BY DEF IInv, HonestInv
  <2> QED BY <1>1, <1>4, <2>1 DEF Nodes
<1> QED BY <1>5, <1>6, <1>7 DEF IInv

LEMMA DrawIInv ==
  ASSUME IInv, NEW rand \in 0 .. numBlocks - 1, NEW pushed \in 0 .. numBlocks - 1, Draw(rand, pushed)
  PROVE  IInv'
<1>1. ~ todo >= 0 /\ ~ Challenged /\ challenges' = Append(challenges, pushed)
  <2>1. nChallenges(numBlocks) \in Int /\ Len(challenges) \in Int /\ todo \in Int
    BY Heights, Phases, ChallengesAssumption DEF IInv, TreeInv, nChallenges
  <2> QED BY <2>1 DEF Draw, Challenged
<1>2. UNCHANGED <<numBlocks, leaves, tree, todo, held, m_tree, current, proofs, damaged, checking,
                  reached, node, verdict, height, NumLeaves, Nodes>>
  BY SameTree DEF Draw, treeVars, proverVars, verifierVars
<1>3. current = <<>> /\ checking = 0 /\ verdict = "none" /\ Len(proofs) \in Nat
  BY <1>1, Phases DEF Proved
<1>4. TreeInv'
  BY <1>2 DEF IInv, TreeInv
<1>5. /\ IsSeq(challenges') /\ Len(challenges') = Len(challenges) + 1 /\ Len(challenges) \in Nat
      /\ \A k \in 1 .. Len(challenges) : challenges'[k] = challenges[k]
      /\ challenges'[Len(challenges) + 1] = pushed
  BY <1>1, AppendedSeq DEF IInv, ProofsInv
<1>6. ProofsInv'
  <2>1. \A k \in 1 .. Len(challenges') : challenges'[k] \in 0 .. numBlocks - 1
    BY <1>5 DEF IInv, ProofsInv
  <2>2. Len(proofs) <= Len(challenges) /\ Len(proofs) <= Len(challenges')
    BY <1>3, <1>5 DEF IInv, ProofsInv
  <2>3. \A k \in 1 .. Len(proofs) : challenges'[k] = challenges[k] /\ PartOf(proofs[k], challenges[k], height, 0)
    BY <1>3, <1>5, <2>2 DEF IInv, ProofsInv
  <2> QED BY <1>1, <1>2, <1>3, <1>5, <2>1, <2>2, <2>3 DEF IInv, ProofsInv
<1>7. CheckInv'
  BY <1>2, <1>3 DEF CheckInv
<1>8. HonestInv'
  BY <1>2, <1>3 DEF IInv, HonestInv
<1> QED BY <1>4, <1>6, <1>7, <1>8 DEF IInv

LEMMA StartProofIInv == IInv /\ StartProof => IInv'
<1> SUFFICES ASSUME IInv, StartProof PROVE IInv'
  OBVIOUS
<1> DEFINE c == challenges[Len(proofs) + 1]
<1>1. /\ Challenged /\ current = <<>> /\ Len(proofs) < Len(challenges) /\ ~ Proved
      /\ current' = <<[node |-> m_tree[NumLeaves - 1 + c], path |-> c]>> /\ path' = c /\ level' = height
      /\ Len(proofs) \in Nat /\ Len(challenges) \in Nat
  <2>1. Len(proofs) \in Nat /\ Len(challenges) \in Nat
    BY Phases
  <2>2. Challenged /\ current = <<>> /\ Len(proofs) < Len(challenges) /\ ~ Proved
    BY <2>1 DEF StartProof, Proved
  <2>3. current' = <<[node |-> m_tree[NumLeaves - 1 + c], path |-> c]>> /\ path' = c /\ level' = height
    BY DEF StartProof, Chunk
  <2> QED BY <2>1, <2>2, <2>3
<1>2. UNCHANGED <<numBlocks, leaves, tree, todo, held, m_tree, challenges, proofs, damaged, checking,
                  reached, node, verdict, height, NumLeaves, Nodes, Challenged>>
  BY SameTree DEF StartProof, treeVars, verifierVars, Challenged
<1>3. checking = 0 /\ verdict = "none"
  BY <1>1, Phases
<1>4. TreeInv'
  BY <1>2 DEF IInv, TreeInv
<1>5. c \in 0 .. numBlocks - 1
  <2>1. Len(proofs) + 1 \in 1 .. Len(challenges)
    BY <1>1
  <2> QED BY <2>1 DEF IInv, ProofsInv
<1>6. height \in 0 .. 29 /\ NumLeaves \in Nat \ {0} /\ c \in 0 .. 2 ^ height - 1
  BY <1>5, Heights DEF IInv, NumLeaves
<1>7. /\ IsSeq(current') /\ Len(current') = 1 /\ current'[1] = [node |-> m_tree[NumLeaves - 1 + c], path |-> c]
      /\ Pos(current', 1) = c /\ current' # <<>>
  <2> HIDE DEF c
  <2>1. current' \in Seq({[node |-> m_tree[NumLeaves - 1 + c], path |-> c]})
    BY <1>1
  <2> QED BY <1>1, <2>1 DEF Pos, IsSeq
<1>8. PartOf(current', c, height, height)
  <2> HIDE DEF c
  <2>1. Len(current') = height - height + 1 /\ height - 1 + 1 = height
    BY <1>6, <1>7
  <2> QED BY <1>6, <1>7, <2>1 DEF PartOf
<1>9. ProofsInv'
  <2>1. level' \in 0 .. height
    BY <1>1, <1>6
  <2>2. path' = Pos(current', Len(current'))
    BY <1>1, <1>7
  <2> QED BY <1>1, <1>2, <1>8, <2>1, <2>2 DEF IInv, ProofsInv
<1>10. CheckInv'
  BY <1>2, <1>3 DEF CheckInv, IInv, Computed
<1>11. HonestInv'
  <2> SUFFICES ASSUME held = leaves, ~ damaged PROVE Right(current', tree, height)
    BY <1>2, <1>3 DEF IInv, HonestInv
  <2>1. At(height, Pos(current', 1)) = NumLeaves - 1 + c /\ m_tree[NumLeaves - 1 + c] # Empty
        /\ NumLeaves - 1 + c \in Nodes
    BY <1>5, <1>7, Leaf DEF IInv
  <2>2. m_tree[NumLeaves - 1 + c] = tree[NumLeaves - 1 + c]
    BY <2>1 DEF IInv, HonestInv
  <2> HIDE DEF c
  <2> QED BY <1>7, <2>1, <2>2 DEF Right
<1> QED BY <1>4, <1>9, <1>10, <1>11 DEF IInv

LEMMA ComputeSubTreeIInv == ASSUME IInv, NEW x \in Nodes, ComputeSubTree(x) PROVE IInv'
<1>1. /\ current # <<>> /\ x < NumLeaves - 1 /\ m_tree[2 * x + 1] # Empty /\ m_tree[2 * x + 2] # Empty
      /\ m_tree' = [m_tree EXCEPT ![x] = hash(m_tree[2 * x + 1], m_tree[2 * x + 2])]
  BY DEF ComputeSubTree, SubTree
<1>2. UNCHANGED <<numBlocks, leaves, tree, todo, held, current, path, level, challenges, proofs, damaged, checking,
                  reached, node, verdict, height, NumLeaves, Nodes, Challenged>>
  BY SameTree DEF ComputeSubTree, treeVars, verifierVars, Challenged
<1>3. todo < 0 /\ checking = 0 /\ verdict = "none" /\ NumLeaves \in Nat \ {0}
  BY <1>1, Phases, Heights DEF IInv
<1>4. /\ DOMAIN m_tree' = Nodes
      /\ \A z \in Nodes : m_tree'[z] = IF z = x THEN hash(m_tree[2 * x + 1], m_tree[2 * x + 2]) ELSE m_tree[z]
  BY <1>1 DEF IInv, TreeInv
<1>5. TreeInv'
  <2>1. \A y \in DOMAIN leaves : NumLeaves - 1 + y \in Nodes /\ NumLeaves - 1 + y # x
    BY <1>1, <1>3 DEF IInv, TreeInv, Nodes
  <2>2. \A y \in DOMAIN leaves : m_tree'[NumLeaves - 1 + y] # Empty
    BY <1>4, <2>1 DEF IInv, TreeInv
  <2> QED BY <1>2, <1>4, <2>2 DEF IInv, TreeInv
<1>6. ProofsInv'
  BY <1>2 DEF IInv, ProofsInv
<1>7. CheckInv'
  BY <1>2, <1>3 DEF CheckInv, IInv
<1>8. HonestInv'
  <2> SUFFICES ASSUME held = leaves, ~ damaged
               PROVE  \A z \in Nodes : m_tree'[z] # Empty => z > todo /\ m_tree'[z] = tree[z]
    BY <1>2, <1>3 DEF IInv, HonestInv
  <2>1. \A z \in Nodes : m_tree[z] # Empty => z > todo /\ m_tree[z] = tree[z]
    BY DEF IInv, HonestInv
  <2>2. x \in 0 .. NumLeaves - 2 /\ 2 * x + 1 \in Nodes /\ 2 * x + 2 \in Nodes /\ ~ x <= todo /\ x > todo
    BY <1>1, <1>3 DEF Nodes, IInv, TreeInv
  <2>3. tree[x] = hash(m_tree[2 * x + 1], m_tree[2 * x + 2])
    BY <1>1, <2>1, <2>2 DEF IInv, TreeInv
  <2> QED BY <1>4, <2>1, <2>2, <2>3
<1> QED BY <1>5, <1>6, <1>7, <1>8 DEF IInv

LEMMA PushNeighbourIInv == IInv /\ PushNeighbour => IInv'
<1> SUFFICES ASSUME IInv, PushNeighbour PROVE IInv'
  OBVIOUS
<1> DEFINE c == challenges[Len(proofs) + 1]
           next == [node |-> m_tree[Neighbour], path |-> Flip(path)]
           n == Len(current)
<1>1. /\ current # <<>> /\ level >= 1 /\ m_tree[Neighbour] # Empty
      /\ current' = Append(current, next) /\ path' = Flip(path) \div 2 /\ level' = level - 1
  BY DEF PushNeighbour
<1>2. UNCHANGED <<numBlocks, leaves, tree, todo, held, m_tree, challenges, proofs, damaged, checking,
                  reached, node, verdict, height, NumLeaves, Nodes, Challenged>>
  BY SameTree DEF PushNeighbour, treeVars, verifierVars, Challenged
<1>3. checking = 0 /\ verdict = "none" /\ todo < 0
  BY <1>1, Phases
<1>4. TreeInv'
  BY <1>2 DEF IInv, TreeInv
<1>5. /\ Challenged /\ Len(proofs) < Len(challenges) /\ level \in 1 .. height
      /\ PartOf(current, c, height, level) /\ path = Pos(current, n)
  <2>1. height \in Nat
    BY Heights DEF IInv
  <2> QED BY <1>1, <2>1 DEF IInv, ProofsInv
<1>6. /\ IsSeq(current') /\ n \in Nat /\ n = height - level + 1 /\ Len(current') = n + 1
      /\ \A j \in 1 .. n : current'[j] = current[j]
      /\ current'[n + 1] = next /\ current' # <<>>
  <2> HIDE DEF c, next
  <2>1. IsSeq(current) /\ Len(current) = height - level + 1
    BY <1>5 DEF PartOf
  <2> QED BY <1>1, <2>1, AppendedSeq
<1>7. /\ height \in 0 .. 29 /\ n \in 1 .. height
      /\ height - n + 1 = level /\ height - (n + 1) + 1 = level - 1
  <2> HIDE DEF n, c, next
  <2>1. height \in 0 .. 29
    BY Heights DEF IInv
  <2> QED BY <1>5, <1>6, <2>1
<1>8. /\ 2 ^ (level - 1) \in Nat \ {0} /\ 2 ^ level = 2 * 2 ^ (level - 1) /\ 2 ^ level <= NumLeaves
      /\ NumLeaves \in Nat
  <2>1. level \in 1 .. 30 /\ level \in 0 .. height
    BY <1>5, <1>7
  <2> QED BY <2>1, Halves, Heights DEF IInv
<1>9. path \in 0 .. 2 ^ level - 1
  <2>1. n \in 1 .. Len(current)
    BY <1>7
  <2> QED BY <1>5, <1>7, <2>1 DEF PartOf
<1>10. /\ path' \in 0 .. 2 ^ (level - 1) - 1 /\ Flip(path) \in 0 .. 2 ^ level - 1 /\ Neighbour \in Nodes
       /\ Neighbour = At(level, Flip(path))
  <2> DEFINE w == 2 ^ (level - 1)
  <2>1. w \in Nat \ {0} /\ path \in 0 .. 2 * w - 1
    BY <1>8, <1>9
  <2>2. path \div 2 \in 0 .. w - 1 /\ Flip(path) \in 0 .. 2 * w - 1 /\ Flip(path) \div 2 = path \div 2
    <3> HIDE DEF w
    <3> QED BY <2>1, Neighbours
  <2>3. Neighbour = 2 ^ level - 1 + Flip(path)
    BY DEF Neighbour
  <2> HIDE DEF w
  <2>4. Neighbour \in Nodes
    BY <1>8, <2>1, <2>2, <2>3 DEF Nodes, w
  <2> QED BY <1>1, <1>8, <2>2, <2>3, <2>4 DEF At, w
<1>11. \A j \in 1 .. n : Pos(current', j) = Pos(current, j)
  BY <1>6 DEF Pos
<1>12. Pos(current', n + 1) = path'
  <2>1. n + 1 # 1
    BY <1>7
  <2> QED BY <1>1, <1>6, <2>1 DEF Pos
<1>13. PartOf(current', c, height, level - 1)
  <2> HIDE DEF c, n
  <2>1. Len(current') = height - (level - 1) + 1 /\ 1 \in 1 .. n
    BY <1>5, <1>6, <1>7
  <2>2. ASSUME NEW j \in 1 .. Len(current')
        PROVE  DOMAIN current'[j] = {"node", "path"} /\ Pos(current', j) \in 0 .. 2 ^ (height - j + 1) - 1
    <3>1. CASE j = n + 1
      BY <1>6, <1>7, <1>10, <1>12, <3>1
    <3>2. CASE j \in 1 .. n
      BY <1>5, <1>6, <1>11, <3>2 DEF PartOf, n
    <3> QED BY <1>6, <3>1, <3>2
  <2>3. ASSUME NEW j \in 1 .. Len(current') - 1
        PROVE  current'[j + 1].path = Flip(Pos(current', j))
    <3>1. CASE j = n
      BY <1>5, <1>6, <1>7, <1>11, <3>1
    <3>2. CASE j \in 1 .. n - 1
      <4>1. j + 1 \in 1 .. n /\ j \in 1 .. n
        BY <1>7, <3>2
      <4>2. current[j + 1].path = Flip(Pos(current, j))
        BY <1>5, <3>2 DEF PartOf, n
      <4> QED BY <1>6, <1>11, <4>1, <4>2
    <3> QED BY <1>6, <3>1, <3>2
  <2>4. current'[1].path = c
    BY <1>5, <1>6, <2>1 DEF PartOf
  <2> QED BY <1>6, <2>1, <2>2, <2>3, <2>4 DEF PartOf
<1>14. ProofsInv'
  <2>1. level' \in 0 .. height
    BY <1>1, <1>5, <1>7
  <2>2. path' = Pos(current', Len(current'))
    BY <1>6, <1>12
  <2> QED BY <1>1, <1>2, <1>5, <1>13, <2>1, <2>2 DEF IInv, ProofsInv
<1>15. CheckInv'
  BY <1>2, <1>3 DEF CheckInv, IInv
<1>16. HonestInv'
  <2> SUFFICES ASSUME held = leaves, ~ damaged PROVE Right(current', tree, height)
    BY <1>2, <1>3 DEF IInv, HonestInv
  <2>1. m_tree[Neighbour] = tree[Neighbour] /\ Right(current, tree, height)
    BY <1>1, <1>10 DEF IInv, HonestInv
  <2>2. next.node = tree[At(height - n + 1, Flip(Pos(current', n)))]
    BY <1>5, <1>7, <1>10, <1>11, <2>1
  <2> HIDE DEF c, next, n
  <2>3. ASSUME NEW j \in 1 .. Len(current') - 1
        PROVE  current'[j + 1].node = tree[At(height - j + 1, Flip(Pos(current', j)))]
    <3>1. CASE j = n
      BY <1>6, <2>2, <3>1
    <3>2. CASE j \in 1 .. n - 1
      <4>1. j + 1 \in 1 .. n /\ j \in 1 .. n
        BY <1>7, <3>2
      <4>2. current[j + 1].node = tree[At(height - j + 1, Flip(Pos(current, j)))]
        BY <2>1, <3>2 DEF Right, n
      <4> QED BY <1>6, <1>11, <4>1, <4>2
    <3> QED BY <1>6, <3>1, <3>2
  <2>4. current'[1].node = tree[At(height, Pos(current', 1))]
    BY <1>6, <1>7, <1>11, <2>1 DEF Right
  <2> QED BY <2>3, <2>4 DEF Right
<1> QED BY <1>4, <1>14, <1>15, <1>16 DEF IInv

LEMMA FinishProofIInv == IInv /\ FinishProof => IInv'
<1> SUFFICES ASSUME IInv, FinishProof PROVE IInv'
  OBVIOUS
<1> DEFINE n == Len(proofs)
<1>1. current # <<>> /\ level = 0 /\ proofs' = Append(proofs, current) /\ current' = <<>>
  BY DEF FinishProof
<1>2. UNCHANGED <<numBlocks, leaves, tree, todo, held, m_tree, challenges, damaged, checking,
                  reached, node, verdict, height, NumLeaves, Nodes, Challenged>>
  BY SameTree DEF FinishProof, treeVars, verifierVars, Challenged
<1>3. checking = 0 /\ verdict = "none"
  BY <1>1, Phases
<1>4. TreeInv'
  BY <1>2 DEF IInv, TreeInv
<1>5. n < Len(challenges) /\ PartOf(current, challenges[n + 1], height, 0) /\ Len(challenges) \in Nat
  BY <1>1, Phases DEF IInv, ProofsInv
<1>6. /\ IsSeq(proofs') /\ n \in Nat /\ Len(proofs') = n + 1
      /\ \A k \in 1 .. n : proofs'[k] = proofs[k]
      /\ proofs'[n + 1] = current
  BY <1>1, AppendedSeq DEF IInv, ProofsInv
<1> HIDE DEF n
<1>7. \A k \in 1 .. n + 1 : k = n + 1 \/ k \in 1 .. n
  BY <1>6
<1>8. ProofsInv'
  <2>1. \A k \in 1 .. n : PartOf(proofs[k], challenges[k], height, 0)
    BY DEF IInv, ProofsInv, n
  <2>2. \A k \in 1 .. Len(proofs') : PartOf(proofs'[k], challenges[k], height, 0)
    BY <1>5, <1>6, <1>7, <2>1
  <2>3. Len(proofs') <= Len(challenges)
    BY <1>5, <1>6
  <2> QED BY <1>1, <1>2, <1>6, <2>2, <2>3 DEF IInv, ProofsInv
<1>9. CheckInv'
  <2>1. \A k \in 1 .. Len(proofs') : ~ k < checking
    BY <1>3, <1>6
  <2> QED BY <1>2, <1>3, <1>6, <2>1 DEF CheckInv
<1>10. HonestInv'
  <2>1. ASSUME held = leaves, ~ damaged
        PROVE  \A k \in 1 .. Len(proofs') : Right(proofs'[k], tree, height)
    <3>1. Right(current, tree, height) /\ \A k \in 1 .. n : Right(proofs[k], tree, height)
      BY <1>1, <2>1 DEF IInv, HonestInv, n
    <3> QED BY <1>6, <1>7, <3>1
  <2> QED BY <1>1, <1>2, <1>3, <2>1 DEF IInv, HonestInv
<1> QED BY <1>4, <1>8, <1>9, <1>10 DEF IInv

LEMMA DamageIInv ==
  ASSUME IInv, NEW k \in DOMAIN proofs, NEW j \in DOMAIN proofs[k], NEW block \in Blocks,
         Damage(k, j, block)
  PROVE  IInv'
<1> DEFINE p == proofs[k]
           e == [node |-> HashOf(block), path |-> p[j].path]
           q == [p EXCEPT ![j] = e]
<1>1. checking = 0 /\ damaged' = TRUE /\ proofs' = [proofs EXCEPT ![k] = q] /\ Proved
  BY DEF Damage
<1>2. UNCHANGED <<numBlocks, leaves, tree, todo, held, m_tree, challenges, current, path, level, checking,
                  reached, node, verdict, height, NumLeaves, Nodes, Challenged>>
  BY SameTree DEF Damage, treeVars, proverVars, verifierVars, Challenged
<1>3. verdict = "none" /\ k \in 1 .. Len(proofs)
  BY <1>1, Phases DEF IInv, CheckInv
<1>4. TreeInv'
  BY <1>2 DEF IInv, TreeInv
<1>5. PartOf(p, challenges[k], height, 0)
  BY <1>3 DEF IInv, ProofsInv
<1>6. /\ IsSeq(proofs') /\ Len(proofs') = Len(proofs)
      /\ \A i \in 1 .. Len(proofs) : proofs'[i] = IF i = k THEN q ELSE proofs[i]
  <2> HIDE DEF q
  <2> QED BY <1>1, <1>3, ReplacedSeq DEF IInv, ProofsInv
<1>7. j \in 1 .. Len(p) /\ IsSeq(p)
  <2>1. IsSeq(p)
    BY <1>5 DEF PartOf
  <2> HIDE DEF p
  <2>2. DOMAIN p = 1 .. Len(p)
    BY <2>1, AppendedSeq
  <2> QED BY <2>1, <2>2 DEF p
<1>8. DOMAIN e = {"node", "path"} /\ e.path = p[j].path
  OBVIOUS
<1>9. /\ IsSeq(q) /\ Len(q) = Len(p)
      /\ \A i \in 1 .. Len(p) : q[i] = IF i = j THEN e ELSE p[i]
  <2> HIDE DEF e, p
  <2> QED BY <1>7, ReplacedSeq
<1>10. PartOf(q, challenges[k], height, 0)
  <2> HIDE DEF p, q, e
  <2>0. height \in Nat /\ Len(p) = height + 1
    <3>1. height \in Nat
      BY Heights DEF IInv
    <3> QED BY <1>5, <3>1 DEF PartOf
  <2>1. \A i \in 1 .. Len(p) : q[i].path = p[i].path /\ DOMAIN q[i] = {"node", "path"}
    BY <1>5, <1>8, <1>9 DEF PartOf
  <2>2. \A i \in 1 .. Len(p) : Pos(q, i) = Pos(p, i)
    BY <2>1 DEF Pos
  <2>3. q[1].path = challenges[k] /\ \A i \in 1 .. Len(p) - 1 : q[i + 1].path = Flip(Pos(q, i))
    <3>1. \A i \in 1 .. Len(p) - 1 : i \in 1 .. Len(p) /\ i + 1 \in 1 .. Len(p)
      BY <2>0
    <3>2. 1 \in 1 .. Len(p)
      BY <2>0
    <3> QED BY <1>5, <2>1, <2>2, <3>1, <3>2 DEF PartOf
  <2> QED BY <1>5, <1>9, <2>1, <2>2, <2>3 DEF PartOf
<1>11. ProofsInv'
  <2> HIDE DEF p, q, e
  <2>1. \A i \in 1 .. Len(proofs') : PartOf(proofs'[i], challenges[i], height, 0)
    BY <1>6, <1>10 DEF IInv, ProofsInv
  <2> QED BY <1>2, <1>6, <2>1 DEF IInv, ProofsInv
<1>12. CheckInv'
  <2> HIDE DEF p, q, e
  <2>1. \A i \in 1 .. Len(proofs) : ~ i < checking
    BY <1>1
  <2> QED BY <1>1, <1>2, <1>3, <1>6, <2>1 DEF CheckInv, IInv
<1>13. HonestInv'
  BY <1>1 DEF HonestInv
<1> QED BY <1>4, <1>11, <1>12, <1>13 DEF IInv

\* What holds of a proof that is about to be checked.
LEMMA Begins ==
  ASSUME IInv, Proved, NEW k \in 1 .. Len(proofs)
  PROVE  LET n == tree[At(height - 1 + 1, Pos(proofs[k], 1))]
         IN  /\ ~ Shows(k) => proofs[k][1].node # n
             /\ held = leaves /\ ~ damaged => proofs[k][1].node = n
<1>1. PartOf(proofs[k], challenges[k], height, 0) /\ challenges[k] \in 0 .. numBlocks - 1
  BY DEF IInv, ProofsInv, Proved
<1>2. height - 1 + 1 = height
  <2>1. height \in 0 .. 29
    BY Heights DEF IInv
  <2> QED BY <2>1
<1>3. tree[At(height, Pos(proofs[k], 1))] = leaves[challenges[k]]
  BY <1>1, Leaf DEF IInv, PartOf
<1>4. held = leaves /\ ~ damaged => proofs[k][1].node = tree[At(height, Pos(proofs[k], 1))]
  BY DEF IInv, HonestInv, Right
<1> QED BY <1>2, <1>3, <1>4 DEF Shows

\* The verifier's steps leave everything else alone.
LEMMA OnlyVerifier ==
  ASSUME IInv, UNCHANGED <<treeVars, challenges, proverVars, proofs, damaged>>
  PROVE  /\ TreeInv' /\ ProofsInv' /\ Proved' = Proved /\ height' = height
         /\ \A k : Shows(k)' = Shows(k)
         /\ held = leaves /\ ~ damaged =>
              /\ \A x \in Nodes' : m_tree'[x] # Empty => x > todo' /\ m_tree'[x] = tree'[x]
              /\ \A k \in 1 .. Len(proofs') : Right(proofs'[k], tree', height')
              /\ current' # <<>> => Right(current', tree', height')
<1>1. UNCHANGED <<numBlocks, leaves, tree, todo, held, m_tree, current, path, level, challenges, proofs,
                  damaged, height, NumLeaves, Nodes, Challenged>>
  BY SameTree DEF treeVars, proverVars, Challenged
<1>2. TreeInv' /\ ProofsInv' /\ Proved' = Proved /\ height' = height
  BY <1>1 DEF IInv, TreeInv, ProofsInv, Proved
<1>3. \A k : Shows(k)' = Shows(k)
  BY <1>1 DEF Shows
<1> QED BY <1>1, <1>2, <1>3 DEF IInv, HonestInv

LEMMA StartCheckingIInv == IInv /\ StartChecking => IInv'
<1> SUFFICES ASSUME IInv, StartChecking PROVE IInv'
  OBVIOUS
<1>1. /\ Proved /\ checking = 0 /\ checking' = 1 /\ reached' = 1 /\ node' = proofs[1][1].node
      /\ UNCHANGED <<treeVars, challenges, proverVars, proofs, damaged, verdict>>
  BY DEF StartChecking, Goto
<1>2. 1 \in 1 .. Len(proofs) /\ current = <<>> /\ verdict = "none" /\ height \in Nat
  <2>1. Len(proofs) = nChallenges(numBlocks) /\ numBlocks \in Nat \ {0} /\ NUM_CHALLENGES \in Nat \ {0}
    BY <1>1, Heights, ChallengesAssumption DEF Proved, Challenged, IInv
  <2>2. current # <<>> => Len(proofs) < Len(challenges) /\ Len(proofs) \in Nat /\ Len(challenges) \in Nat
    BY Phases DEF IInv, ProofsInv
  <2>3. Len(proofs) = Len(challenges) /\ verdict = "none"
    BY <1>1 DEF Proved, IInv, CheckInv
  <2>4. height \in Nat
    BY Heights DEF IInv
  <2> QED BY <2>1, <2>2, <2>3, <2>4 DEF nChallenges
<1>3. /\ TreeInv' /\ ProofsInv' /\ Proved' /\ UNCHANGED <<height, proofs, tree, current, verdict, held, leaves, damaged>>
      /\ \A k : Shows(k)' = Shows(k)
  BY <1>1, OnlyVerifier DEF treeVars, proverVars
<1>4. /\ ~ Shows(1) => node' # Computed'
      /\ held = leaves /\ ~ damaged => node' = Computed'
  BY <1>1, <1>2, <1>3, Begins DEF Computed
<1>5. CheckInv'
  BY <1>1, <1>2, <1>3, <1>4 DEF CheckInv
<1>6. HonestInv'
  BY <1>1, <1>2, <1>3, <1>4, OnlyVerifier DEF HonestInv
<1> QED BY <1>3, <1>5, <1>6 DEF IInv

LEMMA CombineIInv == IInv /\ Combine => IInv'
<1> SUFFICES ASSUME IInv, Combine PROVE IInv'
  OBVIOUS
<1> DEFINE p == proofs[checking]
<1>1. /\ checking # 0 /\ verdict = "none" /\ reached < Len(p)
      /\ node' = combine(node, p[reached + 1]) /\ reached' = reached + 1
      /\ UNCHANGED <<treeVars, challenges, proverVars, proofs, damaged, checking, verdict>>
  BY DEF Combine
<1>2. /\ Proved /\ current = <<>> /\ checking \in 1 .. Len(proofs) /\ reached \in 1 .. height + 1
      /\ ~ Shows(checking) => node # Computed
  BY <1>1, Phases DEF IInv, CheckInv
<1>3. PartOf(p, challenges[checking], height, 0) /\ todo < 0
  BY <1>2 DEF IInv, ProofsInv, Proved, Challenged
<1>4. reached \in 1 .. height /\ height \in Nat /\ reached' \in 1 .. height + 1 /\ reached \in 1 .. Len(p) - 1
      /\ height - (reached + 1) + 1 = height - reached
  <2>1. Len(p) = height + 1 /\ height \in Nat
    <3>1. height \in Nat
      BY Heights DEF IInv
    <3> QED BY <1>3, <3>1 DEF PartOf
  <2> HIDE DEF p
  <2> QED BY <1>1, <1>2, <2>1
<1>5. /\ TreeInv' /\ ProofsInv' /\ Proved' /\ UNCHANGED <<height, proofs, tree, current, held, leaves, damaged, checking>>
      /\ \A k : Shows(k)' = Shows(k)
  BY <1>1, <1>2, OnlyVerifier DEF treeVars, proverVars
<1> DEFINE s == tree[At(height - reached + 1, Flip(Pos(p, reached)))]
           next == p[reached + 1]
<1>6. Computed' = tree[At(height - reached, Pos(p, reached + 1))]
  BY <1>1, <1>4, <1>5 DEF Computed
<1>7. Computed' = IF next.path % 2 = 1 THEN hash(Computed, s) ELSE hash(s, Computed)
  <2> HIDE DEF p
  <2>1. tree[At(height - reached, Pos(p, reached + 1))] =
          IF p[reached + 1].path % 2 = 1
          THEN hash(tree[At(height - reached + 1, Pos(p, reached))],
                    tree[At(height - reached + 1, Flip(Pos(p, reached)))])
          ELSE hash(tree[At(height - reached + 1, Flip(Pos(p, reached)))],
                    tree[At(height - reached + 1, Pos(p, reached))])
    BY <1>3, <1>4, Climb DEF IInv
  <2> QED BY <1>6, <2>1 DEF Computed, p
<1>8. node' = IF next.path % 2 = 1 THEN hash(node, next.node) ELSE hash(next.node, node)
  BY <1>1 DEF combine
<1>9. ~ Shows(checking) => node' # Computed'
  <2> HIDE DEF s, next
  <2> QED BY <1>2, <1>7, <1>8 DEF hash
<1>10. held = leaves /\ ~ damaged => node' = Computed'
  <2> SUFFICES ASSUME held = leaves, ~ damaged PROVE node' = Computed'
    OBVIOUS
  <2>1. node = Computed /\ Right(p, tree, height)
    BY <1>1, <1>2 DEF IInv, HonestInv
  <2>2. next.node = s
    BY <1>4, <2>1 DEF Right
  <2> HIDE DEF s, next
  <2> QED BY <1>7, <1>8, <2>1, <2>2
<1>11. CheckInv'
  <2> HIDE DEF p, s, next
  <2>1. \A k \in 1 .. Len(proofs) : k < checking => Shows(k)
    BY DEF IInv, CheckInv
  <2>2. verdict' = "none"
    BY <1>1
  <2> QED BY <1>2, <1>4, <1>5, <1>9, <2>1, <2>2 DEF CheckInv
<1>12. HonestInv'
  <2> HIDE DEF p, s, next
  <2> QED BY <1>1, <1>5, <1>10, OnlyVerifier DEF HonestInv
<1> QED BY <1>5, <1>11, <1>12 DEF IInv

LEMMA CheckRootIInv == IInv /\ CheckRoot => IInv'
<1> SUFFICES ASSUME IInv, CheckRoot PROVE IInv'
  OBVIOUS
<1> DEFINE p == proofs[checking]
<1>1. /\ checking # 0 /\ verdict = "none" /\ reached = Len(p)
      /\ UNCHANGED <<treeVars, challenges, proverVars, proofs, damaged>>
  BY DEF CheckRoot
<1>2. /\ Proved /\ current = <<>> /\ checking \in 1 .. Len(proofs) /\ Len(proofs) \in Nat
      /\ ~ Shows(checking) => node # Computed
      /\ held = leaves /\ ~ damaged => node = Computed
      /\ \A k \in 1 .. Len(proofs) : k < checking => Shows(k)
  BY <1>1, Phases DEF IInv, CheckInv, HonestInv
<1>3. PartOf(p, challenges[checking], height, 0) /\ height \in 0 .. 29
  <2>1. height \in 0 .. 29
    BY Heights DEF IInv
  <2> QED BY <1>2, <2>1 DEF IInv, ProofsInv, Proved, Challenged
<1>4. Computed = tree[0]
  <2>1. reached = height + 1
    <3> HIDE DEF p
    <3>1. Len(p) = height - 0 + 1
      BY <1>3 DEF PartOf
    <3> QED BY <1>1, <1>3, <3>1
  <2>2. At(height - (height + 1) + 1, Pos(p, height + 1)) = 0
    BY <1>3, Top DEF IInv
  <2> QED BY <2>1, <2>2 DEF Computed
<1>5. /\ TreeInv' /\ ProofsInv' /\ Proved' /\ UNCHANGED <<height, proofs, tree, current, held, leaves, damaged>>
      /\ \A k : Shows(k)' = Shows(k)
  BY <1>1, <1>2, OnlyVerifier DEF treeVars, proverVars
<1> HIDE DEF p
<1>6. CASE isRoot(node) /\ ~ isLast(checking) /\ Goto(checking + 1) /\ UNCHANGED verdict
  <2>1. /\ checking' = checking + 1 /\ checking + 1 \in 1 .. Len(proofs) /\ reached' = 1
        /\ node' = proofs[checking + 1][1].node /\ verdict' = "none"
    BY <1>1, <1>2, <1>6 DEF isLast, Goto
  <2>2. Shows(checking)
    BY <1>2, <1>4, <1>6 DEF isRoot
  <2>3. /\ ~ Shows(checking + 1) => node' # Computed'
        /\ held = leaves /\ ~ damaged => node' = Computed'
    BY <1>2, <1>5, <2>1, Begins DEF Computed
  <2>4. \A k \in 1 .. Len(proofs) : k < checking + 1 => Shows(k)
    BY <1>2, <2>2
  <2>5. reached' \in 1 .. height + 1 /\ checking + 1 # 0
    BY <1>2, <1>3, <2>1
  <2>6. CheckInv'
    BY <1>2, <1>5, <2>1, <2>3, <2>4, <2>5 DEF CheckInv
  <2>7. HonestInv'
    BY <1>1, <1>5, <2>1, <2>3, OnlyVerifier DEF HonestInv
  <2> QED BY <1>5, <2>6, <2>7 DEF IInv
<1>7. CASE isRoot(node) /\ isLast(checking) /\ verdict' = "valid" /\ UNCHANGED <<checking, reached, node>>
  <2>1. Shows(checking)
    BY <1>2, <1>4, <1>7 DEF isRoot
  <2>2. \A k \in 1 .. Len(proofs) : Shows(k)
    <3>1. \A k \in 1 .. Len(proofs) : k < checking \/ k = checking
      BY <1>2, <1>7 DEF isLast
    <3> QED BY <1>2, <2>1, <3>1
  <2>3. Computed' = Computed
    BY <1>5, <1>7 DEF Computed
  <2>4. CheckInv'
    BY <1>1, <1>2, <1>5, <1>7, <2>2, <2>3 DEF CheckInv, IInv
  <2>5. HonestInv'
    BY <1>1, <1>2, <1>5, <1>7, <2>3, OnlyVerifier DEF HonestInv
  <2> QED BY <1>5, <2>4, <2>5 DEF IInv
<1>8. CASE ~ isRoot(node) /\ verdict' = "invalid" /\ UNCHANGED <<checking, reached, node>>
  <2>1. Computed' = Computed /\ ~ (held = leaves /\ ~ damaged)
    BY <1>2, <1>4, <1>5, <1>8 DEF Computed, isRoot
  <2>2. CheckInv'
    BY <1>1, <1>2, <1>5, <1>8, <2>1 DEF CheckInv, IInv
  <2>3. HonestInv'
    BY <1>5, <2>1 DEF HonestInv
  <2> QED BY <1>5, <2>2, <2>3 DEF IInv
<1> QED BY <1>6, <1>7, <1>8 DEF CheckRoot

LEMMA StutterIInv == IInv /\ UNCHANGED vars => IInv'
<1> SUFFICES ASSUME IInv, UNCHANGED vars PROVE IInv'
  OBVIOUS
<1>1. /\ UNCHANGED <<treeVars, challenges, proverVars, proofs, damaged>>
      /\ UNCHANGED <<checking, reached, node, verdict, proofs, tree, current, held, leaves, damaged>>
  BY DEF vars, verifierVars, treeVars, proverVars
<1>2. TreeInv' /\ ProofsInv' /\ Proved' = Proved /\ height' = height /\ \A k : Shows(k)' = Shows(k)
  BY <1>1, OnlyVerifier
<1>3. Computed' = Computed
  BY <1>1, <1>2 DEF Computed
<1>4. CheckInv'
  BY <1>1, <1>2, <1>3 DEF CheckInv, IInv
<1>5. HonestInv'
  BY <1>1, <1>2, <1>3, OnlyVerifier DEF HonestInv, IInv
<1> QED BY <1>2, <1>4, <1>5 DEF IInv

THEOREM MerkleInv == Spec => []IInv
<1>1. ASSUME IInv, [Next]_vars
      PROVE  IInv'
  <2>1. ASSUME NEW rand \in 0 .. numBlocks - 1, NEW pushed \in 0 .. numBlocks - 1, Draw(rand, pushed)
        PROVE  IInv'
    BY <1>1, <2>1, DrawIInv
  <2>2. ASSUME NEW x \in Nodes, ComputeSubTree(x) PROVE IInv'
    BY <1>1, <2>2, ComputeSubTreeIInv
  <2>3. ASSUME NEW k \in DOMAIN proofs, NEW j \in DOMAIN proofs[k], NEW block \in Blocks, Damage(k, j, block)
        PROVE  IInv'
    BY <1>1, <2>3, DamageIInv
  <2> QED BY <1>1, <2>1, <2>2, <2>3, MakeNodeIInv, StartProofIInv, PushNeighbourIInv, FinishProofIInv,
             StartCheckingIInv, CombineIInv, CheckRootIInv, StutterIInv DEF Next
<1> QED BY InitIInv, <1>1, PTL DEF Spec

\* The arrays of makeRoot and generateProofs hold what the loops have computed.
THEOREM MerkleTypeOK == Spec => []TypeOK
<1>1. ASSUME IInv PROVE TypeOK
  <2>1. NumLeaves \in Nat \ {0} /\ height \in 0 .. 29
    BY <1>1, Heights DEF IInv
  <2>2. \A x \in Nodes : tree[x] = Empty <=> x <= todo
    <3>1. SUFFICES ASSUME NEW x \in Nodes PROVE tree[x] = Empty <=> x <= todo
      OBVIOUS
    <3>2. CASE x \in 0 .. NumLeaves - 2
      <4>1. \A l, r : hash(l, r) # Empty
        BY DEF hash, Empty
      <4> QED BY <1>1, <3>2, <4>1 DEF IInv, TreeInv
    <3>3. CASE ~ x \in 0 .. NumLeaves - 2
      <4>1. x - (NumLeaves - 1) \in 0 .. NumLeaves - 1 /\ NumLeaves - 1 + (x - (NumLeaves - 1)) = x
            /\ x >= NumLeaves - 1 /\ x \in Nat
        BY <2>1, <3>3 DEF Nodes
      <4>2. tree[x] # Empty
        BY <1>1, <4>1 DEF IInv, TreeInv
      <4>3. ~ x <= todo
        BY <1>1, <2>1, <4>1 DEF IInv, TreeInv
      <4> QED BY <4>2, <4>3
    <3> QED BY <3>2, <3>3
  <2>3. \A k \in DOMAIN challenges : challenges[k] \in 0 .. numBlocks - 1
    BY <1>1, Phases DEF IInv, ProofsInv
  <2>4. \A k \in DOMAIN proofs : Len(proofs[k]) = height + 1 /\ proofs[k][1].path = challenges[k]
    <3>1. height - 0 + 1 = height + 1
      BY <2>1
    <3> QED BY <1>1, <3>1, Phases DEF IInv, ProofsInv, PartOf
  <2> QED BY <1>1, <2>2, <2>3, <2>4 DEF IInv, TreeInv, CheckInv, TypeOK
<1> QED BY MerkleInv, <1>1, PTL

\* An accepted proof shows the contract's block at the challenged place, for
\* files of any size and whatever the prover holds.
THEOREM MerkleShowsBlock == Spec => []AcceptedShowsBlock
<1>1. ASSUME IInv PROVE AcceptedShowsBlock
  BY <1>1, Phases DEF IInv, CheckInv, AcceptedShowsBlock, Shows
<1> QED BY MerkleInv, <1>1, PTL

\* A prover that holds the contract's blocks is never turned away.
THEOREM MerkleHonest == Spec => []HonestIsAccepted
<1>1. ASSUME IInv PROVE HonestIsAccepted
  BY <1>1 DEF IInv, HonestInv, HonestIsAccepted
<1> QED BY MerkleInv, <1>1, PTL

----------------------------------------------------------------------------
(* The array that generateProofs shares over the challenges.                *)

\* The prover's blocks below the node x are the contract's.
Agree(x) == \A y \in DOMAIN leaves : Under(x, NumLeaves - 1 + y) => held[y] = leaves[y]
SharedInv ==
  /\ \A y \in DOMAIN leaves : m_tree[NumLeaves - 1 + y] = held[y]
  /\ \A x \in 0 .. NumLeaves - 2 :
        m_tree[x] # Empty => todo < 0 /\ (m_tree[x] = tree[x] <=> Agree(x))

LEMMA Quotient ==
  ASSUME NEW m \in Nat \ {0}, NEW n \in Nat, NEW d \in Nat, NEW r \in 0 .. m - 1, n = m * d + r
  PROVE  n \div m = d
OBVIOUS

LEMMA HalfQuotient ==
  ASSUME NEW n \in Nat, NEW w \in Nat \ {0}
  PROVE  n \div (2 * w) = (n \div w) \div 2 /\ n \div w \in Nat
<1> DEFINE q == n \div w  r == n % w  d == q \div 2  e == q % 2  s == w * e + r
<1>1. q \in Nat /\ r \in 0 .. w - 1 /\ n = w * q + r
  OBVIOUS
<1>2. d \in Nat /\ e \in {0, 1} /\ q = 2 * d + e
  BY <1>1
<1> HIDE DEF q, r, d, e
<1>3. s \in 0 .. 2 * w - 1
  BY <1>1, <1>2
<1>4. w * q = (2 * w) * d + w * e
  BY <1>2
<1>5. w * q \in Int /\ w * e \in Int /\ (2 * w) * d \in Int /\ 2 * w \in Nat \ {0}
  BY <1>1, <1>2
<1> DEFINE m == 2 * w
<1>6. n = m * d + s
  BY <1>1, <1>4, <1>5
<1>7. m \in Nat \ {0} /\ s \in 0 .. m - 1
  BY <1>3, <1>5
<1> HIDE DEF m, s
<1>8. n \div m = d
  BY <1>2, <1>6, <1>7, Quotient
<1> QED BY <1>1, <1>8 DEF m, q, d

\* Under, among the leaves: a leaf is under no other leaf, and under a node above
\* the leaves when it is under one of the two nodes below that.
LEMMA UnderLeaf ==
  ASSUME TreeInv, NEW y \in 0 .. NumLeaves - 1, NEW z \in 0 .. NumLeaves - 1
  PROVE  Under(NumLeaves - 1 + y, NumLeaves - 1 + z) <=> y = z
<1> DEFINE n == NumLeaves + z
<1>1. height \in 0 .. 29 /\ NumLeaves \in Nat \ {0} /\ 2 ^ 0 = 1
      /\ \A h \in 0 .. height : 2 ^ h \in Nat \ {0}
  BY Heights
<1>2. n \in Nat /\ n <= 2 * NumLeaves - 1 /\ (NumLeaves - 1 + z) + 1 = n
      /\ (NumLeaves - 1 + y) + 1 = NumLeaves + y
  BY <1>1
<1>3. ASSUME NEW k \in 0 .. height, k # 0
      PROVE  n \div 2 ^ k < NumLeaves
  <2> DEFINE w == 2 ^ (k - 1)
  <2>1. k \in 1 .. 30
    BY <1>1, <1>3
  <2>2. w \in Nat \ {0} /\ 2 ^ k = 2 * w
    BY <2>1, Halves
  <2> DEFINE m == 2 ^ k
  <2>3. m \in Nat /\ m >= 2 /\ m # 0
    BY <2>2
  <2> DEFINE q == n \div m
  <2> HIDE DEF m, w
  <2>4. q \in Nat /\ n = m * q + (n % m) /\ n % m \in 0 .. m - 1
    BY <1>2, <2>3
  <2> HIDE DEF q
  <2>5. 2 * q <= m * q
    BY <2>3, <2>4
  <2>6. 2 * q <= n
    BY <1>2, <2>3, <2>4, <2>5
  <2>7. q < NumLeaves
    BY <1>1, <1>2, <2>4, <2>6
  <2> QED BY <2>7 DEF q, m
<1>4. n \div 2 ^ 0 = n
  BY <1>1, <1>2
<1> HIDE DEF n
<1>5. (\E k \in 0 .. height : n \div 2 ^ k = NumLeaves + y) <=> n = NumLeaves + y
  <2>1. 0 \in 0 .. height /\ NumLeaves + y >= NumLeaves
    BY <1>1
  <2>2. ASSUME NEW k \in 0 .. height, n \div 2 ^ k = NumLeaves + y
        PROVE  n = NumLeaves + y
    <3>1. CASE k = 0
      BY <1>4, <2>2, <3>1
    <3>2. CASE k # 0
      <4>1. n \div 2 ^ k < NumLeaves
        BY <1>3, <3>2
      <4> QED BY <1>1, <2>1, <2>2, <4>1
    <3> QED BY <3>1, <3>2
  <2> QED BY <1>4, <2>1, <2>2
<1> QED BY <1>1, <1>2, <1>5 DEF Under, n

LEMMA UnderNode ==
  ASSUME TreeInv, NEW x \in 0 .. NumLeaves - 2, NEW z \in 0 .. NumLeaves - 1
  PROVE  Under(x, NumLeaves - 1 + z) <=>
           Under(2 * x + 1, NumLeaves - 1 + z) \/ Under(2 * x + 2, NumLeaves - 1 + z)
<1> DEFINE n == NumLeaves + z  Half(k) == n \div 2 ^ k
<1>1. height \in 0 .. 29 /\ NumLeaves \in Nat \ {0} /\ 2 ^ 0 = 1
      /\ \A h \in 0 .. height : 2 ^ h \in Nat \ {0}
  BY Heights
<1>2. n \in Nat /\ n >= NumLeaves /\ n <= 2 * NumLeaves - 1 /\ (NumLeaves - 1 + z) + 1 = n
      /\ x \in Nat /\ x + 1 < NumLeaves
  BY <1>1
<1>3. ASSUME NEW k \in 1 .. height
      PROVE  Half(k) = Half(k - 1) \div 2 /\ Half(k - 1) \in Nat
  <2> DEFINE w == 2 ^ (k - 1)
  <2>1. k \in 1 .. 30
    BY <1>1
  <2>2. w \in Nat \ {0} /\ 2 ^ k = 2 * w
    BY <2>1, Halves
  <2> HIDE DEF n, w
  <2>3. n \div (2 * w) = (n \div w) \div 2 /\ n \div w \in Nat
    BY <1>2, <2>2, HalfQuotient
  <2> QED BY <2>2, <2>3 DEF w
<1>4. Half(0) = n /\ Half(height) = 1
  <2>1. Half(0) = n
    BY <1>1, <1>2
  <2>2. n = NumLeaves * 1 + z
    BY <1>1, <1>2
  <2> HIDE DEF n
  <2>3. n \div NumLeaves = 1
    BY <1>1, <1>2, <2>2, Quotient
  <2> QED BY <2>1, <2>3 DEF NumLeaves
<1> HIDE DEF n, Half
<1>5. ASSUME NEW k \in 0 .. height, Half(k) = x + 1
      PROVE  \E j \in 0 .. height : Half(j) = 2 * x + 2 \/ Half(j) = 2 * x + 3
  <2>1. k # 0
    BY <1>1, <1>2, <1>4, <1>5
  <2>2. k \in 1 .. height /\ k - 1 \in 0 .. height
    BY <1>1, <2>1
  <2>3. Half(k - 1) \in Nat /\ Half(k - 1) \div 2 = x + 1
    BY <1>3, <1>5, <2>2
  <2>4. Half(k - 1) = 2 * x + 2 \/ Half(k - 1) = 2 * x + 3
    BY <1>2, <2>3
  <2> QED BY <2>2, <2>4
<1>6. ASSUME NEW j \in 0 .. height, Half(j) = 2 * x + 2 \/ Half(j) = 2 * x + 3
      PROVE  \E k \in 0 .. height : Half(k) = x + 1
  <2>1. j # height
    BY <1>2, <1>4, <1>6
  <2>2. j + 1 \in 1 .. height /\ j + 1 \in 0 .. height /\ (j + 1) - 1 = j
    BY <1>1, <2>1
  <2>3. Half(j + 1) = Half(j) \div 2
    BY <1>3, <2>2
  <2>4. Half(j + 1) = x + 1
    BY <1>2, <1>6, <2>3
  <2> QED BY <2>2, <2>4
<1>7. (\E k \in 0 .. height : Half(k) = x + 1)
        <=> (\E k \in 0 .. height : Half(k) = 2 * x + 2) \/ (\E k \in 0 .. height : Half(k) = 2 * x + 3)
  BY <1>5, <1>6
<1>8. \A i : Under(i, NumLeaves - 1 + z) <=> \E k \in 0 .. height : Half(k) = i + 1
  BY <1>2 DEF Under, Half
<1>9. (2 * x + 1) + 1 = 2 * x + 2 /\ (2 * x + 2) + 1 = 2 * x + 3
  BY <1>2
<1> QED BY <1>7, <1>8, <1>9

\* What the invariant says of the nodes above the leaves holds of the leaves too.
LEMMA KnownAgree ==
  ASSUME TreeInv, SharedInv, todo < 0, NEW x \in Nodes, m_tree[x] # Empty
  PROVE  m_tree[x] = tree[x] <=> Agree(x)
<1>1. NumLeaves \in Nat \ {0}
  BY Heights
<1>2. CASE x \in 0 .. NumLeaves - 2
  BY <1>2 DEF SharedInv
<1>3. CASE x \notin 0 .. NumLeaves - 2
  <2> DEFINE y == x - (NumLeaves - 1)
  <2>1. y \in 0 .. NumLeaves - 1 /\ NumLeaves - 1 + y = x
    BY <1>1, <1>3 DEF Nodes
  <2> HIDE DEF y
  <2>2. m_tree[x] = held[y] /\ tree[x] = leaves[y] /\ DOMAIN leaves = 0 .. NumLeaves - 1
    BY <2>1 DEF TreeInv, SharedInv
  <2>3. \A z \in 0 .. NumLeaves - 1 : Under(x, NumLeaves - 1 + z) <=> y = z
    BY <2>1, UnderLeaf
  <2> QED BY <2>1, <2>2, <2>3 DEF Agree
<1> QED BY <1>2, <1>3

LEMMA InitShared == Init => SharedInv
<1> SUFFICES ASSUME Init PROVE SharedInv
  OBVIOUS
<1>1. TreeInv
  BY InitIInv DEF IInv
<1>2. NumLeaves \in Nat \ {0} /\ DOMAIN leaves = 0 .. NumLeaves - 1
  BY <1>1, Heights DEF TreeInv
<1>3. \A x \in Nodes : m_tree[x] = IF x >= NumLeaves - 1 THEN held[x - (NumLeaves - 1)] ELSE Empty
  BY DEF Init, WithLeaves, height, NumLeaves, Nodes
<1>4. \A y \in DOMAIN leaves : /\ NumLeaves - 1 + y \in Nodes /\ NumLeaves - 1 + y >= NumLeaves - 1
                               /\ (NumLeaves - 1 + y) - (NumLeaves - 1) = y
  BY <1>2 DEF Nodes
<1>5. \A x \in 0 .. NumLeaves - 2 : x \in Nodes /\ ~ x >= NumLeaves - 1
  BY <1>2 DEF Nodes
<1> QED BY <1>3, <1>4, <1>5 DEF SharedInv

\* The tree is finished before anything is computed in the array.
LEMMA MakeNodeShared ==
  ASSUME IInv, SharedInv, MakeNode
  PROVE  SharedInv'
<1>1. /\ todo >= 0 /\ todo \in -1 .. NumLeaves - 2
      /\ UNCHANGED <<numBlocks, leaves, m_tree, held, NumLeaves>>
  BY SameTree DEF MakeNode, proverVars, IInv, TreeInv
<1>2. ~ todo < 0
  BY <1>1
<1> QED BY <1>1, <1>2 DEF SharedInv

\* A computed node is right when both below it are, since a hash determines what
\* was hashed.
LEMMA ComputeSubTreeShared ==
  ASSUME IInv, SharedInv, NEW x \in Nodes, ComputeSubTree(x)
  PROVE  SharedInv'
<1>1. /\ current # <<>> /\ x \in 0 .. NumLeaves - 2 /\ NumLeaves \in Nat \ {0}
      /\ m_tree[2 * x + 1] # Empty /\ m_tree[2 * x + 2] # Empty
      /\ m_tree' = [m_tree EXCEPT ![x] = hash(m_tree[2 * x + 1], m_tree[2 * x + 2])]
      /\ UNCHANGED <<numBlocks, leaves, held, tree, todo, NumLeaves, height>>
  <2>1. NumLeaves \in Nat \ {0}
    BY Heights DEF IInv
  <2>2. /\ current # <<>> /\ x < NumLeaves - 1 /\ x \in 0 .. 2 * NumLeaves - 2
        /\ m_tree[2 * x + 1] # Empty /\ m_tree[2 * x + 2] # Empty
        /\ m_tree' = [m_tree EXCEPT ![x] = hash(m_tree[2 * x + 1], m_tree[2 * x + 2])]
    BY DEF ComputeSubTree, SubTree, Nodes
  <2>3. UNCHANGED <<numBlocks, leaves, held, tree, todo, NumLeaves, height>>
    BY SameTree DEF ComputeSubTree, treeVars
  <2>4. x \in 0 .. NumLeaves - 2
    BY <2>1, <2>2
  <2> QED BY <2>1, <2>2, <2>3, <2>4
<1>2. todo < 0 /\ DOMAIN m_tree = Nodes /\ DOMAIN leaves = 0 .. NumLeaves - 1
  BY <1>1, Phases DEF IInv, TreeInv
<1>3. \A i \in Nodes : m_tree'[i] = IF i = x THEN hash(m_tree[2 * x + 1], m_tree[2 * x + 2]) ELSE m_tree[i]
  BY <1>1, <1>2
<1>4. \A i : Agree(i)' <=> Agree(i)
  BY <1>1 DEF Agree, Under
<1>5. 2 * x + 1 \in Nodes /\ 2 * x + 2 \in Nodes
  BY <1>1 DEF Nodes
<1>6. Agree(x) <=> Agree(2 * x + 1) /\ Agree(2 * x + 2)
  <2>1. \A z \in 0 .. NumLeaves - 1 :
           Under(x, NumLeaves - 1 + z) <=>
             Under(2 * x + 1, NumLeaves - 1 + z) \/ Under(2 * x + 2, NumLeaves - 1 + z)
    BY <1>1, UnderNode DEF IInv
  <2> QED BY <1>2, <2>1 DEF Agree
<1>7. /\ m_tree[2 * x + 1] = tree[2 * x + 1] <=> Agree(2 * x + 1)
      /\ m_tree[2 * x + 2] = tree[2 * x + 2] <=> Agree(2 * x + 2)
  BY <1>1, <1>2, <1>5, KnownAgree DEF IInv
<1>8. tree[x] = hash(tree[2 * x + 1], tree[2 * x + 2])
  BY <1>1, <1>2 DEF IInv, TreeInv
<1>9. \A l, r, m, s : hash(l, r) = hash(m, s) <=> l = m /\ r = s
  BY DEF hash
<1>10. hash(m_tree[2 * x + 1], m_tree[2 * x + 2]) = tree[x] <=> Agree(x)
  BY <1>6, <1>7, <1>8, <1>9
<1>11. \A i \in 0 .. NumLeaves - 2 : i \in Nodes
  BY <1>1 DEF Nodes
<1>12. \A i \in 0 .. NumLeaves - 2 : m_tree'[i] # Empty => (m_tree'[i] = tree[i] <=> Agree(i))
  BY <1>3, <1>10, <1>11 DEF SharedInv
<1>13. \A y \in DOMAIN leaves : NumLeaves - 1 + y \in Nodes /\ NumLeaves - 1 + y # x
  BY <1>1, <1>2 DEF Nodes
<1>14. \A y \in DOMAIN leaves : m_tree'[NumLeaves - 1 + y] = held[y]
  BY <1>3, <1>13 DEF SharedInv
<1> QED BY <1>1, <1>2, <1>4, <1>12, <1>14 DEF SharedInv

\* Nothing else changes the trees or the array.
LEMMA SameShared ==
  ASSUME SharedInv, UNCHANGED <<treeVars, m_tree>>
  PROVE  SharedInv'
<1>1. UNCHANGED <<numBlocks, leaves, tree, todo, held, m_tree, NumLeaves, height>>
  BY SameTree DEF treeVars
<1>2. \A i : Agree(i)' <=> Agree(i)
  BY <1>1 DEF Agree, Under
<1> QED BY <1>1, <1>2 DEF SharedInv

\* The array of generateProofs, which is shared over all the challenges and filled
\* as they need it, never holds a node that is not of the tree of the prover's
\* blocks: it agrees with the contract's tree just where the blocks below do.
THEOREM MerkleSharedNodes == Spec => []SharedNodesAreRight
<1>1. ASSUME IInv, SharedInv, [Next]_vars
      PROVE  SharedInv'
  <2>1. ASSUME NEW x \in Nodes, ComputeSubTree(x) PROVE SharedInv'
    BY <1>1, <2>1, ComputeSubTreeShared
  <2>2. CASE MakeNode
    BY <1>1, <2>2, MakeNodeShared
  <2>3. CASE UNCHANGED <<treeVars, m_tree>>
    BY <1>1, <2>3, SameShared
  <2>4. ASSUME NEW rand \in 0 .. numBlocks - 1, NEW pushed \in 0 .. numBlocks - 1, Draw(rand, pushed)
        PROVE  UNCHANGED <<treeVars, m_tree>>
    BY <2>4 DEF Draw, proverVars
  <2>5. ASSUME NEW k \in DOMAIN proofs, NEW j \in DOMAIN proofs[k], NEW block \in Blocks, Damage(k, j, block)
        PROVE  UNCHANGED <<treeVars, m_tree>>
    BY <2>5 DEF Damage, proverVars
  <2>6. StartProof \/ PushNeighbour \/ FinishProof => UNCHANGED <<treeVars, m_tree>>
    BY DEF StartProof, PushNeighbour, FinishProof
  <2>7. StartChecking \/ Combine \/ CheckRoot \/ UNCHANGED vars => UNCHANGED <<treeVars, m_tree>>
    BY DEF StartChecking, Combine, CheckRoot, proverVars, vars
  <2> QED BY <1>1, <2>1, <2>2, <2>3, <2>4, <2>5, <2>6, <2>7 DEF Next
<1>2. IInv /\ SharedInv => SharedNodesAreRight
  <2> SUFFICES ASSUME IInv, SharedInv, todo < 0, NEW x \in Nodes, m_tree[x] # Empty
               PROVE  m_tree[x] = tree[x] <=> Agree(x)
    BY DEF SharedNodesAreRight, Agree
  <2> QED BY KnownAgree DEF IInv
<1> QED BY MerkleInv, InitShared, <1>1, <1>2, PTL DEF Spec
=============================================================================
