----------------------------- MODULE ZKPProtocol -----------------------------
(* What the two sides do with a compiled program: the prover computes the    *)
(* values of its computation block and of the intermediate expressions and   *)
(* makes a sigma proof; the verifier puts the public values together and     *)
(* checks the proof (InterpreterProver.cpp, InterpreterVerifier.cpp and the  *)
(* equality prover and verifier).  Everything drawn at random comes from a   *)
(* seed and the place of the draw; the challenge is a hash of the first      *)
(* messages.                                                                 *)
EXTENDS ZKPDescribe, FourSquares

LOCAL INSTANCE SequencesExt

CONSTANTS RSA_DRAWS,    \* how many exponents a group of unknown order draws from
          CHALLENGES    \* how many challenges there are

Drawn(seed, i, size) == (seed * (i + 2) * (i + 5) + i) % size
randomExponent(seed, i, g) == Drawn(seed, i, IF g.type = "PRIME" THEN g.order ELSE RSA_DRAWS)

\* The elements of a set, in the order a map happens to keep them in.
RECURSIVE InMapOrder(_)
InMapOrder(S) ==
  IF S = {} THEN <<>> ELSE LET x == CHOOSE y \in S : TRUE IN <<x>> \o InMapOrder(S \ {x})

----------------------------------------------------------------------------
\* ComputationVisitor: the random values of the computation block, and its
\* equations in order; a product is computed as a product of powers.
HasValues(es, env) == \A e \in es : Evaluates(e, env)
RandomPrime_ZZ(seed, i, len) ==
  LET ps == {p \in 2 ^ (len - 1) .. 2 ^ len - 1 : IsPrime[p]}
  IN  CHOOSE p \in ps : Cardinality({q \in ps : q < p}) = Drawn(seed, i, Cardinality(ps))
DrawRandoms(seed, env, g) ==
  LET names == ItemNames(g)
      at == Cardinality(DOMAIN env.variables)
      drawn(i) ==
        CASE g.kind = "DeclRandExponents" -> randomExponent(seed, at + i, env.groups[g.group])
          [] g.kind = "RandomBnd" ->
               Eval(g.lbound, env) + Drawn(seed, at + i, Eval(g.ubound, env) - Eval(g.lbound, env))
          [] g.kind = "RandomPrime" -> RandomPrime_ZZ(seed, at + i, Eval(g.length, env))
      bounds == CASE g.kind = "RandomBnd" -> {g.lbound, g.ubound}
                  [] g.kind = "RandomPrime" -> {g.length}
                  [] OTHER -> {}
  IN  IF ~ env.ok \/ ~ HasValues(bounds, env) THEN Throw(env)
      ELSE [env EXCEPT !.variables =
              [x \in Elements(names) |-> drawn(CHOOSE i \in DOMAIN names : names[i] = x)] @@ @]
ComputeEqual(env, r) ==
  LET name == Name(r.id)
      product == r.expr.kind = "Mul"
      computes == Evaluates(r.expr, env) /\ (product => env.varTypes[name].group # NO_GROUP)
      value == IF product THEN computeValue(splitExpr(name, r.expr, env), env) ELSE Eval(r.expr, env)
  IN  IF ~ env.ok \/ r.kind # "DeclEqual" THEN env
      ELSE IF computes THEN Bind(env, "variables", name, value) ELSE Throw(env)
ComputationVisitor(env, n, seed) ==
  LET draw(e, g) == DrawRandoms(seed, e, g)
  IN  IF n.comp = NoNode THEN env
      ELSE FoldLeft(ComputeEqual, FoldLeft(draw, env, n.comp.randoms), n.comp.relations)

----------------------------------------------------------------------------
\* computeIntermediateValues of the prover: the random variables, the four
\* squares, whatever expressions have no value yet, and then the commitments.
formRandomExponents(env, seed) ==
  LET at(x) == CHOOSE i \in DOMAIN env.randoms : env.randoms[i] = x
      grp(x) == env.groups[env.varTypes[x].group]
  IN  [env EXCEPT !.variables =
         [x \in Elements(env.randoms) |-> randomExponent(seed, at(x), grp(x))] @@ @]
BindSquares(env, text, value, names, roots) ==
  LET at(x, field) == CHOOSE i \in 1 .. 4 : names[i][field] = x
  IN  [env EXCEPT !.variables =
         [x \in {names[i].decomp : i \in 1 .. 4} |-> roots[at(x, "decomp")]]
         @@ [x \in {names[i].decompSquare : i \in 1 .. 4} |->
               roots[at(x, "decompSquare")] * roots[at(x, "decompSquare")]]
         @@ (text :> value) @@ @]
decompose1(env, text) ==
  IF ~ (text \in DOMAIN env.variables \/ Evaluates(env.expressions[text], env)) THEN Throw(env)
  ELSE LET value == IF text \in DOMAIN env.variables THEN env.variables[text]
                                                     ELSE Eval(env.expressions[text], env)
       IN  BindSquares(env, text, value, env.decompositions[text], decompose[value])
Decompose(env) == FoldLeft(decompose1, env, InMapOrder(DOMAIN env.decompositions))
EvaluateMissing(env) ==
  LET missing == DOMAIN env.expressions \ DOMAIN env.variables
  IN  IF \A t \in missing : Evaluates(env.expressions[t], env)
      THEN [env EXCEPT !.variables = @ @@ [t \in missing |-> Eval(env.expressions[t], env)]]
      ELSE Throw(env)
CommitAll(env) ==
  IF ~ env.ok THEN env
  ELSE [env EXCEPT !.variables = [c \in DOMAIN env.comsToCompute |->
                                    computeValue(env.comsToCompute[c], env)] @@ @]
Settled(env) == [env EXCEPT !.randoms = <<>>, !.expressions = <<>>, !.decompositions = <<>>, !.comsToCompute = <<>>]

\* Groups that are given late are bound when the values are.
WithGroups(env, n, vars, grps) ==
  IF grps = <<>> THEN env
  ELSE BindGroupValues([env EXCEPT !.groups = grps, !.variables = vars], n)
WithValues(env, n, vars, grps) == [WithGroups(env, n, vars, grps) EXCEPT !.variables = vars @@ @]
getPublicVariables(env) ==
  [x \in {y \in DOMAIN env.variables \ env.generators :
            y \in DOMAIN env.privates /\ ~ env.privates[y]} |-> env.variables[x]]

----------------------------------------------------------------------------
\* The sigma proof: for every representation the product of its bases to random
\* exponents, and for every exponent its response to the challenge.
ExpNames(d) == [i \in DOMAIN d.exps |-> Text(d.exps[i])]
RaisedTo(env, d, exps) ==
  multiExp(env, BaseNames(d), [i \in DOMAIN d.bases |-> env.variables[BaseNames(d)[i]]],
           [i \in DOMAIN d.exps |-> exps[ExpNames(d)[i]]], env.groups[d.group].mod)
computeChallenge(rproofs) == 1 + (MapThenSumSet(LAMBDA t : rproofs[t], DOMAIN rproofs) % CHALLENGES)

groupForRandomness(env) ==
  LET rsa == {x \in DOMAIN env.groups : env.groups[x].type = "RSA"}
  IN  env.groups[CHOOSE x \in DOMAIN env.groups : rsa # {} => x \in rsa]
makeRandomizedExponents(env, seed) ==
  LET names == UNION {Elements(ExpNames(env.descriptions[t])) : t \in DOMAIN env.descriptions}
      order == InMapOrder(names)
      at(x) == CHOOSE i \in DOMAIN order : order[i] = x
  IN  [x \in names |-> randomExponent(seed, at(x), groupForRandomness(env))]
Provable(env) ==
  \A t \in DOMAIN env.descriptions :
     Elements(BaseNames(env.descriptions[t]) \o ExpNames(env.descriptions[t]))
       \subseteq DOMAIN env.variables
getSigmaProof(env, seed) ==
  LET rands == makeRandomizedExponents(env, seed)
      rproofs == [t \in DOMAIN env.descriptions |-> RaisedTo(env, env.descriptions[t], rands)]
      c == computeChallenge(rproofs)
  IN  [rproofs |-> rproofs,
       coms |-> [t \in DOMAIN env.descriptions |->
                   RaisedTo(env, env.descriptions[t], env.variables)],
       responses |-> [x \in DOMAIN rands |-> rands[x] + c * env.variables[x]]]

----------------------------------------------------------------------------
\* InterpreterVerifier::compute: what the prover says only fills in what the
\* verifier does not have; then the commitments of the ranges, and whether the
\* squares that were committed to make up what they should.
VerifierGiven(env, n, vars, publics, grps) ==
  [WithValues(env, n, vars, grps) EXCEPT !.variables = @ @@ publics]
RangeCommitments(env) ==
  [env EXCEPT !.variables =
     [c \in DOMAIN env.rangeComs |-> computeValue(env.rangeComs[c], env)] @@ @]
BadDecompositions(env) ==
  LET value(x) == env.variables[env.commitments[x]]
      product(names) == ProductOfPowers([i \in 1 .. 4 |-> value(names[i].decompSquare)],
                                        <<1, 1, 1, 1>>,
                                        env.groups[env.varTypes[names[1].decompSquare].group].mod)
  IN  \E t \in DOMAIN env.decompositions : product(env.decompositions[t]) # value(t)
\* ... which is only possible when the prover sent what it has to send.
Computable(env) ==
  LET coms == UNION {{env.commitments[env.decompositions[t][i].decompSquare] : i \in 1 .. 4} :
                       t \in DOMAIN env.decompositions}
  IN  /\ coms \subseteq DOMAIN env.variables
      /\ \A c \in DOMAIN env.rangeComs :
            HasValues(Elements(env.rangeComs[c].bases \o env.rangeComs[c].exps), env)

\* EqualityVerifier::verify: rproof * left^challenge is the product of the
\* bases to the responses, for every representation.
Holds(env, d, rproof, c, responses) ==
  LET mod == env.groups[d.group].mod
  IN  (rproof * PowerMod(env.variables[d.left], c, mod)) % mod = RaisedTo(env, d, responses)
EqualityVerify(env, proof) ==
  \A t \in DOMAIN env.descriptions :
     Holds(env, env.descriptions[t], proof.rproofs[t], computeChallenge(proof.rproofs), proof.responses)
\* Mutant: nobody asks what the squares make up.
verifyEquality(env, proof) == EqualityVerify(env, proof)
verify(env, proof) == ~ BadDecompositions(env) /\ EqualityVerify(env, proof)
Verifiable(env, proof) ==
  /\ DOMAIN env.descriptions \subseteq DOMAIN proof.rproofs
  /\ \A t \in DOMAIN env.descriptions :
        LET d == env.descriptions[t]
        IN  /\ Elements(BaseNames(d)) \union {d.left} \subseteq DOMAIN env.variables
            /\ Elements(ExpNames(d)) \subseteq DOMAIN proof.responses
=============================================================================
