----------------------------- MODULE Interpreter -----------------------------
(* Provers and verifiers in one process (Interpreter.cpp).  Each checks the  *)
(* program it is to run, which compiles it or takes it from the cache that   *)
(* all of them share, and later computes its values: the prover then makes   *)
(* its proof, the verifier judges it.  A session is one prover, one verifier *)
(* and the message between them.                                             *)
EXTENDS ZKPProtocol, ZKPParser

LOCAL INSTANCE SequencesExt

CONSTANTS Sessions,  \* pairs of a prover and a verifier, numbered
          Jobs,      \* per session: the names of the jobs it may be about
          JobOf,     \* the jobs by their names
          NameOrder  \* the names of groups and inputs as std::sort puts them
(* A job has a program (its tokens), the name of its file, the inputs and    *)
(* the groups; the sides (in "early") that name the groups when they check   *)
(* the program, while the others name them with the values; and the values   *)
(* that the prover and the verifier start from.                              *)

VARIABLES icache,    \* InterpreterCache: compiled programs by key
          prover, verifier,  \* per session: the state of the two objects
          sent       \* per session: the public values and the proof
vars == <<icache, prover, verifier, sent>>

Idle == [phase |-> "idle"]
At(o, phase) == o.phase = phase
Early(job, side) == IF side \in JobOf[job].early THEN JobOf[job].groups ELSE <<>>
Late(job, side) == IF side \in JobOf[job].early THEN <<>> ELSE JobOf[job].groups

----------------------------------------------------------------------------
NamesAssumption ==
  \A job \in DOMAIN JobOf :
     DOMAIN JobOf[job].groups \union DOMAIN JobOf[job].inputs \subseteq Elements(NameOrder)
ASSUME NamesAssumption

\* The decimals of the numbers that f has for its names, one after the other, as
\* Hash::hash writes a vector: without the names, and nothing in between.
Decimals(f) ==
  LET write(text, name) == text \o ToString(f[name])
  IN  FoldLeft(write, "", SelectSeq(NameOrder, LAMBDA name : name \in DOMAIN f))
DecimalsOfInputs(job) == Decimals(JobOf[job].inputs)

\* Mutants: everything is cleared; the groups are no part of the key.
clearEverything(env) == [env EXCEPT !.variables = <<>>]
hashOfInputs(job, grps) == [file |-> JobOf[job].file, hashed |-> DecimalsOfInputs(job)]

\* hashForCache: the name of the file, and the moduli of the groups and the
\* inputs, hashed in the order of their names.  Of a group only its modulus.
hashForCache(job, grps) ==
  [file |-> JobOf[job].file,
   hashed |-> Decimals([name \in DOMAIN grps |-> grps[name].mod]) \o DecimalsOfInputs(job)]

clearPrivates(env) ==
  [env EXCEPT !.variables =
     [x \in DOMAIN @ \ {y \in DOMAIN env.privates : env.privates[y]} |-> @[x]]]

\* What a program compiles to, or that it does not.  unset is what the memory of
\* a TypeIdentifier holds.
Parsed == [job \in DOMAIN JobOf |-> ParseSpec(JobOf[job].program)] @@ <<>>
CompileJob(job, side, unset) ==
  IF Parsed[job].s = Bad THEN [tree |-> NoNode, env |-> Throw(EmptyEnvironment)]
  ELSE Compile(Parsed[job].n, JobOf[job].inputs, Early(job, side), unset)
Fresh == [job \in DOMAIN JobOf, side \in {"prover", "verifier"}
            |-> {CompileJob(job, side, unset) : unset \in BOOLEAN}] @@ <<>>

\* Interpreter::check of a program that compiles to c: an object gets what the
\* cache has, or else c, which the cache then keeps, but nothing that throws.
Found(key, c) == IF key \in DOMAIN icache THEN [icache[key] EXCEPT !.env = clearPrivates(@)] ELSE c
\* Mutant: the cache also keeps what has thrown.
KeepAll(key, c) == icache' = IF key \in DOMAIN icache THEN icache ELSE (key :> c) @@ icache
Keep(key, c) == icache' = IF key \in DOMAIN icache \/ ~ c.env.ok THEN icache ELSE (key :> c) @@ icache
Checked(c, job) == [phase |-> IF c.env.ok THEN "checked" ELSE "threw",
                    job |-> job, tree |-> c.tree, env |-> c.env]

ProverCheck(s, job, c) ==
  LET key == hashForCache(job, Early(job, "prover"))
  IN  /\ At(prover[s], "idle")
      /\ verifier[s] # Idle => verifier[s].job = job
      /\ Keep(key, c)
      /\ prover' = [prover EXCEPT ![s] = Checked(Found(key, c), job)]
      /\ UNCHANGED <<verifier, sent>>

VerifierCheck(s, job, c) ==
  LET key == hashForCache(job, Early(job, "verifier"))
  IN  /\ At(verifier[s], "idle")
      /\ prover[s] # Idle => prover[s].job = job
      /\ Keep(key, c)
      /\ verifier' = [verifier EXCEPT ![s] = Checked(Found(key, c), job)]
      /\ UNCHANGED <<prover, sent>>

\* InterpreterProver::compute, one stage after the other on the environment:
\* what is given, the computation block, then computeIntermediateValues.
ProverCompute(s, p, Done(_)) ==
  \E given \in {WithValues(p.env, p.tree, JobOf[p.job].values, Late(p.job, "prover"))} :
  \E computed \in {ComputationVisitor(given, p.tree, s)} :
     \/ ~ computed.ok /\ Done(computed)
     \/ /\ computed.ok
        /\ \E drawn \in {formRandomExponents(computed, s)} :
           \E squared \in {Decompose(drawn)} :
           \E whole \in {EvaluateMissing(squared)} :
           \E committed \in {Settled(CommitAll(whole))} : Done(committed)

\* compute, getPublicVariables and computeProof, one after the other.
Prove(s) ==
  LET becomes(phase, env) == prover' = [prover EXCEPT ![s] = [@ EXCEPT !.phase = phase, !.env = env]]
      Done(env) ==
        IF env.ok /\ Provable(env)
        THEN /\ becomes("proved", env)
             /\ sent' = [sent EXCEPT ![s] = [publics |-> getPublicVariables(env),
                                             proof |-> getSigmaProof(env, s)]]
        ELSE becomes("threw", env) /\ UNCHANGED sent
  IN  /\ At(prover[s], "checked")
      /\ ProverCompute(s, prover[s], Done)
      /\ UNCHANGED <<icache, verifier>>

\* compute and verify.
Verify(s) ==
  LET v == verifier[s]
      becomes(phase, env) == verifier' = [verifier EXCEPT ![s] = [@ EXCEPT !.phase = phase, !.env = env]]
      computed(m, given) ==
        \E env \in {[RangeCommitments(given) EXCEPT !.variables = @ @@ m.proof.coms]} :
           becomes(IF ~ (BadDecompositions(env) \/ Verifiable(env, m.proof)) THEN "threw"
                   ELSE IF verify(env, m.proof) THEN "accepted" ELSE "rejected",
                   [env EXCEPT !.rangeComs = <<>>, !.decompositions = <<>>])
  IN  /\ At(v, "checked") /\ sent[s] # <<>>
      /\ \E m \in {sent[s]} :
         \E given \in {VerifierGiven(v.env, v.tree, JobOf[v.job].known, m.publics, Late(v.job, "verifier"))} :
            \/ ~ Computable(given) /\ becomes("threw", v.env)
            \/ Computable(given) /\ computed(m, given)
      /\ UNCHANGED <<icache, prover, sent>>

Init ==
  /\ icache = <<>>
  /\ prover = [s \in Sessions |-> Idle]
  /\ verifier = [s \in Sessions |-> Idle]
  /\ sent = [s \in Sessions |-> <<>>]
Next ==
  \E s \in Sessions :
     \/ \E job \in Jobs[s] :
           \/ \E c \in Fresh[job, "prover"] : ProverCheck(s, job, c)
           \/ \E c \in Fresh[job, "verifier"] : VerifierCheck(s, job, c)
     \/ Prove(s)
     \/ Verify(s)
Spec == Init /\ [][Next]_vars

----------------------------------------------------------------------------
(* What a program means, read off the program as it is written: a reference  *)
(* that knows nothing of passes, environments or representations.  "in" has  *)
(* the inputs and the indices of the loops, "value" the values of the names. *)
Named(id, in) == IF id.sub \in DOMAIN in THEN id.base \o "_" \o ToString(in[id.sub]) ELSE Name(id)
RECURSIVE Number(_, _, _, _), Product(_, _, _, _), True(_, _, _, _)
Indices(e, in, value) == Number(e.lbound, in, value, NO_GROUP) .. Number(e.ubound, in, value, NO_GROUP)
\* The value of a number; g is the group in whose exponents it divides.
Number(e, in, value, g) ==
  LET l == Number(e.lhs, in, value, g)
      r == Number(e.rhs, in, value, g)
  IN  CASE e.kind = "Int" -> e.val
        [] e.kind = "Var" -> IF VarName(e) \in DOMAIN in THEN in[VarName(e)] ELSE value[Named(e.id, in)]
        [] e.kind = "Neg" -> 0 - Number(e.expr, in, value, g)
        [] e.kind = "Add" -> l + r
        [] e.kind = "Sub" -> l - r
        [] e.kind = "Mul" -> l * r
        [] e.kind = "Pow" -> Power(l, r)
        [] e.kind = "Div" -> l * InvMod(r % g.order, g.order)
\* The element of g that an expression stands for.
Product(e, in, value, g) ==
  CASE e.kind = "Var" -> value[Named(e.id, in)] % g.mod
    [] e.kind = "Mul" -> (Product(e.lhs, in, value, g) * Product(e.rhs, in, value, g)) % g.mod
    [] e.kind = "Pow" -> PowerMod(Product(e.lhs, in, value, g), Number(e.rhs, in, value, g), g.mod)
    [] e.kind = "ForExpr" ->
         LET at(i) == Product(e.expr, (e.index :> i) @@ in, value, g)
             times(x, i) == (x * at(i)) % g.mod
         IN  FoldLeft(times, 1, InMapOrder(Indices(e, in, value)))

\* A relation holds; group is what is known of the groups of the names.
True(r, in, value, group) ==
  LET n(e) == Number(e, in, value, NO_GROUP)
      name == Named(r.id, in)
      g == group[name].group
      exact == group[name].kind # "DeclElements"
  IN  CASE r.kind = "ForRel" -> \A i \in Indices(r, in, value) :
                                   True(r.rel, (r.index :> i) @@ in, value, group)
        [] r.kind = "Range" -> n(r.lower) <= n(r.center) /\ n(r.center) <= n(r.upper)
        [] r.kind # "Range" /\ exact -> (value[name] - Number(r.expr, in, value, g)) % g.order = 0
        [] OTHER -> value[name] % g.mod = Product(r.expr, in, value, g)

\* The names that a declaration stands for, and the groups of those that the
\* proof block declares.
DeclaredNames(g, in) ==
  UNION {IF d.kind = "DeclIDRange"
         THEN {d.base \o "_" \o ToString(j) : j \in Indices(d, in, <<>>)}
         ELSE {Name(d)} : d \in Elements(g.items)}
NameGroups(proof, in, grps) ==
  LET decls == {g \in Elements(proof.given \o proof.knowledge) : g.kind # "DeclIntegers"}
      of(x) == CHOOSE g \in decls : x \in DeclaredNames(g, in)
  IN  [x \in UNION {DeclaredNames(g, in) : g \in decls} |->
         [group |-> grps[of(x).group],
          kind |-> IF of(x).kind = "DeclExponents" THEN "DeclExponents" ELSE "DeclElements"]]

\* What the proof block of a job says, of the prover's values and, for what the
\* verifier knows itself, of the verifier's.
ProofBlockOf(job) == Parsed[job].n.proof
Facts(job) ==
  LET p == ProofBlockOf(job)
  IN  Elements(p.suchThat)
      \union UNION {Elements(g.relations) : g \in {x \in Elements(p.given) : x.kind = "DeclElements"}}
HoldsOf(job, values) ==
  \A r \in Facts(job) :
     True(r, JobOf[job].inputs, values, NameGroups(ProofBlockOf(job), JobOf[job].inputs, JobOf[job].groups))
Values(s) == JobOf[verifier[s].job].known @@ prover[s].env.variables
Reached(s, phase) == At(verifier[s]', phase) /\ ~ At(verifier[s], phase)

----------------------------------------------------------------------------
Phases == {"idle", "checked", "threw", "proved", "accepted", "rejected"}

\* The two objects of a session are about the same job, the verifier has judged
\* only what the prover sent, and the cache keeps no environment that threw.
TypeOK ==
  /\ \A k \in DOMAIN icache : icache[k].env.ok
  /\ \A s \in Sessions :
        /\ prover[s].phase \in Phases \ {"accepted", "rejected"}
        /\ verifier[s].phase \in Phases \ {"proved"}
        /\ prover[s] # Idle /\ verifier[s] # Idle => prover[s].job = verifier[s].job
        /\ At(prover[s], "proved") <=> sent[s] # <<>>
        /\ verifier[s].phase \in {"accepted", "rejected"} => sent[s] # <<>>

\* A prover and a verifier that follow a program with values that satisfy it
\* never throw, and the proof is accepted.
HonestIsAccepted ==
  \A s \in Sessions :
     /\ prover[s] # Idle /\ JobOf[prover[s].job].honest => ~ At(prover[s], "threw")
     /\ verifier[s] # Idle /\ JobOf[verifier[s].job].honest => verifier[s].phase \notin {"threw", "rejected"}

\* What an object gets is what a program would have compiled to without the cache,
\* whatever was kept under its key, by whom and after what; a value that
\* clearPrivates takes out of it is of no use to the proof.
IsFresh(o, c) ==
  LET read == UNION {Elements(Reads(r.expr)) : r \in {q \in Elements(Relations(o.tree)) : q.kind = "Equal"}}
  IN  /\ o.tree = c.tree
      /\ [o.env EXCEPT !.variables = <<>>] = [c.env EXCEPT !.variables = <<>>]
      /\ \A x \in read \intersect DOMAIN c.env.variables :
            x \in DOMAIN o.env.variables /\ o.env.variables[x] = c.env.variables[x]

\* The jobs that some object has checked from the same file "with the same groups
\* and inputs used" (Interpreter.cpp:29), and the job itself.
FromTheFile(job) ==
  LET seen(objects) == {objects[s].job : s \in {x \in Sessions : objects[x] # Idle}}
      alike(i) == /\ JobOf[i].file = JobOf[job].file /\ JobOf[i].inputs = JobOf[job].inputs
                  /\ JobOf[i].groups = JobOf[job].groups
  IN  {job} \union {i \in seen(prover) \union seen(verifier) : alike(i)}

\* Those of them that an object may have been compiled from.
CompiledFrom(o, side) == {i \in FromTheFile(o.job) : \E c \in Fresh[i, side] : IsFresh(o, c)}

\* The verifier accepts a proof only if everything the program that it was
\* compiled from says is true of the values that the prover used and that the
\* verifier has.
AcceptedIsTrue ==
  [][\A s \in Sessions : Reached(s, "accepted") =>
        \E i \in CompiledFrom(verifier[s], "verifier") : HoldsOf(i, Values(s))]_vars

\* Nothing that a program asks to prove knowledge of is among the public values
\* that the prover sends.
SecretsStayPrivate ==
  [][\A s \in Sessions : sent[s]' # sent[s] =>
        \A g \in Elements(ProofBlockOf(prover[s].job).knowledge) :
           DeclaredNames(g, JobOf[prover[s].job].inputs) \intersect DOMAIN sent[s]'.publics = {}]_vars

\* What an object checks comes from a program of its file, compiled for its own
\* groups and inputs; from the program that the file has now, unless the file was
\* written anew since it was first compiled (ProgramMaker.cpp:32).  The key has of
\* groups and inputs their decimals alone, so two that are used must not have the same.
CachedIsFresh ==
  [][\A s \in Sessions :
       /\ At(prover[s]', "checked") /\ At(prover[s], "idle") => CompiledFrom(prover[s]', "prover") # {}
       /\ Reached(s, "checked") => CompiledFrom(verifier[s]', "verifier") # {}]_vars

\* "0 <= J < W" (examples/range.txt): an accepted range holds with its upper
\* bound left out.
UpperBoundsAreOpen ==
  [][\A s \in Sessions : Reached(s, "accepted") =>
        \A r \in Facts(verifier[s].job) : r.kind = "Range" =>
           LET n(e) == Number(e, JobOf[verifier[s].job].inputs, Values(s), NO_GROUP)
           IN  n(r.center) < n(r.upper)]_vars
=============================================================================
