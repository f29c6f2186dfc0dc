----------------------------- MODULE ZKPDescribe -----------------------------
(* The environment of a compiled program (Environment.h) and the visitors    *)
(* that fill it: the types and the privacy of the names, the commitments,    *)
(* and the discrete logarithm representations that every relation is turned  *)
(* into (DescribeRelations.cpp, Translator.cpp).  ok becomes FALSE where the *)
(* code throws.                                                              *)
EXTENDS ZKPPasses

LOCAL INSTANCE SequencesExt

EmptyEnvironment ==
  [variables |-> <<>>, generators |-> {}, groups |-> <<>>, varTypes |-> <<>>,
   privates |-> <<>>, commitments |-> <<>>, discreteLogs |-> <<>>, descriptions |-> <<>>,
   decompositions |-> <<>>, randoms |-> <<>>, expressions |-> <<>>, comsToCompute |-> <<>>,
   rangeComs |-> <<>>, cache |-> <<>>, counter |-> 0, ok |-> TRUE]

Bind(env, map, name, value) == [env EXCEPT ![map] = (name :> value) @@ @]
Throw(env) == [env EXCEPT !.ok = FALSE]
Exponent(group) == VarInfo(group, "EXPONENT")
Element(group) == VarInfo(group, "ELEMENT")

addRandomVariable(env, name, info) ==
  [Bind(Bind(env, "varTypes", name, info), "privates", name, TRUE) EXCEPT !.randoms = Append(@, name)]
addExpression(env, e, info, private) ==
  Bind(Bind(Bind(env, "expressions", Text(e), e), "varTypes", Text(e), info),
       "privates", Text(e), private)
addCommittedVariable(env, name, com, dlr, info) ==
  [env EXCEPT !.varTypes = (name :> info) @@ (com :> Element(info.group)) @@ @,
              !.privates = (name :> TRUE) @@ (com :> FALSE) @@ @,
              !.commitments = (name :> com) @@ @,
              !.discreteLogs = (com :> dlr) @@ @,
              !.comsToCompute = (com :> dlr) @@ @]

----------------------------------------------------------------------------
(* TypeIdentifier.  Its isPrivate is set at the proof block and by nothing   *)
(* before: unset is what the memory held while the computation block, which  *)
(* comes first, was visited.                                                 *)
Declare(env, g, private) ==
  LET names == Elements(ItemNames(g))
      info == CASE g.kind \in {"DeclElements", "DeclGroup"} -> Element(g.group)
                [] g.kind = "DeclExponents" -> Exponent(g.group)
                [] OTHER -> VarInfo(NO_GROUP, "INTEGER")
      modulus == IF g.kind = "DeclGroup" /\ g.modulus # NoNode
                 THEN Name(g.modulus) :> VarInfo(g.group, "MODULUS") ELSE <<>>
  IN  IF g.kind = "DeclRandExponents" THEN env
      ELSE [env EXCEPT !.varTypes = [x \in names |-> info] @@ modulus @@ @,
                       !.privates = [x \in names |-> private] @@ @,
                       !.generators = IF g.kind = "DeclGroup" THEN @ \union names ELSE @]
\* Mutant: what is to be proved is as public as what is given.
TypeIdentifierGiven(env, n, unset) ==
  LET computed(e, g) == Declare(e, g, unset)
      given(e, g) == Declare(e, g, FALSE)
      e1 == IF n.comp = NoNode THEN env
            ELSE FoldLeft(computed, env, n.comp.given \o n.comp.randoms)
  IN  IF n.proof = NoNode THEN e1
      ELSE FoldLeft(given, e1, n.proof.given \o n.proof.knowledge)
TypeIdentifier(env, n, unset) ==
  LET computed(e, g) == Declare(e, g, unset)
      given(e, g) == Declare(e, g, FALSE)
      known(e, g) == Declare(e, g, TRUE)
      e1 == IF n.comp = NoNode THEN env
            ELSE FoldLeft(computed, env, n.comp.given \o n.comp.randoms)
  IN  IF n.proof = NoNode THEN e1
      ELSE FoldLeft(known, FoldLeft(given, e1, n.proof.given), n.proof.knowledge)

\* TypeChecker: the left side of an equation takes the type of the right side.
Typed(e, env) == Elements(Reads(e)) \subseteq DOMAIN env.varTypes /\ ExprType(e, env) # ErrorType
CheckRelation(env, r) ==
  IF r.kind \notin {"Equal", "DeclEqual"} THEN env
  ELSE IF Typed(r.expr, env) THEN Bind(env, "varTypes", Name(r.id), ExprType(r.expr, env))
  ELSE Throw(env)
CheckGiven(env, g) ==
  IF g.kind = "DeclRandExponents"
  THEN [env EXCEPT !.varTypes = [x \in Elements(ItemNames(g)) |-> Exponent(g.group)] @@ @]
  ELSE env
TypeChecker(env, n) == FoldLeft(CheckRelation, FoldLeft(CheckGiven, env, Givens(n)), Relations(n))

----------------------------------------------------------------------------
(* A representation says that left is the product of the bases to the exps.  *)
(* splitExpr reads one off a power or a chain of products, last factor       *)
(* first; a factor that is no power has the exponent 1.                      *)
DLR(left, group, bases, exps) == [left |-> left, group |-> group, bases |-> bases, exps |-> exps]
RECURSIVE Factors(_)
Factors(e) ==
  CASE e.kind = "Pow" -> <<[base |-> e.lhs, exp |-> e.rhs]>>
    [] e.kind = "Mul" -> Factors(e.rhs) \o Factors(e.lhs)
    [] OTHER -> <<[base |-> e, exp |-> ExprInt(1)]>>
Splits(e) == e.kind \in {"Pow", "Mul"}
splitExpr(name, e, env) ==
  LET fs == Factors(e)
  IN  DLR(name, env.varTypes[name].group,
          [i \in DOMAIN fs |-> fs[i].base], [i \in DOMAIN fs |-> fs[i].exp])

BaseNames(d) == [i \in DOMAIN d.bases |-> Text(d.bases[i])]
RECURSIVE Joined(_, _)
Joined(bases, exps) ==
  IF bases = <<>> THEN ""
  ELSE "(" \o Text(Head(bases)) \o ")^(" \o Text(Head(exps)) \o ")" \o Joined(Tail(bases), Tail(exps))
DLRText(d) == d.left \o " = " \o Joined(d.bases, d.exps) \o " in " \o d.group

\* Which of the two exponents of a commitment is the randomness: the first,
\* unless it is known as a committed value.
randIndex(d, env) == IF Text(d.exps[1]) \in DOMAIN env.commitments THEN 2 ELSE 1
randExp(d, env) == d.exps[randIndex(d, env)]
commitExp(d, env) == d.exps[3 - randIndex(d, env)]
randBase(d, env) == d.bases[randIndex(d, env)]
commitBase(d, env) == d.bases[3 - randIndex(d, env)]

computeValue(d, env) ==
  LET bs == [i \in DOMAIN d.bases |-> Eval(d.bases[i], env)]
      es == [i \in DOMAIN d.exps |-> Eval(d.exps[i], env)]
      mod == env.groups[d.group].mod
  IN  IF Len(bs) = 1 THEN modPow(env, Text(d.bases[1]), bs[1], es[1], mod)
                     ELSE multiExp(env, BaseNames(d), bs, es, mod)

\* CommitmentVisitor: the form of a commitment, and the values it commits to.
AddCommitment(env, r) ==
  LET com == Name(r.id)
      values == {Name(r.coms[i]) : i \in DOMAIN r.coms}
  IN  IF r.kind # "Commitment" THEN env
      ELSE IF ~ Splits(r.expr) \/ ~ (values \union {com} \subseteq DOMAIN env.varTypes) THEN Throw(env)
      ELSE [env EXCEPT !.discreteLogs = (com :> splitExpr(com, r.expr, env)) @@ @,
                       !.commitments = [x \in values |-> com] @@ @]
CommitmentVisitor(env, n) == FoldLeft(AddCommitment, env, Relations(n))
getCommitment(name, env) == env.discreteLogs[env.commitments[name]]

----------------------------------------------------------------------------
(* Translator: what is to be proved of each relation.                        *)
\* A base or an exponent that is not a name is to be evaluated by the prover,
\* and a base is public.
describeDLR(env, d) ==
  LET step(e, i) ==
        LET withBase == IF d.bases[i].kind = "Var" THEN e
                        ELSE addExpression(e, d.bases[i], Element(d.group), FALSE)
        IN  IF d.exps[i].kind = "Var" THEN withBase
            ELSE addExpression(withBase, d.exps[i], Exponent(d.group), TRUE)
  IN  Bind(FoldLeft(step, env, [i \in DOMAIN d.bases |-> i]), "descriptions", DLRText(d), d)

\* x = a * b by way of c_x = c_a^b * h^(r_x - b * r_a), and of the form of c_b.
describeMultiplication(env, product, factor1, factor2) ==
  LET newExp == Sub(randExp(product, env), Mul(commitExp(factor2, env), randExp(factor1, env)))
      d == DLR(product.left, product.group,
               <<VarExpr(factor1.left), randBase(factor1, env)>>,
               <<commitExp(factor2, env), newExp>>)
  IN  describeDLR(describeDLR(addExpression(env, newExp, Exponent(product.group), TRUE), d), factor2)
describeSquare(env, product, factor) == describeMultiplication(env, product, factor, factor)

\* x as the sum of four squares: for each the root and the square are committed
\* to, and the randomness of the last square makes the product come out at c_x.
describeNonNegative(env, c) ==
  LET bs == <<commitBase(c, env), randBase(c, env)>>
      info == Exponent(c.group)
      id(what, i) == "__" \o what \o "__" \o ToString(env.counter + i)
      randSquare(i) == VarExpr(id("randsquare", i))
      lastExp == Sub(randExp(c, env), Add(Add(randSquare(0), randSquare(1)), randSquare(2)))
      step(e, i) ==
        LET root == DLR(id("decomp_com", i), c.group, bs,
                        <<VarExpr(id("decomp", i)), VarExpr(id("randdecomp", i))>>)
            square == DLR(id("square_com", i), c.group, bs,
                          <<VarExpr(id("square", i)), IF i = 3 THEN lastExp ELSE randSquare(i)>>)
            committed == addCommittedVariable(
                           addCommittedVariable(e, id("decomp", i), root.left, root, info),
                           id("square", i), square.left, square, info)
            drawn == addRandomVariable(committed, id("randdecomp", i), info)
        IN  describeSquare(IF i = 3 THEN drawn ELSE addRandomVariable(drawn, id("randsquare", i), info),
                           square, root)
      done == FoldLeft(step, env, <<0, 1, 2, 3>>)
  IN  [Bind(done, "decompositions", Text(commitExp(c, env)),
            [i \in 1 .. 4 |-> [decomp |-> id("decomp", i - 1), decompSquare |-> id("square", i - 1)]])
         EXCEPT !.counter = env.counter + 5]

\* low <= x < high by way of (x - low) * (high - x) >= 0.  The commitment to x
\* is the one the program names, if it is in this group, and otherwise a new one
\* over two generators of the group.
RangeCommitment(env, x, group) ==
  LET known == Text(x) \in DOMAIN env.commitments /\ getCommitment(Text(x), env).group = group
      gens == {y \in env.generators : env.varTypes[y].group = group}
      g == CHOOSE y \in gens : TRUE
      h == CHOOSE y \in gens \ {g} : TRUE
      com == "__x_commitment__" \o ToString(env.counter)
      rand == "__randx_com__" \o ToString(env.counter)
      c == DLR(com, group, <<VarExpr(g), VarExpr(h)>>, <<x, VarExpr(rand)>>)
      old == getCommitment(Text(x), env)
  IN  CASE known -> [env |-> env, c |-> old, r |-> randExp(old, env),
                     bs |-> <<commitBase(old, env), randBase(old, env)>>]
        [] ~ known /\ \E y \in gens : gens \ {y} # {} ->
             [env |-> [addRandomVariable(env, rand, Exponent(group)) EXCEPT
                         !.discreteLogs = (com :> c) @@ @, !.varTypes = (com :> Element(group)) @@ @,
                         !.comsToCompute = (com :> c) @@ @, !.privates = (com :> FALSE) @@ @],
              c |-> c, r |-> VarExpr(rand), bs |-> c.bases]
        [] OTHER -> [env |-> Throw(env)]

describeRange(env0, x, group, low, high) ==
  LET start == RangeCommitment(env0, x, group)
      id(what) == "__" \o what \o "__" \o ToString(env0.counter)
      info == Exponent(group)
      xLo == Sub(x, low)
      hiX == Sub(high, x)
      prod == Mul(xLo, hiX)
      c == start.c
      bs == start.bs
      xLoDLR == DLR(id("xLo_commitment"), group, bs, <<xLo, start.r>>)
      hiXDLR == DLR(id("hiX_commitment"), group, bs, <<hiX, Negative(start.r)>>)
      prodDLR == DLR(id("prod_commitment"), group, bs, <<prod, VarExpr(id("randExp"))>>)
      \* the verifier makes the commitments to x - low and to high - x itself
      verifierLo == DLR(xLoDLR.left, group, <<bs[1], VarExpr(c.left)>>, <<Negative(low), ExprInt(1)>>)
      verifierHi == DLR(hiXDLR.left, group, <<bs[1], VarExpr(c.left)>>,
                        <<high, Negative(ExprInt(1))>>)
      prepared == [addExpression(start.env, Negative(start.r), info, TRUE) EXCEPT
                     !.expressions = (Text(xLo) :> xLo) @@ (Text(hiX) :> hiX) @@ (Text(prod) :> prod) @@ @,
                     !.rangeComs = (xLoDLR.left :> verifierLo) @@ (hiXDLR.left :> verifierHi) @@ @,
                     !.counter = @ + 1]
      committed == addCommittedVariable(addCommittedVariable(addCommittedVariable(
                     addRandomVariable(prepared, id("randExp"), info),
                     Text(xLo), xLoDLR.left, xLoDLR, info),
                     Text(hiX), hiXDLR.left, hiXDLR, info),
                     Text(prod), prodDLR.left, prodDLR, info)
      described == describeNonNegative(describeMultiplication(committed, prodDLR, xLoDLR, hiXDLR), prodDLR)
  IN  IF ~ start.env.ok THEN start.env
      ELSE [described EXCEPT !.privates = (xLoDLR.left :> TRUE) @@ (hiXDLR.left :> TRUE) @@ @]

----------------------------------------------------------------------------
(* DescribeRelations: a product or a power of exponents is proved of the     *)
(* commitments to its sides, an equation between elements as it stands, and  *)
(* a range when its lower bound is closed and its upper one open.  (That the *)
(* group of a range is an RSA group is asked of env.groups, which check      *)
(* fills in only afterwards.)                                                *)
Committed(names, env) ==
  \A x \in names : /\ x \in DOMAIN env.commitments
                  /\ Len(getCommitment(x, env).exps) = 2
DescribeEqual(env, r) ==
  LET e == r.expr
      id == Name(r.id)
      type == ExprType(e, env).type
      sides == IF e.kind = "Mul" THEN <<e.lhs, e.rhs>> ELSE <<e.lhs, e.lhs>>
      names == {VarName(sides[i]) : i \in 1 .. 2}
      com(x) == getCommitment(x, env)
  IN  CASE Splits(e) /\ type = "ELEMENT" -> describeDLR(env, splitExpr(id, e, env))
        [] /\ Splits(e) /\ type = "EXPONENT"
           /\ sides[1].kind = "Var" /\ sides[2].kind = "Var"
           /\ Committed({id} \union names, env) ->
             describeMultiplication(env, com(id), com(VarName(sides[1])), com(VarName(sides[2])))
        [] OTHER -> Throw(env)
DescribeRange(env, r) ==
  IF \/ r.lowerStrict \/ ~ r.upperStrict
     \/ r.group \in DOMAIN env.groups /\ env.groups[r.group].type # "RSA"
  THEN Throw(env)
  ELSE describeRange(env, r.center, r.group, r.lower, r.upper)
DescribeRelation(env, r) ==
  CASE ~ env.ok -> env
    [] r.kind = "Equal" -> DescribeEqual(env, r)
    [] r.kind = "Range" -> DescribeRange(env, r)
    [] OTHER -> env
DescribeRelations(env, n) == FoldLeft(DescribeRelation, env, Relations(n))

----------------------------------------------------------------------------
(* BindGroupValues: the generators a program names, in order, are those of   *)
(* the group it is given, and its modulus that of the group.                 *)
BindGroup(env, g) ==
  IF g.kind # "DeclGroup" THEN env
  ELSE LET grp == env.groups[g.group]
           names == ItemNames(g)
       IN  [env EXCEPT !.variables =
              [x \in Elements(names) |-> grp.gens[CHOOSE i \in DOMAIN names : names[i] = x]]
              @@ (IF g.modulus = NoNode THEN <<>> ELSE Name(g.modulus) :> grp.mod) @@ @]
BindGroupValues(env, n) == FoldLeft(BindGroup, env, Givens(n))

(* Interpreter::check on a parsed program: the passes, the environment, and, *)
(* when the groups are given already, the generators and the powers of the   *)
(* bases that have a value by then.                                          *)
cachePowers(env) ==
  LET known == {d \in {env.descriptions[t] : t \in DOMAIN env.descriptions} :
                  \A i \in DOMAIN d.bases : Text(d.bases[i]) \in DOMAIN env.variables}
      keys == {BaseNames(d) : d \in known}
  IN  [env EXCEPT !.cache =
         [k \in {x \in keys : Len(x) <= 4} |-> [i \in DOMAIN k |-> env.variables[k[i]]]]]
Compile(n, inputs, groups, unset) ==
  LET tree == ForExpander(Constants(n, inputs))
      typed == TypeChecker(TypeIdentifier(EmptyEnvironment, tree, unset), tree)
      committed == IF typed.ok THEN CommitmentVisitor(typed, tree) ELSE typed
      described == DescribeRelations(committed, tree)
      bound == cachePowers(BindGroupValues([described EXCEPT !.groups = groups], tree))
  IN  IF ~ Expands(tree) \/ UndefinedVariables(tree) # {}
      THEN [tree |-> tree, env |-> Throw(EmptyEnvironment)]
      ELSE [tree |-> tree, env |-> IF described.ok /\ groups # <<>> THEN bound ELSE described]
=============================================================================
