------------------------------ MODULE ZKPPasses ------------------------------
(* The passes over a parsed program that Interpreter::check makes before it  *)
(* describes the relations: constants are put in and folded, loops expanded, *)
(* and the names looked at and given types.  Each pass is an operator on the *)
(* tree; a visitor's method for a class is a case of it.                     *)
EXTENDS ZKPNodes

LOCAL INSTANCE SequencesExt

EachOf(Op(_), s) == [i \in DOMAIN s |-> Op(s[i])]
Elements(s) == {s[i] : i \in DOMAIN s}

\* A tree with the expressions of its nodes replaced; the visitors differ in
\* what they do to an expression, to an identifier and to a list.
MapDecl(OnExpr(_), OnIdent(_), d) ==
  IF d.kind = "DeclIDRange"
  THEN [d EXCEPT !.lbound = OnExpr(@), !.ubound = OnExpr(@)]
  ELSE OnIdent(d)

----------------------------------------------------------------------------
(* ConstantSub: an input takes the place of its name wherever an expression  *)
(* is expected, and of a subscript.                                          *)
SubIdent(id, in) == IF id.sub \in DOMAIN in THEN [id EXCEPT !.sub = ToString(in[@])] ELSE id

RECURSIVE SubExpr(_, _)
SubExpr(e, in) ==
  CASE e.kind = "Int" -> e
    [] e.kind = "Var" -> IF VarName(e) \in DOMAIN in THEN ExprInt(in[VarName(e)])
                                                     ELSE ExprIdentifier(SubIdent(e.id, in))
    [] e.kind = "Neg" -> [e EXCEPT !.expr = SubExpr(@, in)]
    [] e.kind = "ForExpr" -> [e EXCEPT !.lbound = SubExpr(@, in), !.ubound = SubExpr(@, in),
                                       !.expr = SubExpr(@, in)]
    [] OTHER -> [e EXCEPT !.lhs = SubExpr(@, in), !.rhs = SubExpr(@, in)]

\* The left side of a relation and the names of a commitment stay as they are.
RECURSIVE SubRel(_, _)
SubRel(r, in) ==
  CASE r.kind = "ForRel" -> [r EXCEPT !.lbound = SubExpr(@, in), !.ubound = SubExpr(@, in),
                                      !.rel = SubRel(@, in)]
    [] r.kind = "Range"  -> [r EXCEPT !.lower = SubExpr(@, in), !.center = SubExpr(@, in),
                                      !.upper = SubExpr(@, in)]
    [] OTHER -> [r EXCEPT !.expr = SubExpr(@, in)]

SubDecl(d, in) ==
  LET onExpr(e) == SubExpr(e, in)
      onIdent(id) == SubIdent(id, in)
  IN  MapDecl(onExpr, onIdent, d)

SubGiven(g, in) ==
  LET decl(d) == SubDecl(d, in)
      rel(r) == SubRel(r, in)
  IN  CASE g.kind = "RandomBnd"   -> [g EXCEPT !.lbound = SubExpr(@, in), !.ubound = SubExpr(@, in)]
        [] g.kind = "RandomPrime" -> [g EXCEPT !.length = SubExpr(@, in)]
        [] g.kind = "DeclElements" ->
             [g EXCEPT !.items = EachOf(decl, @), !.relations = EachOf(rel, @)]
        [] g.kind = "DeclGroup" /\ g.modulus # NoNode ->
             [g EXCEPT !.items = EachOf(decl, @), !.modulus = SubIdent(@, in)]
        [] OTHER -> [g EXCEPT !.items = EachOf(decl, @)]

\* A program with OnGiven done to its declarations and OnRel to its relations.
MapSpec(OnGiven(_), OnRel(_), n) ==
  [n EXCEPT
     !.comp  = IF @ = NoNode THEN @
               ELSE [@ EXCEPT !.given = EachOf(OnGiven, @), !.randoms = EachOf(OnGiven, @),
                              !.relations = EachOf(OnRel, @)],
     !.proof = IF @ = NoNode THEN @
               ELSE [@ EXCEPT !.given = EachOf(OnGiven, @), !.knowledge = EachOf(OnGiven, @),
                              !.suchThat = EachOf(OnRel, @)]]

ConstantSub(n, in) ==
  LET given(g) == SubGiven(g, in)
      rel(r) == SubRel(r, in)
  IN  MapSpec(given, rel, n)

----------------------------------------------------------------------------
(* ConstantProp: a side of an operation that has a value in an environment   *)
(* with nothing in it becomes that value.  A division and a power look for   *)
(* a group there, find none, and therefore never fold.                       *)
RECURSIVE Folds(_)
Folds(e) ==
  CASE e.kind = "Int" -> TRUE
    [] e.kind = "Neg" -> Folds(e.expr)
    [] e.kind \in {"Add", "Sub", "Mul"} -> Folds(e.lhs) /\ Folds(e.rhs)
    [] OTHER -> FALSE

RECURSIVE PropExpr(_)
PropSide(e) == IF Folds(e) THEN ExprInt(Eval(e, NoEnvironment)) ELSE PropExpr(e)
PropExpr(e) ==
  CASE e.kind \in {"Int", "Var"} -> e
    [] e.kind = "Neg" -> [e EXCEPT !.expr = PropSide(@)]
    [] e.kind = "ForExpr" -> [e EXCEPT !.lbound = PropSide(@), !.ubound = PropSide(@),
                                       !.expr = PropSide(@)]
    [] OTHER -> [e EXCEPT !.lhs = PropSide(@), !.rhs = PropSide(@)]

\* Only the bounds of a loop over relations are folded: nothing is done in a
\* relation, in the bounds of a random number or in a commitment.
PropRel(r) ==
  IF r.kind = "ForRel" THEN [r EXCEPT !.lbound = PropSide(@), !.ubound = PropSide(@)] ELSE r
PropGiven(g) ==
  LET same(id) == id
      decl(d) == MapDecl(PropSide, same, d)
  IN  CASE g.kind \in {"RandomBnd", "RandomPrime"} -> g
        [] g.kind = "DeclElements" ->
             [g EXCEPT !.items = EachOf(decl, @), !.relations = EachOf(PropRel, @)]
        [] OTHER -> [g EXCEPT !.items = EachOf(decl, @)]
ConstantProp(n) == MapSpec(PropGiven, PropRel, n)

----------------------------------------------------------------------------
(* The two run in turn until a pass puts no constant into an operation and   *)
(* declares no name equal to a constant, which is then one more input.       *)
RECURSIVE Exprs(_)
Exprs(e) ==
  {e} \union CASE e.kind \in {"Int", "Var", "None"} -> {}
               [] e.kind = "Neg" -> Exprs(e.expr)
               [] e.kind = "ForExpr" -> Exprs(e.lbound) \union Exprs(e.ubound) \union Exprs(e.expr)
               [] OTHER -> Exprs(e.lhs) \union Exprs(e.rhs)
RECURSIVE RelExprs(_)
RelExprs(r) ==
  CASE r.kind = "ForRel" -> Exprs(r.lbound) \union Exprs(r.ubound) \union RelExprs(r.rel)
    [] r.kind = "Range"  -> Exprs(r.lower) \union Exprs(r.center) \union Exprs(r.upper)
    [] OTHER -> Exprs(r.expr)
Givens(n) ==
  (IF n.comp = NoNode THEN <<>> ELSE n.comp.given \o n.comp.randoms)
  \o (IF n.proof = NoNode THEN <<>> ELSE n.proof.given \o n.proof.knowledge)
Relations(n) ==
  (IF n.comp = NoNode THEN <<>> ELSE n.comp.relations)
  \o FlattenSeq([i \in DOMAIN Givens(n) |->
                   IF Givens(n)[i].kind = "DeclElements" THEN Givens(n)[i].relations ELSE <<>>])
  \o (IF n.proof = NoNode THEN <<>> ELSE n.proof.suchThat)

GivenExprs(g) ==
  UNION {Exprs(d.lbound) \union Exprs(d.ubound) :
           d \in {i \in Elements(g.items) : i.kind = "DeclIDRange"}}
  \union CASE g.kind = "RandomBnd"   -> Exprs(g.lbound) \union Exprs(g.ubound)
           [] g.kind = "RandomPrime" -> Exprs(g.length)
           [] OTHER -> {}
AllExprs(n) == UNION {RelExprs(r) : r \in Elements(Relations(n))}
               \union UNION {GivenExprs(g) : g \in Elements(Givens(n))}

IsInput(e, in) == e.kind = "Var" /\ VarName(e) \in DOMAIN in
NewInputs(n, in) ==
  [id \in {Name(r.id) : r \in {q \in Elements(Relations(n)) :
                                 q.kind = "DeclEqual" /\ IsInput(q.expr, in)}}
     |-> in[VarName((CHOOSE q \in Elements(Relations(n)) :
                       q.kind = "DeclEqual" /\ Name(q.id) = id /\ IsInput(q.expr, in)).expr)]]
NewConstant(n, in) ==
  \/ NewInputs(n, in) # <<>>
  \/ \E e \in AllExprs(n) :
        e.kind \in BinaryOps /\ (IsInput(e.lhs, in) \/ IsInput(e.rhs, in))
RECURSIVE Constants(_, _)
Constants(n, in) ==
  LET once == ConstantProp(ConstantSub(n, in))
  IN  IF NewConstant(n, in) THEN Constants(once, NewInputs(n, in) @@ in) ELSE once

----------------------------------------------------------------------------
(* ForExpander: a loop becomes the balanced tree of its copies, a loop over  *)
(* relations its copies.  cur is indexToCur, the values of the indices; an   *)
(* index keeps its last value after its loop.  An operator gives the tree t  *)
(* and the indices after it; a tree that the code cannot expand is NoNode.   *)
Expanded(t, cur) == [t |-> t, cur |-> cur]
AtIndex(id, cur) == IF id.sub \in DOMAIN cur THEN [id EXCEPT !.sub = ToString(cur[@])] ELSE id

\* lookupBound: an index, an integer, or an operation on integers alone.
HasBound(e, cur) ==
  \/ e.kind = "Int"
  \/ e.kind = "Var" /\ VarName(e) \in DOMAIN cur
  \/ e.kind \in BinaryOps /\ Folds(e)
lookupBound(e, cur) == IF e.kind = "Var" THEN cur[VarName(e)] ELSE Eval(e, NoEnvironment)
HasBounds(f, cur) ==
  /\ HasBound(f.lbound, cur) /\ HasBound(f.ubound, cur)
  /\ lookupBound(f.lbound, cur) <= lookupBound(f.ubound, cur)
Runs(f, cur) ==
  [i \in 1 .. (lookupBound(f.ubound, cur) - lookupBound(f.lbound, cur) + 1)
     |-> lookupBound(f.lbound, cur) + i - 1]

\* The copies wait in a queue: the first two become one that waits in turn.
RECURSIVE Balanced(_, _)
Balanced(op, q) ==
  IF Len(q) = 1 THEN q[1]
  ELSE Balanced(op, Append(SubSeq(q, 3, Len(q)), BinaryOp(op, q[1], q[2])))

RECURSIVE Expand(_, _)
Expand(e, cur) ==
  CASE e.kind = "Int" -> Expanded(e, cur)
    [] e.kind = "Var" -> Expanded(ExprIdentifier(AtIndex(e.id, cur)), cur)
    [] e.kind = "Neg" -> LET x == Expand(e.expr, cur) IN Expanded(Negative(x.t), x.cur)
    [] e.kind = "ForExpr" ->
         IF ~ HasBounds(e, cur) THEN Expanded(NoNode, cur)
         ELSE LET copy(acc, x) == LET c == Expand(e.expr, (e.index :> x) @@ acc.cur)
                                  IN  Expanded(Append(acc.t, c.t), c.cur)
                  all == FoldLeft(copy, Expanded(<<>>, cur), Runs(e, cur))
              IN  Expanded(Balanced(IF e.op = "*" THEN "Mul" ELSE "Add", all.t), all.cur)
    [] OTHER -> LET l == Expand(e.lhs, cur)
                    r == Expand(e.rhs, l.cur)
                IN  Expanded(BinaryOp(e.kind, l.t, r.t), r.cur)

\* A loop stands where the visitor looks for one: as the side of an operation
\* or as the whole of an equation.
Whole(e, cur) == IF e.kind = "ForExpr" THEN Expanded(NoNode, cur) ELSE Expand(e, cur)
ExpandOne(r, cur) ==
  CASE r.kind = "Commitment" ->
         LET e == Whole(r.expr, cur)
         IN  Expanded(Commitment([i \in DOMAIN r.coms |-> AtIndex(r.coms[i], cur)],
                                 AtIndex(r.id, cur), e.t), e.cur)
    [] r.kind = "Range" ->
         LET l == Whole(r.lower, cur)
             c == Whole(r.center, l.cur)
             u == Whole(r.upper, c.cur)
         IN  Expanded([r EXCEPT !.lower = l.t, !.center = c.t, !.upper = u.t], u.cur)
    [] OTHER -> LET e == Expand(r.expr, cur)
                IN  Expanded([r EXCEPT !.id = AtIndex(@, cur), !.expr = e.t], e.cur)

\* applyASTListRelation: the copies of the loops go behind all the others.
ExpandRels(rels, cur) ==
  LET step(acc, r) ==
        IF r.kind # "ForRel"
        THEN LET x == ExpandOne(r, acc.cur)
             IN  [acc EXCEPT !.plain = Append(@, x.t), !.cur = x.cur]
        ELSE LET copy(a, i) == LET x == ExpandOne(r.rel, (r.index :> i) @@ a.cur)
                               IN  [a EXCEPT !.looped = Append(@, x.t), !.cur = x.cur]
             IN  IF HasBounds(r, acc.cur)
                 THEN FoldLeft(copy, acc, Runs(r, acc.cur))
                 ELSE [acc EXCEPT !.plain = Append(@, Equal(Plain(""), NoNode))]
      all == FoldLeft(step, [plain |-> <<>>, looped |-> <<>>, cur |-> cur], rels)
  IN  Expanded(all.plain \o all.looped, all.cur)

ExpandGivens(gs, cur) ==
  LET step(acc, g) ==
        LET at(id) == AtIndex(id, acc.cur)
            same(e) == e
            decl(d) == MapDecl(same, at, d)
            items == EachOf(decl, g.items)
        IN  IF g.kind # "DeclElements"
            THEN Expanded(Append(acc.t, [g EXCEPT !.items = items]), acc.cur)
            ELSE LET x == ExpandRels(g.relations, acc.cur)
                 IN  Expanded(Append(acc.t, [g EXCEPT !.items = items, !.relations = x.t]), x.cur)
  IN  FoldLeft(step, Expanded(<<>>, cur), gs)

ForExpander(n) ==
  LET g1 == ExpandGivens(IF n.comp = NoNode THEN <<>> ELSE n.comp.given, <<>>)
      c1 == ExpandGivens(IF n.comp = NoNode THEN <<>> ELSE n.comp.randoms, g1.cur)
      r1 == ExpandRels(IF n.comp = NoNode THEN <<>> ELSE n.comp.relations, c1.cur)
      g2 == ExpandGivens(IF n.proof = NoNode THEN <<>> ELSE n.proof.given, r1.cur)
      k2 == ExpandGivens(IF n.proof = NoNode THEN <<>> ELSE n.proof.knowledge, g2.cur)
      r2 == ExpandRels(IF n.proof = NoNode THEN <<>> ELSE n.proof.suchThat, k2.cur)
  IN  [n EXCEPT
         !.comp  = IF @ = NoNode THEN @
                   ELSE [@ EXCEPT !.given = g1.t, !.randoms = c1.t, !.relations = r1.t],
         !.proof = IF @ = NoNode THEN @
                   ELSE [@ EXCEPT !.given = g2.t, !.knowledge = k2.t, !.suchThat = r2.t]]
Expands(n) == NoNode \notin UNION {RelExprs(r) : r \in Elements(Relations(n))}

----------------------------------------------------------------------------
(* UndefinedVariables: what the tree mentions, in the order of the visit, is *)
(* marked in a map twice over, and a name that is marked false is refused.   *)
(* (Whichever side of its assignments the compiler evaluates first: at the   *)
(* second visit every name is in the map.)                                   *)
NamesOf(d) ==
  IF d.kind = "DeclIDRange"
  THEN [i \in 1 .. (d.ubound.val - d.lbound.val + 1)
          |-> d.base \o "_" \o ToString(d.lbound.val + i - 1)]
  ELSE <<Name(d)>>
ItemNames(g) == FlattenSeq([i \in DOMAIN g.items |-> NamesOf(g.items[i])])
Declared(names) == [i \in DOMAIN names |-> <<"declared", names[i]>>]
Used(names) == [i \in DOMAIN names |-> <<"used", names[i]>>]
RelMentions(r) ==
  LET reads == IF r.kind = "Range" THEN Reads(r.lower) \o Reads(r.center) \o Reads(r.upper)
                                    ELSE Reads(r.expr)
  IN  CASE r.kind = "DeclEqual"  -> Declared(<<Name(r.id)>>) \o Used(reads)
        [] r.kind = "Equal"      -> Used(<<Name(r.id)>> \o reads)
        [] r.kind = "Commitment" -> Used([i \in DOMAIN r.coms |-> Name(r.coms[i])]
                                         \o <<Name(r.id)>> \o reads)
        [] OTHER -> Used(<<r.group>> \o reads)
GivenMentions(g) ==
  CASE g.kind = "DeclGroup" ->
         Declared(<<g.group>> \o ItemNames(g)
                  \o (IF g.modulus = NoNode THEN <<>> ELSE <<Name(g.modulus)>>))
    [] g.kind = "DeclElements" ->
         Used(<<g.group>>) \o Declared(ItemNames(g))
         \o FlattenSeq([i \in DOMAIN g.relations |-> RelMentions(g.relations[i])])
    [] g.kind \in {"DeclExponents", "DeclRandExponents"} ->
         Used(<<g.group>>) \o Declared(ItemNames(g))
    [] OTHER -> Declared(ItemNames(g))
Mentions(n) ==
  LET all(gs, rs) == FlattenSeq([i \in DOMAIN gs |-> GivenMentions(gs[i])])
                     \o FlattenSeq([i \in DOMAIN rs |-> RelMentions(rs[i])])
  IN  (IF n.comp = NoNode THEN <<>>
       ELSE all(n.comp.given \o n.comp.randoms, n.comp.relations))
      \o (IF n.proof = NoNode THEN <<>>
          ELSE all(n.proof.given \o n.proof.knowledge, n.proof.suchThat))

\* A visit marks a name by its last mention: a use is true of a name that was in
\* the map by then.
Visit(mentions, defined) ==
  LET at(x) == {i \in DOMAIN mentions : mentions[i][2] = x}
      last(x) == CHOOSE i \in at(x) : \A j \in at(x) : j <= i
  IN  [x \in {m[2] : m \in Elements(mentions)} |->
         mentions[last(x)][1] = "declared" \/ x \in DOMAIN defined \/ at(x) # {last(x)}] @@ defined
UndefinedVariables(n) ==
  LET defined == Visit(Mentions(n), Visit(Mentions(n), <<>>))
  IN  {x \in DOMAIN defined : ~ defined[x]}
=============================================================================
