------------------------------ MODULE ZKPParser ------------------------------
(* The parser of the proof language (ZKPParser.cpp, generated from zkp.g).   *)
(* A program is a sequence of tokens.  Each operator parses one rule from    *)
(* the tokens that are left and gives the tree n and the tokens s after it;  *)
(* a mismatch, where the code throws, leaves Bad, which nothing matches.  A  *)
(* group, an index and the base of a range are named by their identifier.    *)
EXTENDS ZKPNodes

MAX_LITERAL == 64
LiteralValue == [t \in {ToString(i) : i \in 0 .. MAX_LITERAL}
                   |-> CHOOSE i \in 0 .. MAX_LITERAL : ToString(i) = t]
Words == {"computation", "given", "compute", "proof", "prove", "knowledge", "of", "such",
          "that", "group", "modulus", "element", "elements", "exponent", "exponents",
          "integer", "integers", "in", "random", "prime", "primes", "length",
          "commitment", "to", "for", "range"}
Signs == {"(", ")", "[", "]", "{", "}", ",", ";", ":", ":=", "=", "<", ">", "<=", ">=",
          "+", "-", "*", "/", "^", "&", "_"}
Bad == <<"error">>

LA(s) == IF s = <<>> THEN "EOF" ELSE Head(s)
IsId(t) == t \notin Words \union Signs \union DOMAIN LiteralValue \union {"EOF", "error"}
Is(s, t) == LA(s) = t
Starts(s, ts) == LA(s) \in ts
Drop(s, n) == SubSeq(s, n + 1, Len(s))
Match(s, ts) == IF Len(s) >= Len(ts) /\ SubSeq(s, 1, Len(ts)) = ts THEN Drop(s, Len(ts)) ELSE Bad
Result(n, s) == [n |-> n, s |-> s]
Failed == Result(NoNode, Bad)
MatchIn(s, ts) == IF Starts(s, ts) THEN Tail(s) ELSE Bad

----------------------------------------------------------------------------
\* Identifiers.
Identifier(s) == IF IsId(LA(s)) THEN Result(LA(s), Tail(s)) ELSE Result("", Bad)
Subscripted(Make(_, _), s) ==
  IF ~ IsId(LA(s)) THEN Failed
  ELSE IF LA(Tail(s)) # "_" THEN Result(Make(LA(s), ""), Tail(s))
  ELSE IF Len(s) > 2 /\ (IsId(s[3]) \/ s[3] \in DOMAIN LiteralValue)
       THEN Result(Make(s[1], s[3]), Drop(s, 3))
       ELSE Failed
SubscriptIdentifier(s) == Subscripted(Ident, s)
SubscriptIdentifierDecl(s) == Subscripted(DeclIdent, s)

RECURSIVE IdSubList(_)
IdSubList(s) ==
  LET i == SubscriptIdentifier(s)
      rest == IdSubList(Tail(i.s))
  IN  IF Is(i.s, ",") THEN Result(<<i.n>> \o rest.n, rest.s) ELSE Result(<<i.n>>, i.s)

----------------------------------------------------------------------------
\* Expressions: sums of products of powers, an operator taking the side to
\* its left first; a power takes one exponent, and a sign binds closer than it.
RECURSIVE Expression(_), Sums(_, _), ProdExpr(_), Products(_, _), PowExpr(_),
          UnaryExpr(_), BaseExpr(_), LoopExpr(_)
Expression(s) == LET p == ProdExpr(s) IN Sums(p.n, p.s)
Sums(n, s) ==
  LET p == ProdExpr(Tail(s))
  IN  CASE Is(s, "+") -> Sums(Add(n, p.n), p.s)
        [] Is(s, "-") -> Sums(Sub(n, p.n), p.s)
        [] OTHER -> Result(n, s)
ProdExpr(s) == LET p == PowExpr(s) IN Products(p.n, p.s)
Products(n, s) ==
  LET p == PowExpr(Tail(s))
  IN  CASE Is(s, "*") -> Products(Mul(n, p.n), p.s)
        [] Is(s, "/") -> Products(Div(n, p.n), p.s)
        [] OTHER -> Result(n, s)
PowExpr(s) ==
  LET b == UnaryExpr(s)
      e == UnaryExpr(Tail(b.s))
  IN  IF Is(b.s, "^") THEN Result(Pow(b.n, e.n), e.s) ELSE b
UnaryExpr(s) ==
  LET b == BaseExpr(Tail(s))
  IN  IF Is(s, "-") THEN Result(Negative(b.n), b.s) ELSE BaseExpr(s)
BaseExpr(s) ==
  CASE LA(s) \in DOMAIN LiteralValue -> Result(ExprInt(LiteralValue[LA(s)]), Tail(s))
    [] IsId(LA(s)) -> LET i == SubscriptIdentifier(s) IN Result(ExprIdentifier(i.n), i.s)
    [] Is(s, "(")  -> LET e == Expression(Tail(s)) IN Result(e.n, Match(e.s, <<")">>))
    [] Is(s, "for") -> LoopExpr(s)
    [] OTHER -> Failed

\* The head of a loop, "for (index, low : high,".
LoopHead(s) ==
  LET i == Identifier(Match(s, <<"for", "(">>))
      lo == Expression(Match(i.s, <<",">>))
      hi == Expression(Match(lo.s, <<":">>))
  IN  Result([index |-> i.n, lo |-> lo.n, hi |-> hi.n], Match(hi.s, <<",">>))
LoopExpr(s) ==
  LET h == LoopHead(s)
      e == Expression(Match(MatchIn(h.s, {"+", "*"}), <<",">>))
  IN  Result(ForExpr(h.n.index, h.n.lo, h.n.hi, LA(h.s), e.n), Match(e.s, <<")">>))

----------------------------------------------------------------------------
\* Relations.
EqualRelation(s) ==
  LET i == SubscriptIdentifier(s)
      e == Expression(Match(i.s, <<"=">>))
  IN  Result(Equal(i.n, e.n), e.s)
EqualDeclRelation(s) ==
  LET i == SubscriptIdentifierDecl(s)
      e == Expression(Match(i.s, <<":=">>))
  IN  Result(DeclEqual(i.n, e.n), e.s)
GenEqual(s) == IF Is(SubscriptIdentifier(s).s, ":=") THEN EqualDeclRelation(s) ELSE EqualRelation(s)
ComRelation(s) ==
  LET coms == IdSubList(Match(s, <<"commitment", "to">>))
      i == SubscriptIdentifier(Match(coms.s, <<":">>))
      e == Expression(Match(i.s, <<"=">>))
  IN  Result(Commitment(coms.n, i.n, e.n), e.s)

\* "l < c <= r" and "l >= c > r" give the same tree, the smaller bound first.
RangeRelation(s) ==
  LET g == Identifier(Match(s, <<"range", "in">>))
      l == Expression(Match(g.s, <<":">>))
      signs == IF Starts(l.s, {"<", "<="}) THEN {"<", "<="} ELSE {">", ">="}
      c == Expression(MatchIn(l.s, signs))
      r == Expression(MatchIn(c.s, signs))
      lStrict == Starts(l.s, {"<", ">"})
      rStrict == Starts(c.s, {"<", ">"})
  IN  Result(IF "<" \in signs THEN RangeRel(g.n, l.n, lStrict, c.n, rStrict, r.n)
                              ELSE RangeRel(g.n, r.n, rStrict, c.n, lStrict, l.n), r.s)

LoopOf(Rule(_), s) ==
  LET h == LoopHead(s)
      r == Rule(h.s)
  IN  Result(ForRel(h.n.index, h.n.lo, h.n.hi, r.n), Match(r.s, <<")">>))
ForRelation(s) ==
  LET body(t) == IF Is(t, "range") THEN RangeRelation(t) ELSE GenEqual(t)
  IN  LoopOf(body, s)
ForCom(s) == LoopOf(ComRelation, s)

ElementsEquation(s) == IF Is(s, "for") THEN ForCom(s) ELSE ComRelation(s)
ComputeEquation(s) ==
  CASE Is(s, "for") -> ForRelation(s)
    [] Is(s, "commitment") -> ComRelation(s)
    [] OTHER -> EqualDeclRelation(s)
SuchThatRel(s) ==
  CASE Is(s, "for") -> ForRelation(s)
    [] Is(s, "range") -> RangeRelation(s)
    [] OTHER -> EqualRelation(s)

----------------------------------------------------------------------------
\* Declarations: a name, or a range x[1:3] that stands for x_1, x_2 and x_3.
IdDeclRange(s) ==
  LET lo == Expression(Match(Tail(s), <<"[">>))
      hi == Expression(Match(lo.s, <<":">>))
  IN  Result(DeclIDRange(LA(s), lo.n, hi.n), Match(hi.s, <<"]">>))
IdDeclGeneral(s) ==
  IF IsId(LA(s)) /\ Is(Tail(s), "[") THEN IdDeclRange(s) ELSE SubscriptIdentifierDecl(s)

RECURSIVE IdGeneralDeclList(_)
IdGeneralDeclList(s) ==
  LET i == IdDeclGeneral(s)
      rest == IdGeneralDeclList(Tail(i.s))
  IN  IF Is(i.s, ",") THEN Result(<<i.n>> \o rest.n, rest.s) ELSE Result(<<i.n>>, i.s)

SetDecl(s) ==
  LET l == IdGeneralDeclList(Match(s, <<"<">>)) IN Result(l.n, Match(l.s, <<">">>))

\* "exponents in G: ids", said of declared and of random exponents.
ExponentsIn(Make(_, _), s) ==
  LET g == Identifier(Match(MatchIn(s, {"exponent", "exponents"}), <<"in">>))
      l == IdGeneralDeclList(Match(g.s, <<":">>))
  IN  Result(Make(g.n, l.n), l.s)
ExponentDecl(s) == ExponentsIn(DeclExponents, s)
RandExponentDecl(s) == ExponentsIn(DeclRandExponents, s)

IntegerDecl(s) ==
  LET l == IdGeneralDeclList(Match(MatchIn(s, {"integer", "integers"}), <<":">>))
  IN  Result(DeclIntegers(l.n), l.s)

\* The tokens that may come after a group or after a list of elements.
AfterGiven == {"compute", "prove", "group", "integer", "integers", "exponent", "exponents",
               "element", "elements"}

\* The generators and the name of the modulus may each be left out.
GroupDecl(s) ==
  LET g == Identifier(Match(s, <<"group", ":">>))
      gens == IF Is(g.s, "=") THEN SetDecl(Tail(g.s)) ELSE Result(<<>>, g.s)
      m == IF Is(gens.s, "modulus") THEN SubscriptIdentifierDecl(Match(Tail(gens.s), <<":">>))
                                    ELSE Result(NoNode, gens.s)
  IN  IF Starts(m.s, AfterGiven) \/ m.n # NoNode
      THEN Result(DeclGroup(g.n, gens.n, m.n), m.s) ELSE Failed

RECURSIVE ElementsEquationList(_)
ElementsEquationList(s) ==
  LET r == ElementsEquation(s)
      rest == ElementsEquationList(r.s)
  IN  IF Starts(r.s, {"for", "commitment"}) THEN Result(<<r.n>> \o rest.n, rest.s)
                                            ELSE Result(<<r.n>>, r.s)

ElementsDecl(s) ==
  LET g == Identifier(Match(MatchIn(s, {"element", "elements"}), <<"in">>))
      t == Match(g.s, <<":">>)
      ids == IF IsId(LA(t)) THEN IdGeneralDeclList(t) ELSE Result(<<>>, t)
      el == IF Starts(ids.s, {"for", "commitment"}) THEN ElementsEquationList(ids.s)
                                                    ELSE Result(<<>>, ids.s)
  IN  IF Starts(el.s, AfterGiven) THEN Result(DeclElements(g.n, ids.n, el.n), el.s)
                                  ELSE Failed

RandomPrimeDecl(s) ==
  LET e == Expression(Match(MatchIn(s, {"prime", "primes"}), <<"of", "length">>))
      l == IdGeneralDeclList(Match(e.s, <<":">>))
  IN  Result(RandomPrime(e.n, l.n), l.s)
RandomBndDecl(s) ==
  LET lo == Expression(Match(MatchIn(s, {"integer", "integers"}), <<"in", "[">>))
      hi == Expression(Match(lo.s, <<",">>))
      l == IdGeneralDeclList(Match(hi.s, <<")", ":">>))
  IN  Result(RandomBnd(lo.n, hi.n, l.n), l.s)

----------------------------------------------------------------------------
\* The lists of the blocks, and the blocks.
Given1(s) ==
  CASE Is(s, "group") -> GroupDecl(s)
    [] Starts(s, {"element", "elements"})   -> ElementsDecl(s)
    [] Starts(s, {"exponent", "exponents"}) -> ExponentDecl(s)
    [] Starts(s, {"integer", "integers"})   -> IntegerDecl(s)
    [] OTHER -> Failed
RECURSIVE GivenList(_)
GivenList(s) ==
  LET d == Given1(s)
      rest == GivenList(d.s)
  IN  IF Starts(d.s, AfterGiven \ {"compute", "prove"})
      THEN Result(<<d.n>> \o rest.n, rest.s) ELSE Result(<<d.n>>, d.s)

RECURSIVE KnowledgeList(_)
KnowledgeList(s) ==
  LET d == IF Starts(s, {"exponent", "exponents"}) THEN ExponentDecl(s) ELSE IntegerDecl(s)
      rest == KnowledgeList(d.s)
  IN  IF Starts(d.s, {"exponent", "exponents", "integer", "integers"})
      THEN Result(<<d.n>> \o rest.n, rest.s) ELSE Result(<<d.n>>, d.s)

RECURSIVE ComputeRandomList(_)
ComputeRandomList(s) ==
  LET t == Tail(s)
      d == CASE Starts(t, {"exponent", "exponents"}) -> RandExponentDecl(t)
             [] Starts(t, {"prime", "primes"}) -> RandomPrimeDecl(t)
             [] OTHER -> RandomBndDecl(t)
      rest == ComputeRandomList(d.s)
  IN  IF Is(s, "random") THEN Result(<<d.n>> \o rest.n, rest.s) ELSE Result(<<>>, s)

RECURSIVE ComputeEquationList(_)
ComputeEquationList(s) ==
  LET r == ComputeEquation(s)
      rest == ComputeEquationList(r.s)
  IN  IF IsId(LA(r.s)) \/ Starts(r.s, {"for", "commitment"})
      THEN Result(<<r.n>> \o rest.n, rest.s) ELSE Result(<<r.n>>, r.s)

RECURSIVE SuchThatList(_)
SuchThatList(s) ==
  LET r == SuchThatRel(s)
      rest == SuchThatList(r.s)
  IN  IF IsId(LA(r.s)) \/ Starts(r.s, {"for", "range"})
      THEN Result(<<r.n>> \o rest.n, rest.s) ELSE Result(<<r.n>>, r.s)

ComputationBlock(s) ==
  LET g == GivenList(Match(s, <<"computation", ":", "given", ":">>))
      c == ComputeRandomList(Match(g.s, <<"compute", ":">>))
      r == ComputeEquationList(c.s)
  IN  Result(Computation(g.n, c.n, r.n), r.s)
ProofBlock(s) ==
  LET g == GivenList(Match(s, <<"proof", ":", "given", ":">>))
      k == KnowledgeList(Match(g.s, <<"prove", "knowledge", "of", ":">>))
      st == SuchThatList(Match(k.s, <<"such", "that", ":">>))
  IN  Result(Proof(g.n, k.n, st.n), st.s)

\* Either block may be missing, and nothing asks what comes after the second.
ParseSpec(s) ==
  LET c == IF Is(s, "computation") THEN ComputationBlock(s) ELSE Result(NoNode, s)
      p == CASE Is(c.s, "proof") -> ProofBlock(c.s)
             [] Is(c.s, "EOF")   -> Result(NoNode, c.s)
             [] OTHER            -> Failed
  IN  Result(ProgramSpec(c.n, p.n), p.s)
Parses(s) == ParseSpec(s).s # Bad
=============================================================================
