------------------------------ MODULE ZKPNodes ------------------------------
(* The syntax trees of a ZKP program (ASTNode.h) and what a tree is worth in *)
(* an environment (ASTNode.cpp).  A tree is a record whose kind names the    *)
(* class; a list is a sequence; an optional part that is absent is NoNode.   *)
(* Maps are keyed by names and by the text of expressions (toString), which  *)
(* puts every operand between parentheses.                                   *)
EXTENDS Residues, TLC

NoNode == [kind |-> "None"]
IsKind(n, ks) == n.kind \in ks

----------------------------------------------------------------------------
\* Identifiers: a base and a subscript, "" when there is none.
Ident(base, sub) == [kind |-> "Ident", base |-> base, sub |-> sub]
DeclIdent(base, sub) == [kind |-> "DeclIdent", base |-> base, sub |-> sub]
Name(id) == IF id.sub = "" THEN id.base ELSE id.base \o "_" \o id.sub
Plain(name) == Ident(name, "")

\* Expressions.
ExprInt(v) == [kind |-> "Int", val |-> v]
ExprIdentifier(id) == [kind |-> "Var", id |-> id]
Negative(e) == [kind |-> "Neg", expr |-> e]
BinaryOp(op, l, r) == [kind |-> op, lhs |-> l, rhs |-> r]
Add(l, r) == BinaryOp("Add", l, r)
Sub(l, r) == BinaryOp("Sub", l, r)
Mul(l, r) == BinaryOp("Mul", l, r)
Div(l, r) == BinaryOp("Div", l, r)
Pow(l, r) == BinaryOp("Pow", l, r)
ForExpr(i, lo, hi, op, e) ==
  [kind |-> "ForExpr", index |-> i, lbound |-> lo, ubound |-> hi, op |-> op, expr |-> e]
BinaryOps == {"Add", "Sub", "Mul", "Div", "Pow"}
VarName(e) == Name(e.id)
VarExpr(name) == ExprIdentifier(Plain(name))
Symbol == [Add |-> "+", Sub |-> "-", Mul |-> "*", Div |-> "/", Pow |-> "^"]

\* toString: the text of an expression.
RECURSIVE Text(_)
Text(e) ==
  CASE e.kind = "Int" -> ToString(e.val)
    [] e.kind = "Var" -> VarName(e)
    [] e.kind = "Neg" -> "-" \o Text(e.expr)
    [] OTHER -> "(" \o Text(e.lhs) \o ")" \o Symbol[e.kind] \o "(" \o Text(e.rhs) \o ")"

\* Relations.
ForRel(i, lo, hi, r) ==
  [kind |-> "ForRel", index |-> i, lbound |-> lo, ubound |-> hi, rel |-> r]
Equal(id, e) == [kind |-> "Equal", id |-> id, expr |-> e]
DeclEqual(id, e) == [kind |-> "DeclEqual", id |-> id, expr |-> e]
Commitment(coms, id, e) == [kind |-> "Commitment", coms |-> coms, id |-> id, expr |-> e]
RangeRel(g, l, ls, c, us, u) ==
  [kind |-> "Range", group |-> g, lower |-> l, lowerStrict |-> ls,
   center |-> c, upperStrict |-> us, upper |-> u]

\* Declarations.
DeclIDRange(base, lo, hi) == [kind |-> "DeclIDRange", base |-> base, lbound |-> lo, ubound |-> hi]
DeclGroup(g, gens, m) == [kind |-> "DeclGroup", group |-> g, items |-> gens, modulus |-> m]
DeclElements(g, es, rels) == [kind |-> "DeclElements", group |-> g, items |-> es, relations |-> rels]
DeclExponents(g, es) == [kind |-> "DeclExponents", group |-> g, items |-> es]
DeclRandExponents(g, es) == [kind |-> "DeclRandExponents", group |-> g, items |-> es]
DeclIntegers(es) == [kind |-> "DeclIntegers", items |-> es]
RandomPrime(len, es) == [kind |-> "RandomPrime", length |-> len, items |-> es]
RandomBnd(lo, hi, es) == [kind |-> "RandomBnd", lbound |-> lo, ubound |-> hi, items |-> es]

\* The two blocks of a program and the program.
Computation(given, randoms, rels) ==
  [kind |-> "Computation", given |-> given, randoms |-> randoms, relations |-> rels]
Proof(given, knowledge, st) ==
  [kind |-> "Proof", given |-> given, knowledge |-> knowledge, suchThat |-> st]
ProgramSpec(c, p) == [kind |-> "Spec", comp |-> c, proof |-> p]

----------------------------------------------------------------------------
(* Values.  env holds variables and groups, maps from names, and varTypes,   *)
(* a map to VarInfo; NO_GROUP stands for no group.                           *)
NO_GROUP == "no group"
VarInfo(g, t) == [group |-> g, type |-> t]
ErrorType == VarInfo(NO_GROUP, "ERROR")
INTEGERS == {"INTEGER", "MODULUS"}

\* The names an expression reads, in the order of a visit.
RECURSIVE Reads(_)
Reads(e) ==
  CASE e.kind = "Int" -> <<>>
    [] e.kind = "Var" -> <<VarName(e)>>
    [] e.kind = "Neg" -> Reads(e.expr)
    [] OTHER          -> Reads(e.lhs) \o Reads(e.rhs)

\* ASTBinaryOp::getExprType: an integer takes the type of the other side, and
\* two group values mix when they are alike.
BinaryType(l, r) ==
  CASE l.type \in INTEGERS -> r
    [] r.type \in INTEGERS -> l
    [] l = r               -> l
    [] OTHER               -> ErrorType

\* ASTPow::getExprType.
PowType(l, r) ==
  CASE l.type = "ELEMENT" /\ r.type \in {"EXPONENT", "MODULUS", "INTEGER"} -> l
    [] l.type = "EXPONENT" /\ r.type = "INTEGER" -> l
    [] l.type = "INTEGER" /\ r.type = "EXPONENT" -> VarInfo(r.group, "ELEMENT")
    [] l.type = "INTEGER" /\ r.type = "INTEGER"  -> l
    [] OTHER -> ErrorType

RECURSIVE ExprType(_, _)
ExprType(e, env) ==
  CASE e.kind = "Int" -> VarInfo(NO_GROUP, "INTEGER")
    [] e.kind = "Var" -> env.varTypes[VarName(e)]
    [] e.kind = "Neg" -> ExprType(e.expr, env)
    [] e.kind = "Pow" -> PowType(ExprType(e.lhs, env), ExprType(e.rhs, env))
    [] OTHER          -> BinaryType(ExprType(e.lhs, env), ExprType(e.rhs, env))

\* The group that the sides of an operation name, if either does.
GroupOf(l, r, env) == env.groups[IF l.group # NO_GROUP THEN l.group ELSE r.group]

\* ASTDiv::eval: over the integers, by the inverse modulo the order for
\* exponents, by the inverse modulo the modulus for elements.
DivTyped(a, b, l, r, env) ==
  IF \/ l.group = NO_GROUP /\ r.group = NO_GROUP
     \/ "MODULUS" \in {l.type, r.type}
  THEN a \div b
  ELSE LET g == GroupOf(l, r, env)
       IN  IF "EXPONENT" \in {l.type, r.type}
           THEN a * InvMod(b % g.order, g.order)
           ELSE (a * InvMod(b % g.mod, g.mod)) % g.mod

(* env.cache holds the bases whose powers are tabulated, under the names they *)
(* had when the program was compiled (PowerCache for one, MultiExpCache for   *)
(* two to four); the tables serve no negative exponent.                       *)
modPow(env, name, b, e, mod) ==
  PowerMod(IF <<name>> \in DOMAIN env.cache /\ e >= 0 THEN env.cache[<<name>>][1] ELSE b, e, mod)
multiExp(env, names, bs, es, mod) ==
  LET tabulated == /\ Len(names) \in 2 .. 4 /\ names \in DOMAIN env.cache
                   /\ \A i \in DOMAIN es : es[i] >= 0
  IN  ProductOfPowers(IF tabulated THEN env.cache[names] ELSE bs, es, mod)

RECURSIVE Eval(_, _)
Eval(e, env) ==
  CASE e.kind = "Int" -> e.val
    [] e.kind = "Var" -> env.variables[VarName(e)]
    [] e.kind = "Neg" -> 0 - Eval(e.expr, env)
    [] OTHER ->
       LET l == ExprType(e.lhs, env)
           r == ExprType(e.rhs, env)
           a == Eval(e.lhs, env)
           b == Eval(e.rhs, env)
           over(v) == IF "ELEMENT" \in {l.type, r.type} THEN v % GroupOf(l, r, env).mod ELSE v
       IN  CASE e.kind = "Add" -> over(a + b)
             [] e.kind = "Sub" -> over(a - b)
             [] e.kind = "Mul" -> over(a * b)
             [] e.kind = "Div" -> DivTyped(a, b, l, r, env)
             [] e.kind = "Pow" -> IF l.group = NO_GROUP \/ l.type = "EXPONENT"
                                  THEN Power(a, b)
                                  ELSE modPow(env, Text(e.lhs), a, b, env.groups[l.group].mod)

\* Whether an expression has a value: its names are bound, its types mix, and
\* no exponent is inverted in a group whose order the holder does not know.
RECURSIVE Evaluates(_, _)
Evaluates(e, env) ==
  CASE e.kind = "Int" -> TRUE
    [] e.kind = "Var" -> VarName(e) \in DOMAIN env.variables
    [] e.kind = "Neg" -> Evaluates(e.expr, env)
    [] e.kind = "ForExpr" -> FALSE
    [] OTHER -> /\ Evaluates(e.lhs, env) /\ Evaluates(e.rhs, env)
                /\ ExprType(e, env) # ErrorType
                /\ e.kind = "Div" =>
                     LET l == ExprType(e.lhs, env)
                         r == ExprType(e.rhs, env)
                     IN  /\ "EXPONENT" \in {l.type, r.type} /\ "MODULUS" \notin {l.type, r.type}
                         => GroupOf(l, r, env).order # 0

NoEnvironment == [variables |-> <<>>, varTypes |-> <<>>, groups |-> <<>>, cache |-> <<>>]
=============================================================================
