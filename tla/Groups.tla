------------------------------- MODULE Groups -------------------------------
(* GroupPrime and GroupRSA: how a group is made, how it is given further     *)
(* generators, and what is left of it in the copy that is made public.       *)
(* Lengths are left out; a random number is one of Draws below the modulus.  *)
EXTENDS Residues, FiniteSets
CONSTANTS Primes,          \* the primes that GenPrime_ZZ may find
          GermainPrimes,   \* the primes that GenGermainPrime_ZZ may find
          Factors,         \* the factors tried for a prime modulus
          Draws,           \* bound: the random numbers, none of them 0
          MAX_GENERATORS   \* bound: the generators of a group
VARIABLES own,      \* the group, with whoever made it
          public    \* the copy that was published
groupVars == <<own, public>>

IsAPrime(n) == n > 1 /\ \A d \in 2 .. n - 1 : n % d # 0
\* NTL answers with what its primality test lets pass: with primes.
ASSUME GroupsAssumption ==
  /\ \A n \in Primes \cup GermainPrimes : n \in Nat /\ IsAPrime(n)
  /\ Factors \subseteq Nat \ {0}
  /\ Draws \subseteq Nat \ {0} /\ MAX_GENERATORS \in Nat \ {0}

NoGroup == [type |-> "none"]
GCD(a, b) == CHOOSE d \in 1 .. b : a % d = 0 /\ b % d = 0 /\ \A x \in d + 1 .. b : a % x # 0 \/ b % x # 0

----------------------------------------------------------------------------
(* The members of a prime group are the powers whose order divides `order`.  *)
primeIsElement(g, v) == v >= 0 /\ v < g.mod /\ PowerMod(v, g.order, g.mod) = 1
primeIsGenerator(g, v) == primeIsElement(g, v) /\ v # 1
primeGenerator(g, gammaPrime) == PowerMod(gammaPrime, g.factor, g.mod)
primeAccepts(v) == v # 1

\* An element is invertible; whoever knows the factors can tell whether it has
\* one of the small orders.
rsaIsElement(g, v) == v > 0 /\ v < g.mod /\ GCD(v, g.mod) = 1
rsaIsGenerator(g, v) ==
  /\ rsaIsElement(g, v)
  /\ PowerMod(v, 2, g.mod) # 1
  /\ PowerMod(v, (g.p - 1) \div 2, g.mod) # 1
  /\ PowerMod(v, (g.q - 1) \div 2, g.mod) # 1
knowsFactors(g) == g.p # 0 /\ g.q # 0
getOrder(g) == IF g.type = "PRIME" THEN g.order
               ELSE IF knowsFactors(g) THEN (g.p - 1) * (g.q - 1) ELSE 0
rsaAcceptsUnits(g, v) == GCD(v, g.mod) = 1
rsaAccepts(g, v) == GCD(v, g.mod) = 1 /\ rsaIsGenerator(g, v)
rsaGenerator(g, arbitrary) == PowerMod(arbitrary, 2, g.mod)

----------------------------------------------------------------------------
\* The constructors: a modulus, and a first generator.
NewGroupPrime ==
  \E order \in Primes, factor \in Factors, gammaPrime \in Draws :
    LET g == [type |-> "PRIME", mod |-> order * factor + 1, order |-> order, factor |-> factor,
              gens |-> <<>>]
        v == primeGenerator(g, gammaPrime)
    IN  /\ own = NoGroup
        /\ IsAPrime(g.mod) /\ gammaPrime < g.mod /\ primeAccepts(v)
        /\ own' = [g EXCEPT !.gens = <<v>>]
        /\ UNCHANGED public
NewGroupRSA ==
  \E pPrime, qPrime \in GermainPrimes, arbitrary \in Draws :
    LET p == 2 * pPrime + 1
        q == 2 * qPrime + 1
        g == [type |-> "RSA", mod |-> p * q, order |-> 0, p |-> p, q |-> q, gens |-> <<>>]
        v == rsaGenerator(g, arbitrary)
    IN  /\ own = NoGroup
        /\ pPrime < qPrime /\ IsAPrime(p) /\ IsAPrime(q)
        /\ arbitrary < g.mod /\ rsaAccepts(g, v)
        /\ own' = [g EXCEPT !.gens = <<v>>]
        /\ UNCHANGED public

\* A generator is drawn until one will do.
AddNewGenerator ==
  \E d \in Draws :
    LET v == IF own.type = "PRIME" THEN primeGenerator(own, d) ELSE rsaGenerator(own, d)
    IN  /\ own # NoGroup /\ Len(own.gens) < MAX_GENERATORS /\ d < own.mod
        /\ IF own.type = "PRIME" THEN primeAccepts(v) ELSE rsaAccepts(own, v)
        /\ own' = [own EXCEPT !.gens = Append(@, v)]
        /\ UNCHANGED public

\* makePublic: a copy without the factors.
clearSecrets(g) == IF g.type = "RSA" THEN [g EXCEPT !.p = 0, !.q = 0] ELSE g
Publish ==
  /\ own # NoGroup
  /\ public' = clearSecrets(own)
  /\ UNCHANGED own

GroupsInit == own = NoGroup /\ public = NoGroup
GroupsNext == NewGroupPrime \/ NewGroupRSA \/ AddNewGenerator \/ Publish

----------------------------------------------------------------------------
GroupsTypeOK ==
  \A g \in {own, public} :
    g # NoGroup => g.type \in {"PRIME", "RSA"} /\ Len(g.gens) \in 1 .. MAX_GENERATORS

PowersOf(v, m) == {PowerMod(v, i, m) : i \in 0 .. m}
Squares(m) == {(v * v) % m : v \in {w \in 1 .. m - 1 : GCD(w, m) = 1}}

\* Whatever was drawn, every generator of a published group generates: in a
\* prime group it has `order` powers and passes checkGroupSetup, in an RSA group
\* its powers are all the quadratic residues.  Whoever has the copy of an RSA
\* group is answered that its order is not known.
GeneratorsGenerate ==
  public # NoGroup =>
    \A i \in DOMAIN public.gens :
      LET v == public.gens[i] IN
      IF public.type = "PRIME"
      THEN Cardinality(PowersOf(v, public.mod)) = getOrder(public) /\ primeIsGenerator(public, v)
      ELSE PowersOf(v, public.mod) = Squares(public.mod) /\ getOrder(public) = 0
=============================================================================
