------------------------------ MODULE Residues ------------------------------
(* What the code takes from NTL and from its groups: arithmetic on the       *)
(* residues of a modulus, and a Group as the interpreter sees one.           *)
EXTENDS Integers, Sequences

\* NTL's InvMod: the inverse of a residue that has one.
InvMod(a, m) == CHOOSE x \in 1 .. m - 1 : (a * x) % m = 1

\* NTL's PowerMod, square and multiply: what is left at <<acc, x, k>> is acc * x^k.
\* A negative exponent inverts the base.
PowerMod(b, e, m) ==
  LET base == IF e < 0 THEN InvMod(b % m, m) ELSE b % m
      loop[s \in Nat \X Nat \X Nat] ==
        CASE s[3] = 0                   -> s[1]
          [] s[3] # 0 /\ s[3] % 2 = 0   -> loop[<<s[1], (s[2] * s[2]) % m, s[3] \div 2>>]
          [] OTHER                      -> loop[<<(s[1] * s[2]) % m, s[2], s[3] - 1>>]
  IN  loop[<<1 % m, base, IF e < 0 THEN 0 - e ELSE e>>]

\* NTL's power, over the integers.
Power(b, e) == IF e = 0 THEN 1 ELSE b ^ e

\* A prime group has a known order; whoever did not choose the primes of an RSA
\* modulus does not know the order of its group, and getOrder answers 0.
PrimeGroup(mod, order, gens) ==
  [type |-> "PRIME", mod |-> mod, order |-> order, gens |-> gens]
RSAGroup(mod, order, gens) ==
  [type |-> "RSA", mod |-> mod, order |-> order, gens |-> gens]

\* The product of the factors, each a base to an exponent.
ProductOfPowers(bases, exps, m) ==
  LET prod[i \in 0 .. Len(bases)] ==
        IF i = 0 THEN 1 % m ELSE (prod[i - 1] * PowerMod(bases[i], exps[i], m)) % m
  IN  prod[Len(bases)]
=============================================================================
