----------------------------- MODULE FourSquares -----------------------------
(* FourSquares.cpp: a number as the sum of at most four squares, which is    *)
(* how a range proof shows that a number is not negative.  The cases are     *)
(* the code's; integers stay below the size at which its square root         *)
(* iterates.                                                                 *)
EXTENDS Residues, FiniteSets

isqrt[n \in Nat] == CHOOSE s \in 0 .. n : s * s <= n /\ (s + 1) * (s + 1) > n
IsPrime[n \in Nat] == n > 1 /\ \A d \in 2 .. isqrt[n] : n % d # 0

\* What the rest of the algorithm cannot handle: a number and three roots.
specialCases ==
  {<<9634, <<56, 57, 57>>>>, <<2986, <<21, 32, 39>>>>, <<1906, <<13, 21, 36>>>>,
   <<1414, <<6, 17, 33>>>>, <<730, <<0, 1, 27>>>>, <<706, <<15, 15, 16>>>>,
   <<526, <<6, 7, 21>>>>, <<370, <<8, 9, 15>>>>, <<226, <<8, 9, 9>>>>,
   <<214, <<3, 6, 13>>>>, <<130, <<0, 3, 11>>>>, <<85, <<0, 6, 7>>>>,
   <<58, <<0, 3, 7>>>>, <<34, <<3, 3, 4>>>>, <<10, <<0, 1, 3>>>>,
   <<3, <<1, 1, 1>>>>, <<2, <<0, 1, 1>>>>}

isProbableSquare(n) == \E i \in 0 .. 10079 : (i * i) % 10080 = n % 10080

\* The Jacobi symbol (b / p), and -1 when the two have a factor in common.
JacobiLoop[a \in Nat, b \in Nat, s \in {-1, 1}] ==
  CASE a = 0     -> -1
    [] a = 1     -> s
    [] a > 1 /\ a % 4 = 0 -> JacobiLoop[a \div 4, b, s]
    [] a > 1 /\ a % 4 = 2 -> JacobiLoop[a \div 2, b, IF b % 8 \in {3, 5} THEN 0 - s ELSE s]
    [] OTHER     -> JacobiLoop[b % a, a, IF a % 4 = 3 /\ b % 4 = 3 THEN 0 - s ELSE s]
jacobi(b, p) == IF p % b = 0 THEN -1 ELSE JacobiLoop[p % b, b, 1]

\* The first odd prime that is no residue of p: first those of a table, which has
\* all of them up to 7927, then those that NextPrime finds.  No search for a prime
\* p goes past p, which has itself as a factor in common.
oddPrime(q) == q > 2 /\ IsPrime[q]
nonResidue[p \in Nat] ==
  LET fits(q) == oddPrime(q) /\ jacobi(q, p) # 1
  IN  CHOOSE q \in 3 .. p : fits(q) /\ \A r \in 3 .. q - 1 : ~ fits(r)

\* A root of -1 modulo p: a power of its non-residue.  From the prime 229 on, the
\* code asks first whether p is a square, and answers with its root.
iunit[p \in Nat] ==
  IF p % 8 # 5 /\ nonResidue[p] >= 229 /\ isProbableSquare(p) /\ isqrt[p] * isqrt[p] = p
  THEN [unit |-> isqrt[p], root |-> TRUE]
  ELSE [unit |-> PowerMod(IF p % 8 = 5 THEN 2 ELSE nonResidue[p], p \div 4, p), root |-> FALSE]

\* Euclid's algorithm from p and i, down to the first remainder that is no larger
\* than the root of p.
Euclid(p, i) ==
  LET remainders[s \in Nat \X Nat] ==
        IF s[2] * s[2] > p THEN remainders[<<s[2], s[1] % s[2]>>] ELSE <<s[1] % s[2], s[2]>>
  IN  remainders[<<p, i>>]
\* <<>> when p was no prime.
RootsOf(p, i) ==
  CASE i.root -> <<0, i.unit>>
    [] ~ i.root /\ (i.unit * i.unit + 1) % p # 0 -> <<>>
    [] OTHER -> Euclid(p, i.unit)
decomposePrime[p \in Nat] == RootsOf(p, iunit[p])

\* n = x^2 + 2p and n = x^2 + p, for the largest x that leaves p a prime that
\* is the sum of two squares; <<>> when no x does.
Candidate(p) == IsPrime[p] /\ decomposePrime[p] # <<>>
SumAndDifference(x, z) == <<x, z[1] + z[2], IF z[1] < z[2] THEN z[2] - z[1] ELSE z[1] - z[2]>>
TwiceAPrime(n, first) ==
  LET p(x) == (n - x * x) \div 2
      from[x \in Int] ==
        CASE x < 0 -> <<>>
          [] x >= 0 /\ Candidate(p(x)) -> SumAndDifference(x, decomposePrime[p(x)])
          [] OTHER -> from[x - 2]
  IN  from[first]
APrime(n, first) ==
  LET p(x) == n - x * x
      from[x \in Int] ==
        CASE x < 0 -> <<>>
          [] x >= 0 /\ Candidate(p(x)) -> <<x, decomposePrime[p(x)][1], decomposePrime[p(x)][2]>>
          [] OTHER -> from[x - 2]
  IN  from[first]

\* The largest root not above that of n with the parity of c.
RootLike(n, c) == IF isqrt[n] % 2 = c THEN isqrt[n] ELSE isqrt[n] - 1
IsSpecial(n) == \E c \in specialCases : c[1] = n
threeSquares[n \in Nat] ==
  CASE IsSpecial(n) -> (CHOOSE c \in specialCases : c[1] = n)[2]
    [] ~ IsSpecial(n) /\ n % 4 = 3 -> TwiceAPrime(n, RootLike(n, 1))
    [] OTHER -> APrime(n, RootLike(n, (n + 1) % 2))

\* The largest square that may be taken off a number that is 7 modulo 8.
largestSquare(n) == IF n % 8 # 7 THEN 0 ELSE IF isqrt[n] % 4 # 0 THEN isqrt[n] ELSE isqrt[n] - 1

\* n is m * v^2 for a power v of 2 and an m that 4 does not divide: <<m, v>>.
Doubling[s \in Nat \X Nat] ==
  IF s[1] # 0 /\ s[1] % 4 = 0 THEN Doubling[<<s[1] \div 4, 2 * s[2]>>] ELSE s
\* Mutant: the square that was taken off first is not scaled.
ScaledButFirst(v, roots) == [i \in DOMAIN roots |-> IF i = 1 THEN roots[i] ELSE v * roots[i]]
Scaled(v, roots) == [i \in DOMAIN roots |-> v * roots[i]]
WithLargest(delta, roots) == IF roots = <<>> THEN <<>> ELSE <<delta, roots[1], roots[2], roots[3]>>

\* The four roots of a number that 4 does not divide; <<>> for a failure.
fourRoots[m \in Nat] ==
  CASE isqrt[m] * isqrt[m] = m -> <<0, 0, 0, isqrt[m]>>
    [] isqrt[m] * isqrt[m] # m /\ m % 4 = 1 /\ Candidate(m) -> <<0, 0, decomposePrime[m][1], decomposePrime[m][2]>>
    [] OTHER -> WithLargest(largestSquare(m), threeSquares[m - largestSquare(m) * largestSquare(m)])

\* What is at most 1, and so every negative number, is its own root.
decompose[n \in Int] ==
  IF n <= 1 THEN <<0, 0, 0, n>>
  ELSE LET s == Doubling[<<n, 1>>] IN Scaled(s[2], fourRoots[s[1]])
=============================================================================
