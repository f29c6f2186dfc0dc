-------------------------- MODULE ArithmeticProofs ---------------------------
(***************************************************************************)
(* Proofs about Arithmetic.tla.  A loop of the code is a function defined  *)
(* by recursion, and first it is proved that there is such a function; what*)
(* the loop computes is then shown for the least number that could refute  *)
(* it.  The roots of a number: Euclid's algorithm keeps, beside each       *)
(* remainder, a number with whose square that of the remainder sums to a   *)
(* multiple of the prime, and where it stops the sum is the prime itself.  *)
(* The groups: multiplication by a number divides the units modulo a prime *)
(* into orbits of one size, from which Fermat's theorem and the orders of  *)
(* the generators follow, and the squares modulo two primes are counted.   *)
(***************************************************************************)
EXTENDS Arithmetic, ExponentiationProofs

-----------------------------------------------------------------------------
(* Roots.                                                                  *)

\* An integer square root.
LEMMA IntegerRoot ==
  ASSUME NEW n \in Nat
  PROVE  /\ isqrt[n] \in 0 .. n
         /\ isqrt[n] * isqrt[n] <= n /\ (isqrt[n] + 1) * (isqrt[n] + 1) > n
<1>. DEFINE N == {s \in Nat : (s + 1) * (s + 1) > n}
            IsRoot(s) == s * s <= n /\ (s + 1) * (s + 1) > n
<1>1. n \in N
  <2>1. (n + 1) * (n + 1) = n * n + 2 * n + 1 /\ n * n >= 0
    OBVIOUS
  <2>. QED
    BY <2>1
<1>2. PICK s \in N : \A t \in N : s <= t
  BY <1>1, LeastNumber
<1>3. s * s <= n
  <2>1. CASE s = 0
    BY <2>1
  <2>2. CASE s # 0
    <3>1. s - 1 \in Nat /\ (s - 1) + 1 = s
      BY <2>2
    <3>2. s - 1 \notin N
      BY <1>2, <2>2
    <3>. QED
      BY <3>1, <3>2
  <2>. QED
    BY <2>1, <2>2
<1>4. s \in 0 .. n
  <2>1. s \in Nat /\ s <= n
    BY <1>1, <1>2
  <2>. QED
    BY <2>1
<1>5. IsRoot(s)
  BY <1>2, <1>3
<1>6. isqrt[n] = CHOOSE t \in 0 .. n : IsRoot(t)
  BY DEF isqrt
<1>. HIDE DEF IsRoot
<1>7. isqrt[n] \in 0 .. n /\ IsRoot(isqrt[n])
  BY <1>4, <1>5, <1>6, Zenon
<1>. QED
  BY <1>7 DEF IsRoot

\* An even and an odd square.
LEMMA EvenSquare ==
  ASSUME NEW x \in Nat, x % 2 = 0
  PROVE  \E k \in Nat : x * x = 4 * k
<1>. DEFINE h == x \div 2
<1>1. h \in Nat /\ x = 2 * h
  OBVIOUS
<1>. HIDE DEF h
<1>2. x * x = 4 * (h * h) /\ h * h \in Nat
  BY <1>1
<1>. QED
  BY <1>2

LEMMA OddSquare ==
  ASSUME NEW x \in Nat, x % 2 = 1
  PROVE  \E k \in Nat : x * x = 8 * k + 1
<1>. DEFINE h == x \div 2
            g == h \div 2
<1>1. h \in Nat /\ x = 2 * h + 1
  OBVIOUS
<1>2. g \in Nat /\ (h = 2 * g \/ h = 2 * g + 1)
  BY <1>1
<1>. HIDE DEF h, g
<1>3. CASE h = 2 * g
  <2>1. x = 4 * g + 1
    BY <1>1, <1>2, <1>3
  <2>2. x * x = 8 * (2 * (g * g) + g) + 1 /\ 2 * (g * g) + g \in Nat
    BY <1>2, <2>1
  <2>. QED
    BY <2>2
<1>4. CASE h = 2 * g + 1
  <2>1. x = 4 * g + 3
    BY <1>1, <1>2, <1>4
  <2>2. x * x = 8 * (2 * (g * g) + 3 * g + 1) + 1 /\ 2 * (g * g) + 3 * g + 1 \in Nat
    BY <1>2, <2>1
  <2>. QED
    BY <2>2
<1>. QED
  BY <1>2, <1>3, <1>4
-----------------------------------------------------------------------------
(* Euclid's algorithm.                                                     *)

\* What Euclid's algorithm keeps, of a pair of remainders a and b of p and i:
\* beside each of them runs a number t with p dividing a^2 + t^2.
Sides(p, a, b, ta, tb) ==
  /\ \E u \in Int : a * a + ta * ta = p * u
  /\ \E v \in Int : b * b + tb * tb = p * v
  /\ \E w \in Int : a * b - ta * tb = p * w
  /\ a * tb + b * ta = p
Kept(p, a, b) ==
  /\ a \in Nat /\ b \in Nat /\ a > b /\ a * a > p
  /\ \E ta \in Nat, tb \in Nat \ {0} : Sides(p, a, b, ta, tb)

LEMMA KeptFirst ==
  ASSUME NEW p \in Nat, p > 1, NEW i \in 0 .. p - 1, (i * i + 1) % p = 0
  PROVE  Kept(p, p, i)
<1>1. PICK k \in Int : i * i + 1 = p * k
  <2>1. i * i + 1 \in Nat
    OBVIOUS
  <2>. QED
    BY <2>1
<1>2. p * p > p
  OBVIOUS
<1>3. Sides(p, p, i, 0, 1)
  <2>1. p * p + 0 * 0 = p * p /\ p * i - 0 * 1 = p * i /\ p * 1 + i * 0 = p
    OBVIOUS
  <2>2. \E u \in Int : p * p + 0 * 0 = p * u
    BY <2>1
  <2>3. \E v \in Int : i * i + 1 * 1 = p * v
    BY <1>1
  <2>4. \E w \in Int : p * i - 0 * 1 = p * w
    BY <2>1
  <2>. QED
    BY <2>1, <2>2, <2>3, <2>4 DEF Sides
<1>. QED
  BY <1>2, <1>3 DEF Kept

LEMMA KeptNext ==
  ASSUME NEW p \in Nat, NEW a, NEW b, Kept(p, a, b), b * b > p
  PROVE  Kept(p, b, a % b) /\ a % b < b
<1>1. a \in Nat /\ b \in Nat /\ a > b /\ b > 0
  BY DEF Kept
<1>2. PICK ta \in Nat, tb \in Nat \ {0} : Sides(p, a, b, ta, tb)
  BY DEF Kept
<1>. DEFINE q == a \div b
            c == a % b
            tc == ta + q * tb
<1>3. a = b * q + c /\ c \in Nat /\ c < b /\ q \in Nat /\ q >= 1
  <2>1. a = b * q + c /\ c \in Nat /\ c < b /\ q \in Nat
    BY <1>1
  <2>2. q # 0
    BY <1>1, <2>1
  <2>. QED
    BY <2>1, <2>2
<1>. HIDE DEF q, c
<1>4. tc \in Nat \ {0}
  <2>1. q * tb \in Nat /\ q * tb >= 1
    BY <1>3
  <2>. QED
    BY <2>1
<1>5. Sides(p, b, c, tb, tc)
  <2>. USE DEF Sides
  <2>1. PICK u \in Int : a * a + ta * ta = p * u
    BY <1>2
  <2>2. PICK v \in Int : b * b + tb * tb = p * v
    BY <1>2
  <2>3. PICK w \in Int : a * b - ta * tb = p * w
    BY <1>2
  <2>4. a * tb + b * ta = p
    BY <1>2
  <2>5. c = a - b * q
    BY <1>1, <1>3
  <2>6. c * c + tc * tc = p * (u - 2 * q * w + q * q * v) /\ u - 2 * q * w + q * q * v \in Int
    <3>1. c * c + tc * tc = (a * a + ta * ta) - 2 * q * (a * b - ta * tb) + q * q * (b * b + tb * tb)
      BY <1>1, <1>3, <2>5
    <3>2. c * c + tc * tc = p * u - 2 * q * (p * w) + q * q * (p * v)
      BY <2>1, <2>2, <2>3, <3>1
    <3>. QED
      BY <1>3, <3>2
  <2>7. b * c - tb * tc = p * (w - q * v) /\ w - q * v \in Int
    <3>1. b * c - tb * tc = (a * b - ta * tb) - q * (b * b + tb * tb)
      BY <1>1, <1>3, <2>5
    <3>. QED
      BY <1>3, <2>2, <2>3, <3>1
  <2>8. b * tc + c * tb = p
    BY <1>1, <1>3, <2>4, <2>5
  <2>. QED
    BY <2>2, <2>6, <2>7, <2>8
<1>6. Kept(p, b, c)
  BY <1>1, <1>2, <1>3, <1>4, <1>5 DEF Kept
<1>. QED
  BY <1>3, <1>6 DEF c

\* Where the algorithm stops, p is the sum of the squares of the next remainder
\* and of b.
TwoSquares(p, z) == \E x \in Nat, y \in Nat : z = <<x, y>> /\ x * x + y * y = p

LEMMA KeptLast ==
  ASSUME NEW p \in Nat, p % 2 = 1, NEW a, NEW b, Kept(p, a, b), b * b <= p
  PROVE  TwoSquares(p, <<a % b, b>>)
<1>1. a \in Nat /\ b \in Nat /\ a > b /\ a * a > p
  BY DEF Kept
<1>2. PICK ta \in Nat, tb \in Nat \ {0} : Sides(p, a, b, ta, tb)
  BY DEF Kept
<1>3. PICK v \in Int : b * b + tb * tb = p * v
  BY <1>2 DEF Sides
<1>4. PICK k \in Int : a * b - ta * tb = p * k
  BY <1>2 DEF Sides
<1>5. a * tb + b * ta = p
  BY <1>2 DEF Sides
<1>6. p >= 1
  OBVIOUS
<1>7. tb * tb < p
  <2>1. a * tb <= p
    <3>1. b * ta >= 0 /\ b * ta \in Int /\ a * tb \in Int
      BY <1>1
    <3>. QED
      BY <1>5, <3>1
  <2>2. (a * tb) * (a * tb) <= p * p
    <3>1. a * tb \in Nat
      BY <1>1
    <3>. QED
      BY <2>1, <3>1
  <2>3. (a * a) * (tb * tb) <= p * p
    BY <1>1, <2>2
  <2>4. tb * tb >= 1 /\ tb * tb \in Nat
    OBVIOUS
  <2>5. SUFFICES ASSUME tb * tb >= p PROVE FALSE
    BY <2>4
  <2>6. (a * a) * (tb * tb) >= (a * a) * p
    BY <1>1, <2>4, <2>5
  <2>7. (a * a) * p > p * p
    BY <1>1, <1>6
  <2>. QED
    BY <1>1, <2>3, <2>4, <2>6, <2>7
<1>8. b * b + tb * tb = p
  <2>1. p * v > 0 /\ p * v < 2 * p
    <3>1. tb * tb >= 1 /\ tb * tb \in Nat /\ b * b \in Nat
      BY <1>1
    <3>. QED
      BY <1>3, <1>7, <3>1
  <2>2. v = 1
    <3>1. v > 0
      BY <2>1, <1>6
    <3>2. ~ (v >= 2)
      BY <2>1, <1>6
    <3>. QED
      BY <3>1, <3>2
  <2>. QED
    BY <1>3, <2>2
<1>9. b > 0
  <2>1. SUFFICES ASSUME b = 0 PROVE FALSE
    BY <1>1
  <2>2. tb * tb = p /\ a * tb = p
    BY <1>1, <1>5, <1>8, <2>1
  <2>3. a = tb
    BY <1>1, <2>2
  <2>. QED
    BY <1>1, <2>2, <2>3
<1>10. a = b * k + tb
  <2>1. a * (b * b + tb * tb) = b * (a * b - ta * tb) + tb * (a * tb + b * ta)
    BY <1>1
  <2>2. a * p = b * (p * k) + tb * p
    BY <2>1, <1>8, <1>4, <1>5
  <2>3. p * a = p * (b * k + tb)
    BY <1>1, <2>2
  <2>. QED
    BY <1>1, <1>6, <2>3
<1>11. ta = b - tb * k
  <2>1. ta * (b * b + tb * tb) = b * (a * tb + b * ta) - tb * (a * b - ta * tb)
    BY <1>1
  <2>2. ta * p = b * p - tb * (p * k)
    BY <2>1, <1>8, <1>4, <1>5
  <2>3. p * ta = p * (b - tb * k)
    BY <1>1, <2>2
  <2>. QED
    BY <1>1, <1>6, <2>3
<1>12. k >= 1
  <2>1. SUFFICES ASSUME k <= 0 PROVE FALSE
    OBVIOUS
  <2>2. b * k <= 0
    BY <1>1, <2>1
  <2>3. a <= tb
    BY <1>1, <1>10, <2>2
  <2>4. a * a <= tb * tb
    BY <1>1, <2>3
  <2>. QED
    BY <1>1, <1>7, <2>4
<1>13. tb < b
  <2>1. tb * k >= tb
    BY <1>12
  <2>2. tb <= b
    BY <1>1, <1>11, <2>1
  <2>3. tb # b
    <3>1. SUFFICES ASSUME tb = b PROVE FALSE
      OBVIOUS
    <3>2. p = 2 * (b * b) /\ b * b \in Nat
      BY <1>1, <1>8, <3>1
    <3>. QED
      BY <3>2
  <2>. QED
    BY <1>1, <2>2, <2>3
<1>14. a % b = tb
  BY <1>1, <1>9, <1>10, <1>12, <1>13
<1>. QED
  BY <1>1, <1>8, <1>14 DEF TwoSquares

\* The remainders are one function.
Remainders(p, f) ==
  f = [s \in Nat \X Nat |->
         IF s[2] * s[2] > p THEN f[<<s[2], s[1] % s[2]>>] ELSE <<s[1] % s[2], s[2]>>]

LEMMA RemaindersExist ==
  ASSUME NEW p \in Nat
  PROVE  \E f : Remainders(p, f)
<1>. DEFINE X == Nat \X Nat
            D == {s \in X : s[2] * s[2] > p}
            next == [s \in X |-> IF s \in D THEN <<s[2], s[1] % s[2]>> ELSE s]
            out == [s \in X |-> <<s[1] % s[2], s[2]>>]
<1>1. next \in [X -> X]
  <2>1. ASSUME NEW s \in D PROVE <<s[2], s[1] % s[2]>> \in X
    <3>1. s[1] \in Nat /\ s[2] \in Nat /\ s[2] # 0
      OBVIOUS
    <3>2. s[1] % s[2] \in Nat
      BY <3>1
    <3>. QED
      BY <3>1, <3>2
  <2>. QED
    BY <2>1
<1>2. PICK f : Loop(X, D, next, out, f)
  <2>. HIDE DEF X, D, next, out
  <2>. QED
    BY <1>1, TailRecursion
<1>3. Remainders(p, f)
  <2>1. \A s \in X : (IF s \in D THEN f[next[s]] ELSE out[s]) =
          IF s[2] * s[2] > p THEN f[<<s[2], s[1] % s[2]>>] ELSE <<s[1] % s[2], s[2]>>
    OBVIOUS
  <2>. HIDE DEF D, next, out
  <2>. QED
    BY <1>2, <2>1, Zenon DEF Remainders, Loop
<1>. QED
  BY <1>3, Zenon

LEMMA EuclidEnds ==
  ASSUME NEW p \in Nat, p % 2 = 1, NEW f, Remainders(p, f)
  PROVE  \A a, b \in Nat : Kept(p, a, b) => TwoSquares(p, f[<<a, b>>])
<1>. DEFINE Bad == {b \in Nat : \E a \in Nat : Kept(p, a, b) /\ ~ TwoSquares(p, f[<<a, b>>])}
<1>1. SUFFICES ASSUME Bad # {} PROVE FALSE
  OBVIOUS
<1>2. PICK b \in Bad : \A c \in Bad : b <= c
  BY <1>1, LeastNumber
<1>3. PICK a \in Nat : Kept(p, a, b) /\ ~ TwoSquares(p, f[<<a, b>>])
  OBVIOUS
<1>4. b \in Nat
  OBVIOUS
<1>. HIDE DEF Bad
<1>5. f[<<a, b>>] = IF b * b > p THEN f[<<b, a % b>>] ELSE <<a % b, b>>
  <2>1. <<a, b>> \in Nat \X Nat /\ <<a, b>>[1] = a /\ <<a, b>>[2] = b
    BY <1>3, <1>4
  <2>. QED
    BY <2>1, Zenon DEF Remainders
<1>6. CASE b * b > p
  <2>1. Kept(p, b, a % b) /\ a % b < b
    BY <1>3, <1>6, KeptNext
  <2>2. a % b \in Nat
    BY <2>1 DEF Kept
  <2>3. ~ TwoSquares(p, f[<<b, a % b>>])
    BY <1>3, <1>5, <1>6
  <2>4. a % b \in Bad
    BY <1>4, <2>1, <2>2, <2>3 DEF Bad
  <2>. QED
    BY <1>2, <1>4, <2>1, <2>2, <2>4
<1>7. CASE ~ (b * b > p)
  <2>1. b * b <= p
    BY <1>4, <1>7
  <2>. QED
    BY <1>3, <1>5, <1>7, <2>1, KeptLast
<1>. QED
  BY <1>6, <1>7

\* From a root of -1 modulo an odd number, Euclid's algorithm finds two squares
\* that sum to the number.
THEOREM EuclidIsRight ==
  ASSUME NEW p \in Nat, p > 1, p % 2 = 1, NEW i \in 0 .. p - 1, (i * i + 1) % p = 0
  PROVE  TwoSquares(p, Euclid(p, i))
<1>. DEFINE f == CHOOSE f : Remainders(p, f)
<1>1. Remainders(p, f)
  BY RemaindersExist, Zenon
<1>2. Euclid(p, i) = f[<<p, i>>]
  BY Zenon DEF Euclid, Remainders
<1>. HIDE DEF f
<1>3. Kept(p, p, i)
  BY KeptFirst
<1>4. Kept(p, p, i) => TwoSquares(p, f[<<p, i>>])
  <2>1. i \in Nat
    OBVIOUS
  <2>. QED
    BY <1>1, <2>1, EuclidEnds
<1>. QED
  BY <1>2, <1>3, <1>4
-----------------------------------------------------------------------------
(* A prime as two squares.                                                 *)
\* Every odd prime is found a non-residue: the search would not go past the prime
\* itself, with which it has a factor in common.
LEMMA NonResidueIsNumber ==
  ASSUME NEW p \in Nat, p > 2, IsPrime[p]
  PROVE  nonResidue[p] \in Nat
<1>. DEFINE Fits(q) == oddPrime(q) /\ jacobi(q, p) # 1
            N == {q \in 3 .. p : Fits(q)}
            First(q) == Fits(q) /\ \A r \in 3 .. q - 1 : ~ Fits(r)
<1>1. Fits(p)
  <2>1. p % p = 0
    OBVIOUS
  <2>2. jacobi(p, p) = -1
    BY <2>1 DEF jacobi
  <2>. QED
    BY <2>2 DEF oddPrime
<1>. HIDE DEF Fits
<1>2. p \in N /\ N \subseteq Nat
  BY <1>1
<1>3. PICK q \in N : \A r \in N : q <= r
  <2>. HIDE DEF N
  <2>. QED
    BY <1>2, LeastNumber
<1>4. q \in 3 .. p /\ First(q)
  BY <1>3
<1>5. nonResidue[p] = CHOOSE r \in 3 .. p : First(r)
  BY Zenon DEF nonResidue, Fits
<1>. HIDE DEF First
<1>6. nonResidue[p] \in 3 .. p
  BY <1>4, <1>5, Zenon
<1>. QED
  BY <1>6

\* An answer for an odd prime is two squares that sum to it.
LEMMA PrimeIsTwoSquares ==
  ASSUME NEW p \in Nat, p > 1, p % 2 = 1, IsPrime[p], decomposePrime[p] # <<>>
  PROVE  TwoSquares(p, decomposePrime[p])
<1>. DEFINE s == isqrt[p]
            b == IF p % 8 = 5 THEN 2 ELSE nonResidue[p]
            u == PowerMod(b, p \div 4, p)
<1>1. decomposePrime[p] = RootsOf(p, iunit[p])
  BY DEF decomposePrime
<1>2. \/ iunit[p] = [unit |-> s, root |-> TRUE] /\ s * s = p
      \/ iunit[p] = [unit |-> u, root |-> FALSE]
  BY Zenon DEF iunit
<1>3. CASE iunit[p] = [unit |-> s, root |-> TRUE] /\ s * s = p
  <2>1. RootsOf(p, iunit[p]) = <<0, s>>
    BY <1>3 DEF RootsOf
  <2>2. s \in Nat /\ 0 * 0 + s * s = p
    BY <1>3, IntegerRoot
  <2>. HIDE DEF s
  <2>. QED
    BY <1>1, <2>1, <2>2 DEF TwoSquares
<1>4. CASE iunit[p] = [unit |-> u, root |-> FALSE]
  <2>1. u \in 0 .. p - 1
    <3>1. b \in Int
      BY NonResidueIsNumber
    <3>2. p \div 4 \in Nat /\ p \in Nat \ {0}
      OBVIOUS
    <3>. QED
      BY <3>1, <3>2, PowerIsResidue
  <2>. HIDE DEF u
  <2>2. decomposePrime[p] = IF (u * u + 1) % p # 0 THEN <<>> ELSE Euclid(p, u)
    BY <1>1, <1>4 DEF RootsOf
  <2>3. (u * u + 1) % p = 0 /\ decomposePrime[p] = Euclid(p, u)
    BY <2>2
  <2>. QED
    BY <2>1, <2>3, EuclidIsRight
<1>. QED
  BY <1>2, <1>3, <1>4
-----------------------------------------------------------------------------
(* The search for a prime.                                                 *)

TwoLess == [x \in Int |-> x - 2]
Ending(D, out, f) == \A x \in Int : \E y \in Int \ D : y <= x /\ y % 2 = x % 2 /\ f[x] = out[y]

\* A search from x down, two by two, through what is left to try: it ends at a
\* number that is none of those.
LEMMA SearchEnds ==
  ASSUME NEW D, \A d \in D : d \in Nat, NEW out, NEW f, Loop(Int, D, TwoLess, out, f)
  PROVE  Ending(D, out, f)
<1>. DEFINE Ends(x) == \E y \in Int \ D : y <= x /\ y % 2 = x % 2 /\ f[x] = out[y]
            Bad == {x \in Nat : ~ Ends(x)}
<1>1. ASSUME NEW x \in Int PROVE f[x] = IF x \in D THEN f[x - 2] ELSE out[x]
  BY DEF Loop, TwoLess
<1>2. ASSUME NEW x \in Int, x \notin D PROVE Ends(x)
  BY <1>1, <1>2
<1>3. ASSUME NEW x \in D, Ends(x - 2) PROVE Ends(x)
  <2>1. PICK y \in Int \ D : y <= x - 2 /\ y % 2 = (x - 2) % 2 /\ f[x - 2] = out[y]
    BY <1>3
  <2>2. x \in Int /\ y <= x /\ y % 2 = x % 2
    BY <2>1
  <2>3. f[x] = out[y]
    BY <1>1, <2>1, <2>2
  <2>. QED
    BY <2>2, <2>3
<1>. HIDE DEF Ends
<1>4. Bad = {}
  <2>1. SUFFICES ASSUME Bad # {} PROVE FALSE
    OBVIOUS
  <2>2. PICK x \in Bad : \A y \in Bad : x <= y
    BY <2>1, LeastNumber
  <2>3. x \in D /\ x \in Nat /\ ~ Ends(x)
    BY <1>2
  <2>4. ~ Ends(x - 2)
    BY <1>3, <2>3
  <2>5. x - 2 \in Nat
    BY <1>2, <2>3, <2>4
  <2>. QED
    BY <2>2, <2>3, <2>4, <2>5
<1>5. ASSUME NEW x \in Int PROVE Ends(x)
  BY <1>2, <1>4
<1>. QED
  BY <1>5 DEF Ends, Ending

\* The largest number that is tried and what is left of n.
LEMMA LeftOfSquare ==
  ASSUME NEW n \in Nat, NEW c \in {0, 1}, NEW x \in Nat, x <= RootLike(n, c)
  PROVE  x * x <= n
<1>1. isqrt[n] \in Nat /\ isqrt[n] * isqrt[n] <= n
  BY IntegerRoot
<1>2. x <= isqrt[n]
  BY <1>1 DEF RootLike
<1>3. x * x <= isqrt[n] * isqrt[n]
  BY <1>1, <1>2
<1>. QED
  BY <1>1, <1>3

LEMMA RootLikeParity ==
  ASSUME NEW n \in Nat, NEW c \in {0, 1}
  PROVE  RootLike(n, c) \in Int /\ RootLike(n, c) % 2 = c
<1>1. isqrt[n] \in Nat
  BY IntegerRoot
<1>. DEFINE s == isqrt[n]
<1>2. s \in Nat
  BY <1>1
<1>. HIDE DEF s
<1>3. s % 2 = c \/ (s - 1) % 2 = c
  BY <1>2
<1>. QED
  BY <1>2, <1>3 DEF RootLike, s

LEMMA CandidateIsTwoSquares ==
  ASSUME NEW p \in Nat, p % 2 = 1, Candidate(p)
  PROVE  TwoSquares(p, decomposePrime[p])
<1>1. p > 1 /\ IsPrime[p] /\ decomposePrime[p] # <<>>
  BY DEF Candidate, IsPrime
<1>. QED
  BY <1>1, PrimeIsTwoSquares

ThreeSquares(n, z) ==
  \E x, y, w \in Nat : z = <<x, y, w>> /\ x * x + y * y + w * w = n

\* n = x^2 + 2p.
LEMMA TwiceAPrimeIsRight ==
  ASSUME NEW n \in Nat, n % 4 = 3,
         NEW z, z = TwiceAPrime(n, RootLike(n, 1)), z # <<>>
  PROVE  ThreeSquares(n, z)
<1>. DEFINE p(x) == (n - x * x) \div 2
            D == {x \in Nat : ~ Candidate(p(x))}
            out == [x \in Int |->
                      IF x < 0 THEN <<>> ELSE SumAndDifference(x, decomposePrime[p(x)])]
            From(f) == f = [x \in Int |->
                              CASE x < 0 -> <<>>
                                [] x >= 0 /\ Candidate(p(x)) ->
                                     SumAndDifference(x, decomposePrime[p(x)])
                                [] OTHER -> f[x - 2]]
            f == CHOOSE f : From(f)
            first == RootLike(n, 1)
<1>1. ASSUME NEW g PROVE From(g) <=> Loop(Int, D, TwoLess, out, g)
  <2>1. ASSUME NEW x \in Int
        PROVE  (IF x \in D THEN g[TwoLess[x]] ELSE out[x]) =
                 CASE x < 0 -> <<>>
                   [] x >= 0 /\ Candidate(p(x)) -> SumAndDifference(x, decomposePrime[p(x)])
                   [] OTHER -> g[x - 2]
    <3>. HIDE DEF p
    <3>. QED
      BY DEF TwoLess
  <2>. HIDE DEF D, out, p
  <2>. QED
    BY <2>1 DEF Loop
<1>2. TwoLess \in [Int -> Int]
  BY DEF TwoLess
<1>3. Loop(Int, D, TwoLess, out, f)
  <2>1. \E g : Loop(Int, D, TwoLess, out, g)
    <3>. HIDE DEF D, out
    <3>. QED
      BY <1>2, TailRecursion
  <2>. HIDE DEF D, out, From
  <2>2. From(f)
    BY <1>1, <2>1, Zenon
  <2>. QED
    BY <1>1, <2>2
<1>4. z = f[first]
  BY Zenon DEF TwiceAPrime
<1>. HIDE DEF f
<1>5. first \in Int /\ first % 2 = 1
  BY RootLikeParity
<1>. HIDE DEF first
<1>6. PICK y \in Int \ D : y <= first /\ y % 2 = 1 /\ z = out[y]
  <2>1. \A d \in D : d \in Nat
    OBVIOUS
  <2>. HIDE DEF D, out
  <2>2. Ending(D, out, f)
    BY <1>3, <2>1, SearchEnds
  <2>. QED
    BY <1>4, <1>5, <2>2 DEF Ending
<1>7. y \in Nat /\ Candidate(p(y)) /\ z = SumAndDifference(y, decomposePrime[p(y)])
  <2>. HIDE DEF p
  <2>. QED
    BY <1>6
<1>8. y * y <= n
  BY <1>6, <1>7, LeftOfSquare DEF first
<1>9. p(y) \in 0 .. n /\ p(y) % 2 = 1 /\ y * y + 2 * p(y) = n
  <2>1. PICK k \in Nat : y * y = 8 * k + 1
    BY <1>6, <1>7, OddSquare
  <2>2. PICK j \in Nat : n = 4 * j + 3
    <3>1. n = 4 * (n \div 4) + 3 /\ n \div 4 \in Nat
      OBVIOUS
    <3>. QED
      BY <3>1
  <2>3. p(y) = (n - (8 * k + 1)) \div 2
    BY <2>1
  <2>. HIDE DEF p
  <2>4. 8 * k + 1 <= n
    BY <1>8, <2>1
  <2>5. p(y) = 2 * (j - 2 * k) + 1 /\ j - 2 * k \in Nat
    BY <2>2, <2>3, <2>4
  <2>. QED
    BY <2>1, <2>2, <2>4, <2>5
<1>. HIDE DEF p
<1>10. PICK a \in Nat, b \in Nat : decomposePrime[p(y)] = <<a, b>> /\ a * a + b * b = p(y)
  BY <1>7, <1>9, CandidateIsTwoSquares DEF TwoSquares
<1>. DEFINE d == IF a < b THEN b - a ELSE a - b
<1>11. z = <<y, a + b, d>>
  BY <1>7, <1>10 DEF SumAndDifference
<1>12. d \in Nat /\ d * d = (a - b) * (a - b)
  OBVIOUS
<1>. HIDE DEF d
<1>13. y * y + (a + b) * (a + b) + d * d = n
  <2>1. (a + b) * (a + b) + (a - b) * (a - b) = 2 * (a * a + b * b)
    OBVIOUS
  <2>2. (a + b) * (a + b) + d * d = 2 * p(y)
    BY <1>10, <1>12, <2>1
  <2>3. y * y \in Int /\ (a + b) * (a + b) \in Int /\ d * d \in Int /\ p(y) \in Int
    BY <1>7, <1>9, <1>12
  <2>. QED
    BY <1>9, <2>2, <2>3
<1>. QED
  BY <1>7, <1>11, <1>12, <1>13 DEF ThreeSquares

\* n = x^2 + p.
LEMMA APrimeIsRight ==
  ASSUME NEW n \in Nat, n % 4 # 3, NEW c, c = (n + 1) % 2,
         NEW z, z = APrime(n, RootLike(n, c)), z # <<>>
  PROVE  ThreeSquares(n, z)
<1>. DEFINE p(x) == n - x * x
            D == {x \in Nat : ~ Candidate(p(x))}
            out == [x \in Int |->
                      IF x < 0 THEN <<>> ELSE <<x, decomposePrime[p(x)][1], decomposePrime[p(x)][2]>>]
            From(f) == f = [x \in Int |->
                              CASE x < 0 -> <<>>
                                [] x >= 0 /\ Candidate(p(x)) ->
                                     <<x, decomposePrime[p(x)][1], decomposePrime[p(x)][2]>>
                                [] OTHER -> f[x - 2]]
            f == CHOOSE f : From(f)
            first == RootLike(n, c)
<1>0. c \in {0, 1}
  OBVIOUS
<1>1. ASSUME NEW g PROVE From(g) <=> Loop(Int, D, TwoLess, out, g)
  <2>1. ASSUME NEW x \in Int
        PROVE  (IF x \in D THEN g[TwoLess[x]] ELSE out[x]) =
                 CASE x < 0 -> <<>>
                   [] x >= 0 /\ Candidate(p(x)) -> <<x, decomposePrime[p(x)][1], decomposePrime[p(x)][2]>>
                   [] OTHER -> g[x - 2]
    <3>. HIDE DEF p
    <3>. QED
      BY DEF TwoLess
  <2>. HIDE DEF D, out, p
  <2>. QED
    BY <2>1 DEF Loop
<1>2. TwoLess \in [Int -> Int]
  BY DEF TwoLess
<1>3. Loop(Int, D, TwoLess, out, f)
  <2>1. \E g : Loop(Int, D, TwoLess, out, g)
    <3>. HIDE DEF D, out
    <3>. QED
      BY <1>2, TailRecursion
  <2>. HIDE DEF D, out, From
  <2>2. From(f)
    BY <1>1, <2>1, Zenon
  <2>. QED
    BY <1>1, <2>2
<1>4. z = f[first]
  BY Zenon DEF APrime
<1>. HIDE DEF f
<1>5. first \in Int /\ first % 2 = c
  BY <1>0, RootLikeParity
<1>. HIDE DEF first
<1>6. PICK y \in Int \ D : y <= first /\ y % 2 = c /\ z = out[y]
  <2>1. \A d \in D : d \in Nat
    OBVIOUS
  <2>. HIDE DEF D, out
  <2>2. Ending(D, out, f)
    BY <1>3, <2>1, SearchEnds
  <2>. QED
    BY <1>4, <1>5, <2>2 DEF Ending
<1>7. y \in Nat /\ Candidate(p(y)) /\ z = <<y, decomposePrime[p(y)][1], decomposePrime[p(y)][2]>>
  <2>. HIDE DEF p
  <2>. QED
    BY <1>6
<1>8. y * y <= n
  BY <1>0, <1>6, <1>7, LeftOfSquare DEF first
<1>9. p(y) \in 0 .. n /\ p(y) % 2 = 1 /\ y * y + p(y) = n
  <2>1. PICK k \in Nat : y * y = 2 * k + c
    <3>1. CASE c = 0
      <4>1. PICK k \in Nat : y * y = 4 * k
        BY <1>6, <1>7, <3>1, EvenSquare
      <4>2. y * y = 2 * (2 * k) + c /\ 2 * k \in Nat
        BY <3>1, <4>1
      <4>. QED
        BY <4>2
    <3>2. CASE c = 1
      <4>1. PICK k \in Nat : y * y = 8 * k + 1
        BY <1>6, <1>7, <3>2, OddSquare
      <4>2. y * y = 2 * (4 * k) + c /\ 4 * k \in Nat
        BY <3>2, <4>1
      <4>. QED
        BY <4>2
    <3>. QED
      BY <1>0, <3>1, <3>2
  <2>2. p(y) = n - (2 * k + c)
    BY <2>1
  <2>. HIDE DEF p
  <2>3. 2 * k + c <= n
    BY <1>8, <2>1
  <2>. QED
    BY <1>0, <2>1, <2>2, <2>3
<1>. HIDE DEF p
<1>10. PICK a \in Nat, b \in Nat : decomposePrime[p(y)] = <<a, b>> /\ a * a + b * b = p(y)
  BY <1>7, <1>9, CandidateIsTwoSquares DEF TwoSquares
<1>11. z = <<y, a, b>>
  BY <1>7, <1>10
<1>12. y * y + a * a + b * b = n
  <2>1. y * y \in Int /\ a * a \in Int /\ b * b \in Int
    BY <1>7
  <2>. QED
    BY <1>9, <1>10, <2>1
<1>. QED
  BY <1>7, <1>11, <1>12 DEF ThreeSquares

\* The table.
LEMMA SpecialCasesAreRight ==
  ASSUME NEW c \in specialCases
  PROVE  c = <<c[1], c[2]>> /\ ThreeSquares(c[1], c[2])
<1>1. /\ ThreeSquares(9634, <<56, 57, 57>>) /\ ThreeSquares(2986, <<21, 32, 39>>)
      /\ ThreeSquares(1906, <<13, 21, 36>>) /\ ThreeSquares(1414, <<6, 17, 33>>)
      /\ ThreeSquares(730, <<0, 1, 27>>) /\ ThreeSquares(706, <<15, 15, 16>>)
      /\ ThreeSquares(526, <<6, 7, 21>>) /\ ThreeSquares(370, <<8, 9, 15>>)
      /\ ThreeSquares(226, <<8, 9, 9>>) /\ ThreeSquares(214, <<3, 6, 13>>)
      /\ ThreeSquares(130, <<0, 3, 11>>) /\ ThreeSquares(85, <<0, 6, 7>>)
      /\ ThreeSquares(58, <<0, 3, 7>>) /\ ThreeSquares(34, <<3, 3, 4>>)
      /\ ThreeSquares(10, <<0, 1, 3>>) /\ ThreeSquares(3, <<1, 1, 1>>)
      /\ ThreeSquares(2, <<0, 1, 1>>)
  BY DEF ThreeSquares
<1>. QED
  BY <1>1 DEF specialCases

LEMMA ThreeSquaresAreRight ==
  ASSUME NEW n \in Nat, threeSquares[n] # <<>>
  PROVE  ThreeSquares(n, threeSquares[n])
<1>. DEFINE c == (n + 1) % 2
<1>1. CASE IsSpecial(n)
  <2>1. threeSquares[n] = (CHOOSE d \in specialCases : d[1] = n)[2]
    BY <1>1 DEF threeSquares
  <2>2. (CHOOSE d \in specialCases : d[1] = n) \in specialCases
        /\ (CHOOSE d \in specialCases : d[1] = n)[1] = n
    BY <1>1, Zenon DEF IsSpecial
  <2>. QED
    BY <2>1, <2>2, SpecialCasesAreRight
<1>2. CASE ~ IsSpecial(n) /\ n % 4 = 3
  <2>1. threeSquares[n] = TwiceAPrime(n, RootLike(n, 1))
    BY <1>2 DEF threeSquares
  <2>. QED
    BY <1>2, <2>1, TwiceAPrimeIsRight
<1>3. CASE ~ IsSpecial(n) /\ n % 4 # 3
  <2>1. threeSquares[n] = APrime(n, RootLike(n, c))
    BY <1>3 DEF threeSquares
  <2>. QED
    BY <1>3, <2>1, APrimeIsRight
<1>. QED
  BY <1>1, <1>2, <1>3
-----------------------------------------------------------------------------
(* Any number as four squares.                                             *)
FourSquaresOf(n, z) ==
  \E x, y, w, t \in Nat : z = <<x, y, w, t>> /\ x * x + y * y + w * w + t * t = n

LEMMA LargestSquareIsLess ==
  ASSUME NEW m \in Nat
  PROVE  /\ largestSquare(m) \in Nat /\ largestSquare(m) * largestSquare(m) <= m
<1>1. isqrt[m] \in Nat /\ isqrt[m] * isqrt[m] <= m /\ (isqrt[m] + 1) * (isqrt[m] + 1) > m
  BY IntegerRoot
<1>2. PICK s \in Nat : s = isqrt[m]
  BY <1>1
<1>3. CASE m % 8 # 7
  BY <1>3 DEF largestSquare
<1>4. CASE m % 8 = 7 /\ s % 4 # 0
  BY <1>1, <1>2, <1>4 DEF largestSquare
<1>5. CASE m % 8 = 7 /\ s % 4 = 0
  <2>1. s # 0
    <3>1. m >= 7
      BY <1>5
    <3>. QED
      BY <1>1, <1>2, <3>1
  <2>2. largestSquare(m) = s - 1 /\ s - 1 \in Nat
    BY <1>2, <1>5, <2>1 DEF largestSquare
  <2>3. (s - 1) * (s - 1) <= s * s
    <3>1. (s - 1) * (s - 1) = s * s - 2 * s + 1
      OBVIOUS
    <3>2. s * s \in Nat /\ s >= 1
      BY <2>1
    <3>. QED
      BY <3>1, <3>2
  <2>4. s * s \in Int /\ (s - 1) * (s - 1) \in Int /\ s * s <= m
    BY <1>1, <1>2
  <2>. QED
    BY <2>2, <2>3, <2>4
<1>. QED
  BY <1>2, <1>3, <1>4, <1>5

LEMMA FourRootsAreRight ==
  ASSUME NEW m \in Nat, fourRoots[m] # <<>>
  PROVE  FourSquaresOf(m, fourRoots[m])
<1>1. isqrt[m] \in Nat
  BY IntegerRoot
<1>2. CASE isqrt[m] * isqrt[m] = m
  <2>1. fourRoots[m] = <<0, 0, 0, isqrt[m]>>
    BY <1>2 DEF fourRoots
  <2>2. 0 * 0 + 0 * 0 + 0 * 0 + isqrt[m] * isqrt[m] = m
    BY <1>1, <1>2
  <2>. QED
    BY <1>1, <2>1, <2>2 DEF FourSquaresOf
<1>3. CASE isqrt[m] * isqrt[m] # m /\ m % 4 = 1 /\ Candidate(m)
  <2>1. fourRoots[m] = <<0, 0, decomposePrime[m][1], decomposePrime[m][2]>>
    BY <1>3 DEF fourRoots
  <2>2. m % 2 = 1 /\ m \in 0 .. m
    BY <1>3
  <2>3. PICK a \in Nat, b \in Nat : decomposePrime[m] = <<a, b>> /\ a * a + b * b = m
    BY <1>3, <2>2, CandidateIsTwoSquares DEF TwoSquares
  <2>4. fourRoots[m] = <<0, 0, a, b>>
    BY <2>1, <2>3
  <2>5. 0 * 0 + 0 * 0 + a * a + b * b = m
    BY <2>3
  <2>. QED
    BY <2>4, <2>5 DEF FourSquaresOf
<1>4. CASE isqrt[m] * isqrt[m] # m /\ ~ (m % 4 = 1 /\ Candidate(m))
  <2>1. PICK d \in Nat : d = largestSquare(m) /\ d * d <= m
    BY LargestSquareIsLess
  <2>2. PICK r \in Nat : r = m - d * d
    BY <2>1
  <2>3. fourRoots[m] = WithLargest(d, threeSquares[r])
    BY <1>4, <2>1, <2>2 DEF fourRoots
  <2>4. threeSquares[r] # <<>>
    BY <2>3 DEF WithLargest
  <2>6. PICK x \in Nat, y \in Nat, w \in Nat : threeSquares[r] = <<x, y, w>> /\ x * x + y * y + w * w = r
    BY <2>4, ThreeSquaresAreRight DEF ThreeSquares
  <2>7. fourRoots[m] = <<d, x, y, w>>
    BY <2>3, <2>4, <2>6 DEF WithLargest
  <2>8. d * d + x * x + y * y + w * w = m
    <3>1. d * d \in Int /\ x * x \in Int /\ y * y \in Int /\ w * w \in Int
      OBVIOUS
    <3>2. r = m - d * d /\ x * x + y * y + w * w = r
      BY <2>2, <2>6
    <3>. QED
      BY <3>1, <3>2
  <2>. QED
    BY <2>7, <2>8 DEF FourSquaresOf
<1>. QED
  BY <1>2, <1>3, <1>4

\* What is divided by four and what is doubled.
DoublingRec(f) ==
  f = [s \in Nat \X Nat |-> IF s[1] # 0 /\ s[1] % 4 = 0 THEN f[<<s[1] \div 4, 2 * s[2]>>] ELSE s]

LEMMA DoublingIsLoop == DoublingRec(Doubling)
<1>. DEFINE X == Nat \X Nat
            D == {s \in X : s[1] # 0 /\ s[1] % 4 = 0}
            next == [s \in X |-> IF s \in D THEN <<s[1] \div 4, 2 * s[2]>> ELSE s]
            out == [s \in X |-> s]
<1>1. next \in [X -> X]
  OBVIOUS
<1>2. PICK f : Loop(X, D, next, out, f)
  <2>. HIDE DEF X, D, next, out
  <2>. QED
    BY <1>1, TailRecursion
<1>3. DoublingRec(f)
  <2>1. \A s \in X : (IF s \in D THEN f[next[s]] ELSE out[s]) =
          IF s[1] # 0 /\ s[1] % 4 = 0 THEN f[<<s[1] \div 4, 2 * s[2]>>] ELSE s
    OBVIOUS
  <2>. HIDE DEF D, next, out
  <2>. QED
    BY <1>2, <2>1, Zenon DEF DoublingRec, Loop
<1>4. Doubling = CHOOSE g : DoublingRec(g)
  BY Zenon DEF Doubling, DoublingRec
<1>. QED
  BY <1>3, <1>4, Zenon

Undone(n, v, s) == \E m \in Nat, w \in Nat : s = <<m, w>> /\ m <= n /\ m * (w * w) = n * (v * v)

LEMMA DoublingIsRight ==
  \A n \in Nat : \A v \in Nat : Undone(n, v, Doubling[<<n, v>>])
<1>. DEFINE Bad == {n \in Nat : \E v \in Nat : ~ Undone(n, v, Doubling[<<n, v>>])}
<1>1. SUFFICES ASSUME Bad # {} PROVE FALSE
  OBVIOUS
<1>2. PICK n \in Bad : \A m \in Bad : n <= m
  BY <1>1, LeastNumber
<1>3. PICK v \in Nat : ~ Undone(n, v, Doubling[<<n, v>>])
  OBVIOUS
<1>4. n \in Nat
  OBVIOUS
<1>. HIDE DEF Bad
<1>5. Doubling[<<n, v>>] = IF n # 0 /\ n % 4 = 0 THEN Doubling[<<n \div 4, 2 * v>>] ELSE <<n, v>>
  <2>1. <<n, v>> \in Nat \X Nat /\ <<n, v>>[1] = n /\ <<n, v>>[2] = v
    BY <1>4
  <2>. QED
    BY <2>1, DoublingIsLoop, Zenon DEF DoublingRec
<1>6. CASE ~ (n # 0 /\ n % 4 = 0)
  <2>1. n \in Nat /\ <<n, v>> = <<n, v>> /\ n <= n /\ n * (v * v) = n * (v * v)
    BY <1>4
  <2>2. Undone(n, v, <<n, v>>)
    BY <2>1, Zenon DEF Undone
  <2>. QED
    BY <1>3, <1>5, <1>6, <2>2
<1>7. CASE n # 0 /\ n % 4 = 0
  <2>1. PICK h \in Nat : h = n \div 4 /\ n = 4 * h /\ h < n
    <3>1. n \div 4 \in Nat /\ n = 4 * (n \div 4) /\ n \div 4 < n
      BY <1>4, <1>7
    <3>. QED
      BY <3>1
  <2>2. h \notin Bad
    BY <1>2, <1>4, <2>1
  <2>3. Undone(h, 2 * v, Doubling[<<h, 2 * v>>])
    BY <2>2 DEF Bad
  <2>4. PICK m \in Nat, w \in Nat :
          Doubling[<<h, 2 * v>>] = <<m, w>> /\ m <= h /\ m * (w * w) = h * ((2 * v) * (2 * v))
    BY <2>3 DEF Undone
  <2>5. h * ((2 * v) * (2 * v)) = n * (v * v)
    BY <2>1
  <2>. QED
    BY <1>3, <1>4, <1>5, <1>7, <2>1, <2>4, <2>5 DEF Undone
<1>. QED
  BY <1>6, <1>7

\* Whatever number is decomposed: if the search for a prime ends, the roots are
\* four and their squares sum to the number.
THEOREM DecomposeIsRight ==
  ASSUME NEW n \in Nat, n > 1, decompose[n] # <<>>
  PROVE  FourSquaresOf(n, decompose[n])
<1>1. PICK m \in Nat, v \in Nat : Doubling[<<n, 1>>] = <<m, v>> /\ m <= n /\ m * (v * v) = n
  <2>1. Undone(n, 1, Doubling[<<n, 1>>])
    BY DoublingIsRight
  <2>. QED
    BY <2>1 DEF Undone
<1>2. decompose[n] = Scaled(v, fourRoots[m])
  <2>1. n \in Int /\ ~ (n <= 1)
    OBVIOUS
  <2>2. decompose[n] = Scaled(Doubling[<<n, 1>>][2], fourRoots[Doubling[<<n, 1>>][1]])
    BY <2>1, Zenon DEF decompose
  <2>. QED
    BY <1>1, <2>2
<1>3. fourRoots[m] # <<>>
  BY <1>2 DEF Scaled
<1>5. PICK x \in Nat, y \in Nat, w \in Nat, t \in Nat :
        fourRoots[m] = <<x, y, w, t>> /\ x * x + y * y + w * w + t * t = m
  BY <1>3, FourRootsAreRight DEF FourSquaresOf
<1>6. decompose[n] = <<v * x, v * y, v * w, v * t>>
  BY <1>2, <1>5 DEF Scaled
<1>7. (v * x) * (v * x) + (v * y) * (v * y) + (v * w) * (v * w) + (v * t) * (v * t) = n
  <2>1. (v * x) * (v * x) + (v * y) * (v * y) + (v * w) * (v * w) + (v * t) * (v * t)
          = (x * x + y * y + w * w + t * t) * (v * v)
    OBVIOUS
  <2>. QED
    BY <1>1, <1>5, <2>1
<1>8. v * x \in Nat /\ v * y \in Nat /\ v * w \in Nat /\ v * t \in Nat
  OBVIOUS
<1>. QED
  BY <1>6, <1>7, <1>8 DEF FourSquaresOf
-----------------------------------------------------------------------------
(* The cache of the roots.                                                 *)
RootsInv ==
  /\ job \in Jobs
  /\ decomp_cache = [n \in DOMAIN decomp_cache |-> decompose[n]]
  /\ DOMAIN decomp_cache \in SUBSET Numbers

LEMMA InitRoots == Init => RootsInv
BY DEF Init, RootsInv

LEMMA NextRoots == RootsInv /\ [Next]_vars => RootsInv'
<1>. SUFFICES ASSUME RootsInv, [Next]_vars PROVE RootsInv'
  OBVIOUS
<1>. USE DEF RootsInv
<1>1. CASE Decompose /\ UNCHANGED job
  <2>1. PICK n \in Numbers :
          decomp_cache' = [x \in DOMAIN decomp_cache \cup {n} |->
                             IF x \in DOMAIN decomp_cache THEN decomp_cache[x] ELSE decompose[n]]
    BY <1>1 DEF Decompose
  <2>2. DOMAIN decomp_cache' = DOMAIN decomp_cache \cup {n}
    BY <2>1
  <2>3. \A x \in DOMAIN decomp_cache' : decomp_cache'[x] = decompose[x]
    BY <2>1, <2>2
  <2>. QED
    BY <1>1, <2>1, <2>2, <2>3
<1>2. CASE UNCHANGED <<decomp_cache, job>>
  BY <1>2
<1>3. CASE Next
  BY <1>1, <1>2, <1>3 DEF Next
<1>4. CASE UNCHANGED vars
  BY <1>2, <1>4 DEF vars
<1>. QED
  BY <1>3, <1>4

LEMMA RootsAreRight == RootsInv => SquaresAreRight
<1>. SUFFICES ASSUME RootsInv, NEW n \in DOMAIN decomp_cache
     PROVE  LET r == decomp_cache[n]
            IN  /\ Len(r) = 4
                /\ (n >= 0) = (r[1] * r[1] + r[2] * r[2] + r[3] * r[3] + r[4] * r[4] = n)
  BY DEF SquaresAreRight
<1>1. n \in Numbers /\ n \in Int /\ decomp_cache[n] = decompose[n]
  BY SearchesEnd DEF RootsInv
<1>2. CASE n <= 1
  <2>1. decompose[n] = <<0, 0, 0, n>>
    BY <1>1, <1>2, Zenon DEF decompose
  <2>2. (n >= 0) = (0 * 0 + 0 * 0 + 0 * 0 + n * n = n)
    <3>1. CASE n = 0 \/ n = 1
      BY <3>1
    <3>2. CASE n < 0
      <4>1. n * n >= 0
        BY <1>1
      <4>. QED
        BY <1>1, <3>2, <4>1
    <3>. QED
      BY <1>1, <1>2, <3>1, <3>2
  <2>. QED
    BY <1>1, <2>1, <2>2
<1>3. CASE n > 1
  <2>2. decompose[n] # <<>> /\ n \in Nat
    BY <1>1, <1>3, SearchesEnd
  <2>3. PICK x \in Nat, y \in Nat, w \in Nat, t \in Nat :
          decompose[n] = <<x, y, w, t>> /\ x * x + y * y + w * w + t * t = n
    BY <1>3, <2>2, DecomposeIsRight DEF FourSquaresOf
  <2>. QED
    BY <1>1, <1>3, <2>3
<1>. QED
  BY <1>1, <1>2, <1>3

\* Whatever numbers were decomposed, in whatever order, the cache answers with
\* four roots whose squares sum to the number, whichever case of the algorithm
\* found them, and a negative number with roots whose squares do not.
THEOREM SquaresAlwaysRight == Spec => []SquaresAreRight
<1>1. Spec => []RootsInv
  BY InitRoots, NextRoots, PTL DEF Spec
<1>. QED
  BY <1>1, RootsAreRight, PTL
-----------------------------------------------------------------------------
(* Counter mode, for any block size, any size of a word and any file that  *)
(* does not exhaust the last word of the counter: a byte of the key stream *)
(* depends on its place in the file alone.                                 *)

\* Division with a remainder.
LEMMA Division ==
  ASSUME NEW p \in Nat
  PROVE  /\ p = AES_BLOCK_SIZE * (p \div AES_BLOCK_SIZE) + (p % AES_BLOCK_SIZE)
         /\ p % AES_BLOCK_SIZE \in 0 .. AES_BLOCK_SIZE - 1 /\ p \div AES_BLOCK_SIZE \in Nat
BY LengthAssumption

\* There is one quotient and one remainder.
LEMMA OneDivision ==
  ASSUME NEW p \in Nat, NEW q \in Nat, NEW r \in 0 .. AES_BLOCK_SIZE - 1,
         p = AES_BLOCK_SIZE * q + r
  PROVE  p \div AES_BLOCK_SIZE = q /\ p % AES_BLOCK_SIZE = r
BY LengthAssumption

\* The next byte is in the same block, or begins the next one.
LEMMA NextByte ==
  ASSUME NEW p \in Nat
  PROVE  LET q == p \div AES_BLOCK_SIZE
             n == p % AES_BLOCK_SIZE
         IN  /\ (p + 1) % AES_BLOCK_SIZE = (n + 1) % AES_BLOCK_SIZE
             /\ (p + 1) % AES_BLOCK_SIZE # 0 =>
                   (p + 1) \div AES_BLOCK_SIZE = q /\ (p + 1) % AES_BLOCK_SIZE = n + 1
             /\ (p + 1) % AES_BLOCK_SIZE = 0 => (p + 1) \div AES_BLOCK_SIZE = q + 1
<1>. DEFINE B == AES_BLOCK_SIZE
            q == p \div B
            n == p % B
<1>1. B \in Nat \ {0}
  BY LengthAssumption
<1>2. p = B * q + n /\ n \in 0 .. B - 1 /\ q \in Nat
  BY Division
<1>3. CASE n + 1 < B
  <2>1. p + 1 = B * q + (n + 1) /\ n + 1 \in 0 .. B - 1
    BY <1>1, <1>2, <1>3
  <2>2. (p + 1) \div B = q /\ (p + 1) % B = n + 1
    BY <1>1, <1>2, <2>1, OneDivision
  <2>3. (n + 1) % B = n + 1
    BY <1>1, <1>2, <1>3
  <2>. QED
    BY <1>2, <2>2, <2>3
<1>4. CASE n + 1 = B
  <2>1. p + 1 = B * (q + 1) + 0 /\ 0 \in 0 .. B - 1 /\ q + 1 \in Nat
    BY <1>1, <1>2, <1>4
  <2>2. (p + 1) \div B = q + 1 /\ (p + 1) % B = 0
    BY <1>1, <1>2, <2>1, OneDivision
  <2>3. (n + 1) % B = 0
    BY <1>1, <1>4
  <2>. QED
    BY <2>2, <2>3
<1>. QED
  BY <1>1, <1>2, <1>3, <1>4
-----------------------------------------------------------------------------
(* The counter.                                                            *)

\* The counter of block b, of which only the last word is of the block, and the
\* one that is left when the last word has run out.
Counter(ivec, b) == IF b < WORD THEN [ivec EXCEPT ![4] = b]
                    ELSE AES_counter128_inc([ivec EXCEPT ![4] = WORD - 1])

\* Counting goes from one block's counter to the next one's.
LEMMA NextCounter ==
  ASSUME NEW ivec \in [1 .. 4 -> 0 .. WORD - 1], NEW b \in 0 .. WORD - 1
  PROVE  AES_counter128_inc(Counter(ivec, b)) = Counter(ivec, b + 1)
<1>1. WORD \in Nat \ {0}
  BY LengthAssumption
<1>. DEFINE c == [ivec EXCEPT ![4] = b]
<1>2. Counter(ivec, b) = c
  BY <1>1 DEF Counter
<1>3. CASE b = WORD - 1
  BY <1>1, <1>2, <1>3 DEF Counter
<1>4. CASE b < WORD - 1
  <2>. DEFINE S == {0} \cup {i \in 1 .. 4 : c[i] # WORD - 1}
  <2>1. 4 \in S /\ \A x \in S : x \in 0 .. 4
    BY <1>1, <1>4
  <2>2. Max(S) = 4
    <3>. HIDE DEF S
    <3>. QED
      BY <2>1 DEF Max
  <2>3. AES_counter128_inc(c) =
          [i \in 1 .. 4 |-> IF i > 4 THEN 0 ELSE IF i = 4 THEN c[i] + 1 ELSE c[i]]
    BY <2>2 DEF AES_counter128_inc
  <2>4. AES_counter128_inc(c) = [ivec EXCEPT ![4] = b + 1]
    <3>1. AES_counter128_inc(c) = [i \in 1 .. 4 |-> IF i = 4 THEN b + 1 ELSE ivec[i]]
      BY <2>3
    <3>2. [ivec EXCEPT ![4] = b + 1] = [i \in 1 .. 4 |-> IF i = 4 THEN b + 1 ELSE ivec[i]]
      OBVIOUS
    <3>. QED
      BY <3>1, <3>2
  <2>. QED
    BY <1>1, <1>2, <1>4, <2>4 DEF Counter
<1>. QED
  BY <1>1, <1>3, <1>4

\* The counters of two blocks of a file differ.
LEMMA CountersDiffer ==
  ASSUME NEW ivec \in [1 .. 4 -> 0 .. WORD - 1],
         NEW b \in 0 .. WORD - 1, NEW d \in 0 .. WORD - 1,
         Counter(ivec, b) = Counter(ivec, d)
  PROVE  b = d
<1>1. Counter(ivec, b)[4] = b /\ Counter(ivec, d)[4] = d
  BY LengthAssumption DEF Counter
<1>. QED
  BY <1>1

\* The bytes of the file are in as many blocks as the last word counts.
LEMMA BlockOfByte ==
  ASSUME NEW p \in 0 .. FILE_LENGTH - 1
  PROVE  p \div AES_BLOCK_SIZE \in 0 .. WORD - 1
<1>. DEFINE B == AES_BLOCK_SIZE
            q == p \div B
            n == p % B
<1>1. B \in Nat \ {0} /\ WORD \in Nat \ {0} /\ p \in Nat /\ p < WORD * B
  BY LengthAssumption
<1>2. p = B * q + n /\ n \in 0 .. B - 1 /\ q \in Nat
  BY <1>1, Division
<1>. HIDE DEF q, n
<1>3. ASSUME q >= WORD PROVE FALSE
  <2>1. q * B >= WORD * B
    BY <1>1, <1>2, <1>3
  <2>. QED
    BY <1>1, <1>2, <2>1
<1>. QED
  BY <1>1, <1>2, <1>3 DEF q
-----------------------------------------------------------------------------
(* The key stream.                                                         *)

\* The byte of the key stream for place p of the file.
StreamByte(ivec, p) == <<Counter(ivec, p \div AES_BLOCK_SIZE), p % AES_BLOCK_SIZE>>

\* Where the loop is after i bytes.
After(ivec, offset, i) ==
  LET p == offset + i
      q == p \div AES_BLOCK_SIZE
  IN  [counter |-> Counter(ivec, IF p % AES_BLOCK_SIZE = 0 THEN q ELSE q + 1),
       enc |-> Counter(ivec, IF i = 0 THEN q ELSE (p - 1) \div AES_BLOCK_SIZE),
       n |-> p % AES_BLOCK_SIZE]

\* The loop begins where it should.
LEMMA Starting ==
  ASSUME NEW ivec \in [1 .. 4 -> 0 .. WORD - 1], NEW offset \in 0 .. FILE_LENGTH - 1
  PROVE  Start(ivec, offset) = After(ivec, offset, 0)
<1>. DEFINE q == offset \div AES_BLOCK_SIZE
<1>1. q \in 0 .. WORD - 1
  BY BlockOfByte
<1>2. offset + 0 = offset
  OBVIOUS
<1>. HIDE DEF q
<1>3. AES_counter128_set(ivec, q) = Counter(ivec, q)
  <2>1. q % WORD = q /\ q < WORD
    BY <1>1, LengthAssumption
  <2>. QED
    BY <2>1 DEF AES_counter128_set, Counter
<1>4. AES_counter128_inc(Counter(ivec, q)) = Counter(ivec, q + 1)
  BY <1>1, NextCounter
<1>. QED
  BY <1>2, <1>3, <1>4 DEF Start, After, q

\* One pass of the loop.
Pass(s) == [counter |-> IF s.n = 0 THEN AES_counter128_inc(s.counter) ELSE s.counter,
            enc |-> IF s.n = 0 THEN s.counter ELSE s.enc,
            n |-> (s.n + 1) % AES_BLOCK_SIZE]

\* It goes on where it should.
LEMMA Passing ==
  ASSUME NEW ivec \in [1 .. 4 -> 0 .. WORD - 1], NEW offset \in Nat, NEW i \in Nat,
         offset + i < FILE_LENGTH
  PROVE  Pass(After(ivec, offset, i)) = After(ivec, offset, i + 1)
<1>. DEFINE p == offset + i
            q == p \div AES_BLOCK_SIZE
            n == p % AES_BLOCK_SIZE
            s == After(ivec, offset, i)
            t == After(ivec, offset, i + 1)
            before == IF i = 0 THEN q ELSE (p - 1) \div AES_BLOCK_SIZE
            next == (p + 1) \div AES_BLOCK_SIZE
<1>1. /\ p \in Nat /\ p + 1 \in Nat /\ p \in 0 .. FILE_LENGTH - 1
      /\ offset + (i + 1) = p + 1 /\ (p + 1) - 1 = p /\ i + 1 # 0
  BY LengthAssumption
<1>2. q \in 0 .. WORD - 1
  BY <1>1, BlockOfByte
<1>3. /\ (p + 1) % AES_BLOCK_SIZE = (n + 1) % AES_BLOCK_SIZE
      /\ (p + 1) % AES_BLOCK_SIZE # 0 => next = q
      /\ (p + 1) % AES_BLOCK_SIZE = 0 => next = q + 1
  BY <1>1, NextByte
<1>4. n # 0 => before = q
  <2>1. CASE i = 0
    BY <2>1
  <2>2. CASE i # 0
    <3>1. p - 1 \in Nat /\ (p - 1) + 1 = p
      BY <1>1, <2>2
    <3>2. p % AES_BLOCK_SIZE # 0 => p \div AES_BLOCK_SIZE = (p - 1) \div AES_BLOCK_SIZE
      BY <3>1, NextByte
    <3>. QED
      BY <2>2, <3>2
  <2>. QED
    BY <2>1, <2>2
<1>5. /\ s = [counter |-> Counter(ivec, IF n = 0 THEN q ELSE q + 1),
              enc |-> Counter(ivec, before), n |-> n]
      /\ t = [counter |-> Counter(ivec, IF (p + 1) % AES_BLOCK_SIZE = 0 THEN next ELSE next + 1),
              enc |-> Counter(ivec, q), n |-> (p + 1) % AES_BLOCK_SIZE]
  BY <1>1 DEF After
<1>6. AES_counter128_inc(Counter(ivec, q)) = Counter(ivec, q + 1)
  BY <1>2, NextCounter
<1>7. t = [counter |-> Counter(ivec, q + 1), enc |-> Counter(ivec, q),
           n |-> (n + 1) % AES_BLOCK_SIZE]
  BY <1>3, <1>5
<1>. HIDE DEF n, q, s, t, before
<1>8. n = 0 => Pass(s) = t
  BY <1>5, <1>6, <1>7 DEF Pass
<1>9. n # 0 => Pass(s) = t
  BY <1>4, <1>5, <1>7 DEF Pass
<1>. QED
  BY <1>8, <1>9 DEF s, t

\* What the passes of the loop make of the start: they determine one function,
\* and it is After.
Passes(ivec, offset, length, f) ==
  f = [i \in 0 .. length |-> IF i = 0 THEN Start(ivec, offset) ELSE Pass(f[i - 1])]

LEMMA PassesAreAfter ==
  ASSUME NEW ivec \in [1 .. 4 -> 0 .. WORD - 1], NEW offset \in 0 .. FILE_LENGTH - 1,
         NEW length \in 0 .. FILE_LENGTH - offset
  PROVE  /\ Passes(ivec, offset, length, [i \in 0 .. length |-> After(ivec, offset, i)])
         /\ \A f : Passes(ivec, offset, length, f) =>
               \A i \in 0 .. length : f[i] = After(ivec, offset, i)
<1>1. offset \in Nat /\ length \in Nat /\ FILE_LENGTH \in Nat
  BY LengthAssumption
<1>2. Start(ivec, offset) = After(ivec, offset, 0)
  BY Starting
<1>3. \A i \in 1 .. length :
         /\ i - 1 \in 0 .. length
         /\ Pass(After(ivec, offset, i - 1)) = After(ivec, offset, i)
  <2>. SUFFICES ASSUME NEW i \in 1 .. length
                PROVE  /\ i - 1 \in 0 .. length
                       /\ Pass(After(ivec, offset, i - 1)) = After(ivec, offset, i)
    OBVIOUS
  <2>1. i - 1 \in Nat /\ offset + (i - 1) < FILE_LENGTH /\ (i - 1) + 1 = i
    BY <1>1
  <2>2. Pass(After(ivec, offset, i - 1)) = After(ivec, offset, (i - 1) + 1)
    BY <1>1, <2>1, Passing
  <2>. QED
    BY <1>1, <2>1, <2>2
<1>4. Passes(ivec, offset, length, [i \in 0 .. length |-> After(ivec, offset, i)])
  <2>. DEFINE g == [i \in 0 .. length |-> After(ivec, offset, i)]
  <2>1. \A i \in 0 .. length :
           (IF i = 0 THEN Start(ivec, offset) ELSE Pass(g[i - 1])) = After(ivec, offset, i)
    BY <1>1, <1>2, <1>3
  <2>. QED
    BY <2>1 DEF Passes
<1>5. ASSUME NEW f, Passes(ivec, offset, length, f)
      PROVE  \A i \in 0 .. length : f[i] = After(ivec, offset, i)
  <2>. DEFINE N == {i \in 0 .. length : f[i] # After(ivec, offset, i)}
  <2>1. /\ f[0] = After(ivec, offset, 0)
        /\ \A i \in 1 .. length : f[i] = Pass(f[i - 1])
    BY <1>1, <1>2, <1>5 DEF Passes
  <2>2. ASSUME N # {} PROVE FALSE
    <3>1. PICK i \in N : \A j \in N : i <= j
      <4>1. N \subseteq Nat
        BY <1>1
      <4>. HIDE DEF N
      <4>. QED
        BY <2>2, <4>1, LeastNumber
    <3>2. i \in 1 .. length /\ i - 1 \in 0 .. length /\ i - 1 \notin N
      BY <1>1, <2>1, <3>1
    <3>3. f[i] = After(ivec, offset, i)
      BY <1>3, <2>1, <3>2
    <3>. QED
      BY <3>3
  <2>. QED
    BY <2>2
<1>. QED
  BY <1>4, <1>5

\* So a byte of the key stream depends on its place in the file alone.
LEMMA StreamByPlace ==
  ASSUME NEW ivec \in [1 .. 4 -> 0 .. WORD - 1], NEW offset \in 0 .. FILE_LENGTH - 1,
         NEW length \in 0 .. FILE_LENGTH - offset, NEW i \in 1 .. length
  PROVE  KeyStream(ivec, offset, length)[i] = StreamByte(ivec, offset + i - 1)
<1>. DEFINE f == CHOOSE f : Passes(ivec, offset, length, f)
<1>1. Passes(ivec, offset, length, f)
  <2>1. \E g : Passes(ivec, offset, length, g)
    BY PassesAreAfter, Zenon
  <2>. QED
    BY <2>1, Zenon
<1>2. KeyStream(ivec, offset, length) = [j \in 1 .. length |-> <<f[j].enc, f[j - 1].n>>]
  BY Zenon DEF KeyStream, Passes, Pass
<1>. HIDE DEF f
<1>3. \A j \in 0 .. length : f[j] = After(ivec, offset, j)
  BY <1>1, PassesAreAfter
<1>4. /\ i \in 0 .. length /\ i - 1 \in 0 .. length /\ i # 0
      /\ offset + (i - 1) = offset + i - 1
  BY LengthAssumption
<1>5. f[i].enc = Counter(ivec, (offset + i - 1) \div AES_BLOCK_SIZE)
  <2>1. After(ivec, offset, i).enc = Counter(ivec, (offset + i - 1) \div AES_BLOCK_SIZE)
    BY <1>4 DEF After
  <2>. QED
    BY <1>3, <1>4, <2>1
<1>6. f[i - 1].n = (offset + i - 1) % AES_BLOCK_SIZE
  <2>1. After(ivec, offset, i - 1).n = (offset + (i - 1)) % AES_BLOCK_SIZE
    BY DEF After
  <2>. QED
    BY <1>3, <1>4, <2>1
<1>. QED
  BY <1>2, <1>5, <1>6 DEF StreamByte

\* No two places of the file have the same byte.
LEMMA PlacesDiffer ==
  ASSUME NEW ivec \in [1 .. 4 -> 0 .. WORD - 1], NEW p \in 0 .. FILE_LENGTH - 1,
         NEW r \in 0 .. FILE_LENGTH - 1, StreamByte(ivec, p) = StreamByte(ivec, r)
  PROVE  p = r
<1>1. /\ Counter(ivec, p \div AES_BLOCK_SIZE) = Counter(ivec, r \div AES_BLOCK_SIZE)
      /\ p % AES_BLOCK_SIZE = r % AES_BLOCK_SIZE
  BY DEF StreamByte
<1>2. p \div AES_BLOCK_SIZE = r \div AES_BLOCK_SIZE
  BY <1>1, BlockOfByte, CountersDiffer
<1>3. /\ p = AES_BLOCK_SIZE * (p \div AES_BLOCK_SIZE) + (p % AES_BLOCK_SIZE)
      /\ r = AES_BLOCK_SIZE * (r \div AES_BLOCK_SIZE) + (r % AES_BLOCK_SIZE)
  BY Division
<1>. QED
  BY <1>1, <1>2, <1>3
-----------------------------------------------------------------------------
(* The file.                                                               *)

\* A byte is in clear, or hidden by the byte of the key stream for its place.
FileInv ==
  /\ iv = <<>> \/ iv \in Ivs
  /\ hidden \in [1 .. FILE_LENGTH -> BOOLEAN]
  /\ iv = <<>> => \A i \in 1 .. FILE_LENGTH : ~ hidden[i]
  /\ DOMAIN buffer = 1 .. FILE_LENGTH
  /\ \A i \in 1 .. FILE_LENGTH :
        buffer[i] = IF hidden[i] THEN xor(plain[i], {StreamByte(iv, i - 1)}) ELSE plain[i]

\* What is XORed twice is as before.
LEMMA Twice ==
  ASSUME NEW a, NEW b
  PROVE  xor(xor(a, b), b) = a
BY DEF xor

LEMMA InitFile == FileInit => FileInv
BY DEF FileInit, FileInv, plain

\* A part that is encrypted or decrypted is XORed with the bytes for its places.
LEMMA CryptFile ==
  ASSUME FileInv, AES_counter_crypt
  PROVE  FileInv'
<1>a. PICK offset \in 0 .. FILE_LENGTH - 1 : \E length \in 1 .. FILE_LENGTH - offset :
         LET stream == KeyStream(iv, offset, length)
             part == offset + 1 .. offset + length
         IN  /\ iv # <<>>
             /\ buffer' = [i \in DOMAIN buffer |->
                             IF i \in part THEN xor(buffer[i], {stream[i - offset]}) ELSE buffer[i]]
             /\ hidden' = [i \in DOMAIN hidden |-> (i \in part) # hidden[i]]
             /\ UNCHANGED iv
  BY DEF AES_counter_crypt
<1>1. PICK length \in 1 .. FILE_LENGTH - offset :
         LET stream == KeyStream(iv, offset, length)
             part == offset + 1 .. offset + length
         IN  /\ iv # <<>>
             /\ buffer' = [i \in DOMAIN buffer |->
                             IF i \in part THEN xor(buffer[i], {stream[i - offset]}) ELSE buffer[i]]
             /\ hidden' = [i \in DOMAIN hidden |-> (i \in part) # hidden[i]]
             /\ UNCHANGED iv
  BY <1>a
<1>. DEFINE stream == KeyStream(iv, offset, length)
            part == offset + 1 .. offset + length
<1>2. /\ iv # <<>> /\ UNCHANGED iv
      /\ iv \in [1 .. 4 -> 0 .. WORD - 1]
  BY <1>1, LengthAssumption DEF FileInv
<1>3. /\ DOMAIN buffer' = 1 .. FILE_LENGTH
      /\ hidden' \in [1 .. FILE_LENGTH -> BOOLEAN]
      /\ \A i \in 1 .. FILE_LENGTH :
            /\ i \in part => /\ buffer'[i] = xor(buffer[i], {stream[i - offset]})
                             /\ hidden'[i] = ~ hidden[i]
            /\ i \notin part => buffer'[i] = buffer[i] /\ hidden'[i] = hidden[i]
  BY <1>1 DEF FileInv
<1>4. \A i \in part : stream[i - offset] = StreamByte(iv, i - 1)
  <2>. SUFFICES ASSUME NEW i \in part
                PROVE  stream[i - offset] = StreamByte(iv, i - 1)
    OBVIOUS
  <2>. DEFINE j == i - offset
  <2>1. j \in 1 .. length /\ offset + j - 1 = i - 1 /\ length \in 0 .. FILE_LENGTH - offset
    BY LengthAssumption
  <2>. HIDE DEF j
  <2>2. stream[j] = StreamByte(iv, offset + j - 1)
    BY <1>2, <2>1, StreamByPlace
  <2>. QED
    BY <2>1, <2>2 DEF j
<1>. HIDE DEF stream, part
<1>5. ASSUME NEW i \in 1 .. FILE_LENGTH
      PROVE  buffer'[i] = IF hidden'[i] THEN xor(plain[i], {StreamByte(iv, i - 1)}) ELSE plain[i]
  <2>. DEFINE w == {StreamByte(iv, i - 1)}
  <2>1. buffer[i] = IF hidden[i] THEN xor(plain[i], w) ELSE plain[i]
    BY DEF FileInv
  <2>2. xor(xor(plain[i], w), w) = plain[i]
    BY Twice
  <2>3. CASE i \in part
    <3>1. buffer'[i] = xor(buffer[i], w) /\ hidden'[i] = ~ hidden[i]
      BY <1>3, <1>4, <2>3
    <3>2. hidden[i] \in BOOLEAN
      BY DEF FileInv
    <3>. HIDE DEF w
    <3>3. CASE hidden[i]
      BY <2>1, <2>2, <3>1, <3>3 DEF w
    <3>4. CASE ~ hidden[i]
      BY <2>1, <3>1, <3>4 DEF w
    <3>. QED
      BY <3>3, <3>4
  <2>4. CASE i \notin part
    BY <1>3, <2>1, <2>4
  <2>. QED
    BY <2>3, <2>4
<1>. QED
  BY <1>2, <1>3, <1>5 DEF FileInv, plain

LEMMA NextFile == FileInv /\ [FileNext]_fileVars => FileInv'
<1>. SUFFICES ASSUME FileInv, [FileNext]_fileVars PROVE FileInv'
  OBVIOUS
<1>1. CASE GenerateKey
  BY <1>1 DEF GenerateKey, FileInv, plain
<1>2. CASE AES_counter_crypt
  BY <1>2, CryptFile
<1>3. CASE UNCHANGED fileVars
  BY <1>3 DEF fileVars, FileInv, plain
<1>. QED
  BY <1>1, <1>2, <1>3 DEF FileNext

\* The bytes of the file are then as if it had been encrypted at once.
LEMMA FileAgrees == FileInv => PartsAgree
<1>. SUFFICES ASSUME FileInv, iv # <<>> PROVE PartsAgree
  BY DEF PartsAgree
<1>. DEFINE whole == KeyStream(iv, 0, FILE_LENGTH)
<1>1. iv \in [1 .. 4 -> 0 .. WORD - 1] /\ DOMAIN buffer = 1 .. FILE_LENGTH
  BY LengthAssumption DEF FileInv
<1>2. \A i \in 1 .. FILE_LENGTH : whole[i] = StreamByte(iv, i - 1)
  <2>. SUFFICES ASSUME NEW i \in 1 .. FILE_LENGTH
                PROVE  whole[i] = StreamByte(iv, i - 1)
    OBVIOUS
  <2>1. /\ 0 \in 0 .. FILE_LENGTH - 1 /\ FILE_LENGTH \in 0 .. FILE_LENGTH - 0
        /\ 0 + i - 1 = i - 1
    BY LengthAssumption
  <2>2. whole[i] = StreamByte(iv, 0 + i - 1)
    BY <1>1, <2>1, StreamByPlace
  <2>. QED
    BY <2>1, <2>2
<1>. HIDE DEF whole
<1>3. \A i, j \in 1 .. FILE_LENGTH : whole[i] = whole[j] => i = j
  <2>. SUFFICES ASSUME NEW i \in 1 .. FILE_LENGTH, NEW j \in 1 .. FILE_LENGTH,
                       whole[i] = whole[j]
                PROVE  i = j
    OBVIOUS
  <2>1. i - 1 \in 0 .. FILE_LENGTH - 1 /\ j - 1 \in 0 .. FILE_LENGTH - 1
    BY LengthAssumption
  <2>2. StreamByte(iv, i - 1) = StreamByte(iv, j - 1)
    BY <1>2
  <2>3. i - 1 = j - 1
    BY <1>1, <2>1, <2>2, PlacesDiffer
  <2>. QED
    BY <2>3
<1>4. \A i \in 1 .. FILE_LENGTH :
         buffer[i] = IF hidden[i] THEN xor(plain[i], {whole[i]}) ELSE plain[i]
  BY <1>2 DEF FileInv
<1>. QED
  BY <1>1, <1>3, <1>4 DEF PartsAgree, whole

\* Whichever parts of a file are encrypted and decrypted, from whatever offset, it
\* is as if the file had been encrypted at once, and no byte of the key stream is
\* used for two places: Ciphertext::AES_counter_crypt sets the counter to the
\* number of the block and takes up the block at the byte the part begins with.
THEOREM PartsAlwaysAgree == Spec => []PartsAgree
<1>1. Init => FileInv
  BY InitFile DEF Init
<1>2. FileInv /\ [Next]_vars => FileInv'
  <2>1. [Next]_vars => [FileNext]_fileVars
    BY Zenon DEF Next, vars, fileVars
  <2>. QED
    BY <2>1, NextFile
<1>3. Spec => []FileInv
  BY <1>1, <1>2, PTL DEF Spec
<1>. QED
  BY <1>3, FileAgrees, PTL

-----------------------------------------------------------------------------
(* The caches of exponentiation.                                           *)

LEMMA SpecTables == Spec => []TablesAreRight
<1>1. Init => TablesAreRight
  BY InitTables DEF Init
<1>2. TablesAreRight /\ [Next]_vars => TablesAreRight'
  <2>1. [Next]_vars => [ExponentiationNext]_exponentiationVars
    BY Zenon DEF Next, vars, exponentiationVars
  <2>. QED
    BY <2>1, NextTables
<1>. QED
  BY <1>1, <1>2, PTL DEF Spec

\* Whatever was cached before, in whatever order and by whichever thread, and
\* whichever of the caches serves a call: Environment::modPow, Environment::multiExp
\* and MultiExp answer the product of the bases to their exponents, for every
\* group, every length of the exponents and every width of the tables' rows.
THEOREM AnswersAlwaysRight == Spec => []AnswersAreRight
BY SpecTables, TablesAnswerRight, PTL

-----------------------------------------------------------------------------
(* Types.                                                                  *)

\* A group of either kind, with its generators, which are residues.
PrimeGroups == [type : {"PRIME"}, mod : Nat \ {0}, order : Nat, factor : Nat, gens : Seq(Int)]
RSAGroups == [type : {"RSA"}, mod : Nat \ {0}, order : {0}, p : Nat, q : Nat, gens : Seq(Int)]
IsGroup(g) ==
  g = NoGroup \/ (g \in PrimeGroups \cup RSAGroups /\ Len(g.gens) \in 1 .. MAX_GENERATORS)
TypeInv ==
  /\ IsGroup(own) /\ IsGroup(public)
  /\ IsFiniteSet(DOMAIN decomp_cache) /\ Cardinality(DOMAIN decomp_cache) <= MAX_CACHED

LEMMA InitTypes == Init => TypeInv
<1>1. IsFiniteSet({}) /\ Cardinality({}) = 0
  BY FS_EmptySet
<1>. QED
  BY <1>1, CachedAssumption DEF Init, GroupsInit, TypeInv, IsGroup

\* What a generator is made of is a residue.
LEMMA GeneratorIsNumber ==
  ASSUME NEW v \in Int, NEW e \in Nat, NEW m \in Nat \ {0}
  PROVE  PowerMod(v, e, m) \in Int
BY PowerIsResidue

LEMMA NextGroups ==
  ASSUME IsGroup(own), IsGroup(public), GroupsNext
  PROVE  IsGroup(own)' /\ IsGroup(public)'
<1>. USE GroupsAssumption
<1>1. ASSUME NewGroupPrime PROVE IsGroup(own)' /\ IsGroup(public)'
  <2>1. PICK order \in Primes, factor \in Factors, gammaPrime \in Draws :
          LET g == [type |-> "PRIME", mod |-> order * factor + 1, order |-> order,
                    factor |-> factor, gens |-> <<>>]
              v == primeGenerator(g, gammaPrime)
          IN  own' = [g EXCEPT !.gens = <<v>>] /\ UNCHANGED public
    BY <1>1, Zenon DEF NewGroupPrime
  <2>. DEFINE m == order * factor + 1
              v == PowerMod(gammaPrime, factor, m)
  <2>2. own' = [type |-> "PRIME", mod |-> m, order |-> order, factor |-> factor, gens |-> <<v>>]
    BY <2>1 DEF primeGenerator
  <2>3. m \in Nat \ {0} /\ order \in Nat /\ factor \in Nat /\ gammaPrime \in Int
    OBVIOUS
  <2>. HIDE DEF m
  <2>4. v \in Int
    BY <2>3, GeneratorIsNumber
  <2>. HIDE DEF v
  <2>5. own' \in PrimeGroups /\ Len(own'.gens) = 1
    BY <2>2, <2>3, <2>4 DEF PrimeGroups
  <2>. QED
    BY <2>1, <2>5 DEF IsGroup
<1>2. ASSUME NewGroupRSA PROVE IsGroup(own)' /\ IsGroup(public)'
  <2>1. PICK pPrime \in GermainPrimes, qPrime \in GermainPrimes, arbitrary \in Draws :
          LET p == 2 * pPrime + 1
              q == 2 * qPrime + 1
              g == [type |-> "RSA", mod |-> p * q, order |-> 0, p |-> p, q |-> q, gens |-> <<>>]
              v == rsaGenerator(g, arbitrary)
          IN  own' = [g EXCEPT !.gens = <<v>>] /\ UNCHANGED public
    BY <1>2, Zenon DEF NewGroupRSA
  <2>. DEFINE p == 2 * pPrime + 1
              q == 2 * qPrime + 1
              m == p * q
              v == PowerMod(arbitrary, 2, m)
  <2>2. own' = [type |-> "RSA", mod |-> m, order |-> 0, p |-> p, q |-> q, gens |-> <<v>>]
    BY <2>1 DEF rsaGenerator
  <2>3. p \in Nat \ {0} /\ q \in Nat \ {0} /\ arbitrary \in Int
    OBVIOUS
  <2>. HIDE DEF p, q
  <2>4. m \in Nat \ {0}
    BY <2>3
  <2>. HIDE DEF m
  <2>5. v \in Int
    BY <2>3, <2>4, GeneratorIsNumber
  <2>. HIDE DEF v
  <2>6. own' \in RSAGroups /\ Len(own'.gens) = 1
    BY <2>2, <2>3, <2>4, <2>5 DEF RSAGroups
  <2>. QED
    BY <2>1, <2>6 DEF IsGroup
<1>3. ASSUME AddNewGenerator PROVE IsGroup(own)' /\ IsGroup(public)'
  <2>1. PICK d \in Draws :
          LET v == IF own.type = "PRIME" THEN primeGenerator(own, d) ELSE rsaGenerator(own, d)
          IN  /\ own # NoGroup /\ Len(own.gens) < MAX_GENERATORS
              /\ own' = [own EXCEPT !.gens = Append(@, v)] /\ UNCHANGED public
    BY <1>3, Zenon DEF AddNewGenerator
  <2>. DEFINE v == IF own.type = "PRIME" THEN primeGenerator(own, d) ELSE rsaGenerator(own, d)
              gens == Append(own.gens, v)
  <2>2. own \in PrimeGroups \cup RSAGroups /\ Len(own.gens) \in 1 .. MAX_GENERATORS
    BY <2>1 DEF IsGroup
  <2>3. v \in Int
    <3>1. d \in Int /\ own.mod \in Nat \ {0} /\ (own.type = "PRIME" => own.factor \in Nat)
      BY <2>2 DEF PrimeGroups, RSAGroups
    <3>2. own.type = "PRIME" => PowerMod(d, own.factor, own.mod) \in Int
      BY <3>1, GeneratorIsNumber
    <3>3. PowerMod(d, 2, own.mod) \in Int
      BY <3>1, GeneratorIsNumber
    <3>. QED
      BY <3>2, <3>3 DEF primeGenerator, rsaGenerator
  <2>4. own' = [own EXCEPT !.gens = gens]
    BY <2>1
  <2>. HIDE DEF v
  <2>5. own.gens \in Seq(Int)
    BY <2>2 DEF PrimeGroups, RSAGroups
  <2>6. gens \in Seq(Int) /\ Len(gens) = Len(own.gens) + 1
    BY <2>3, <2>5
  <2>7. Len(gens) \in 1 .. MAX_GENERATORS
    BY <2>1, <2>2, <2>6
  <2>. HIDE DEF gens
  <2>8. own' \in PrimeGroups \cup RSAGroups /\ own'.gens = gens
    BY <2>2, <2>4, <2>6 DEF PrimeGroups, RSAGroups
  <2>. QED
    BY <2>1, <2>7, <2>8 DEF IsGroup
<1>4. ASSUME Publish PROVE IsGroup(own)' /\ IsGroup(public)'
  <2>1. own # NoGroup /\ public' = clearSecrets(own) /\ UNCHANGED own
    BY <1>4 DEF Publish
  <2>2. own \in PrimeGroups \cup RSAGroups /\ Len(own.gens) \in 1 .. MAX_GENERATORS
    BY <2>1 DEF IsGroup
  <2>3. clearSecrets(own) \in PrimeGroups \cup RSAGroups /\ clearSecrets(own).gens = own.gens
    BY <2>2 DEF clearSecrets, PrimeGroups, RSAGroups
  <2>. QED
    BY <2>1, <2>2, <2>3 DEF IsGroup
<1>. QED
  BY <1>1, <1>2, <1>3, <1>4 DEF GroupsNext

\* One more number is kept only while there are fewer than MAX_CACHED.
LEMMA DecomposeTypes ==
  ASSUME IsFiniteSet(DOMAIN decomp_cache), Cardinality(DOMAIN decomp_cache) <= MAX_CACHED, Decompose
  PROVE  IsFiniteSet(DOMAIN decomp_cache') /\ Cardinality(DOMAIN decomp_cache') <= MAX_CACHED
<1>. DEFINE S == DOMAIN decomp_cache
<1>1. PICK n \in Numbers :
        /\ n \in S \/ Cardinality(S) < MAX_CACHED
        /\ DOMAIN decomp_cache' = S \cup {n}
  BY DEF Decompose
<1>. HIDE DEF S
<1>2. IsFiniteSet(S) /\ Cardinality(S) <= MAX_CACHED /\ Cardinality(S) \in Nat
  BY FS_CardinalityType DEF S
<1>3. IsFiniteSet(S \cup {n}) /\ Cardinality(S \cup {n}) = IF n \in S THEN Cardinality(S)
                                                           ELSE Cardinality(S) + 1
  BY <1>2, FS_AddElement
<1>. QED
  BY <1>1, <1>2, <1>3, CachedAssumption

LEMMA NextTypes == TypeInv /\ [Next]_vars => TypeInv'
<1>. SUFFICES ASSUME TypeInv, [Next]_vars PROVE TypeInv'
  OBVIOUS
<1>1. CASE GroupsNext /\ UNCHANGED decomp_cache
  BY <1>1, NextGroups DEF TypeInv
<1>2. CASE Decompose /\ UNCHANGED groupVars
  <2>1. IsGroup(own)' /\ IsGroup(public)'
    BY <1>2 DEF groupVars, TypeInv, IsGroup
  <2>. QED
    BY <1>2, <2>1, DecomposeTypes DEF TypeInv
<1>3. CASE UNCHANGED <<own, public, decomp_cache>>
  BY <1>3 DEF TypeInv, IsGroup
<1>4. CASE Next
  BY <1>1, <1>2, <1>3, <1>4, Zenon DEF Next, groupVars
<1>5. CASE UNCHANGED vars
  BY <1>3, <1>5 DEF vars, groupVars
<1>. QED
  BY <1>4, <1>5

\* A group has its constructor's type and at least its first generator; a table
\* of products has a cell for every choice of its bases; and the cache of roots
\* holds numbers that were asked for.
THEOREM ArithmeticTypeCorrect == Spec => []TypeOK
<1>1. TypeInv => GroupsTypeOK
  <2>1. \A g : IsGroup(g) /\ g # NoGroup => g.type \in {"PRIME", "RSA"} /\ Len(g.gens) \in 1 .. MAX_GENERATORS
    BY DEF IsGroup, PrimeGroups, RSAGroups
  <2>. QED
    BY <2>1 DEF TypeInv, GroupsTypeOK
<1>2. TablesAreRight => \A th \in Threads : \A key \in DOMAIN multiexp_cache[th] :
                           DOMAIN multiexp_cache[th][key] = 0 .. TwoTo[Len(key[1])] - 1
  <2>1. \A bases, m : DOMAIN precompute(bases, m) = 0 .. TwoTo[Len(bases)] - 1
    BY Zenon DEF precompute, Masks
  <2>2. TablesAreRight => \A th \in Threads : \A key \in DOMAIN multiexp_cache[th] :
                            multiexp_cache[th][key] = precompute(key[1], key[2])
    BY DEF TablesAreRight
  <2>. QED
    BY <2>1, <2>2
<1>3. TypeInv /\ TablesAreRight /\ RootsInv => TypeOK
  BY <1>1, <1>2 DEF TypeOK, TypeInv, RootsInv
<1>4. Spec => []TypeInv
  BY InitTypes, NextTypes, PTL DEF Spec
<1>5. Spec => []TablesAreRight
  BY SpecTables
<1>6. Spec => []RootsInv
  BY InitRoots, NextRoots, PTL DEF Spec
<1>. QED
  BY <1>3, <1>4, <1>5, <1>6, PTL
-----------------------------------------------------------------------------
(* Numbers modulo a prime.                                                 *)

\* A prime that divides a product divides one of the factors.
LEMMA PrimeDivides ==
  ASSUME NEW p \in Nat, IsAPrime(p), NEW a \in Nat, NEW b \in Nat, (a * b) % p = 0
  PROVE  a % p = 0 \/ b % p = 0
<1>. SUFFICES ASSUME a % p # 0 PROVE b % p = 0
  OBVIOUS
<1>1. PICK x \in Nat : (a * x) % p = 1
  BY InverseModPrime DEF IsAPrime
<1>2. p \in Nat \ {0} /\ 1 % p = 1 /\ 0 % p = 0 /\ p > 1
  BY DEF IsAPrime
<1>3. MulMod(a, x, p) = MulMod(x, a, p) /\ MulMod(x, a, p) = 1 % p
  BY <1>1, <1>2, MulModReduced DEF MulMod
<1>4. MulMod(MulMod(x, a, p), b, p) = MulMod(x, MulMod(a, b, p), p)
  BY <1>2, MulModAssociates
<1>5. MulMod(a, b, p) = 0 /\ MulMod(x, 0, p) = 0
  BY <1>2 DEF MulMod
<1>6. MulMod(1 % p, b, p) = b % p
  BY <1>2, MulModReduced
<1>. QED
  BY <1>3, <1>4, <1>5, <1>6

\* What is 1 to some power is 1 to its multiples.
LEMMA PowersOfRoot ==
  ASSUME NEW w \in Nat, NEW m \in Nat, m > 1, NEW n \in Nat, Powers(w, m)[n] = 1, NEW k \in Nat
  PROVE  Powers(w, m)[n * k] = 1
<1>1. m \in Nat \ {0} /\ 1 % m = 1
  OBVIOUS
<1>2. \A j \in Nat : Powers(w, m)[n * j] = Powers(Powers(w, m)[n], m)[j]
  BY <1>1, PowersMultiply
<1>3. Powers(1 % m, m)[k] = 1 % m
  BY <1>1, PowersOfOne
<1>. QED
  BY <1>1, <1>2, <1>3

\* What is 1 to a prime power, and not 1 itself, is 1 only to its multiples.
LEMMA PrimeOrder ==
  ASSUME NEW r \in Nat, IsAPrime(r), NEW w \in Nat, NEW m \in Nat, m > 1,
         Powers(w, m)[r] = 1, Powers(w, m)[1] # 1, NEW d \in Nat, Powers(w, m)[d] = 1
  PROVE  d % r = 0
<1>. SUFFICES ASSUME d % r # 0 PROVE FALSE
  OBVIOUS
<1>. DEFINE P == Powers(w, m)
<1>1. PICK x \in Nat : (d * x) % r = 1
  BY InverseModPrime DEF IsAPrime
<1>2. r \in Nat \ {0} /\ m \in Nat \ {0} /\ d * x \in Nat
  BY DEF IsAPrime
<1>3. PICK k \in Nat : d * x = r * k + 1
  <2>. DEFINE y == d * x
  <2>1. y \in Nat /\ y % r = 1
    BY <1>1, <1>2
  <2>. HIDE DEF y
  <2>2. y = r * (y \div r) + (y % r) /\ y \div r \in Nat
    BY <1>2, <2>1, Remainder
  <2>. QED
    BY <2>1, <2>2 DEF y
<1>4. P[d * x] = 1 /\ P[r * k] = 1
  <2>1. \A n, j \in Nat : P[n] = 1 => P[n * j] = 1
    BY PowersOfRoot
  <2>. QED
    BY <2>1
<1>5. r * k \in Nat /\ P[1] \in 0 .. m - 1
  <2>1. P[1] \in 0 .. m - 1
    BY <1>2, PowersStep
  <2>. QED
    BY <2>1
<1>6. P[r * k + 1] = MulMod(P[r * k], P[1], m)
  BY <1>2, <1>5, PowersAdd
<1>7. 1 % m = 1 /\ MulMod(1 % m, P[1], m) = P[1]
  <2>1. 1 % m = 1
    OBVIOUS
  <2>. HIDE DEF P
  <2>. QED
    BY <2>1, <1>2, <1>5, MulModOne
<1>. QED
  BY <1>3, <1>4, <1>6, <1>7

LEMMA CountUpTo ==
  ASSUME NEW n \in Nat \ {0}
  PROVE  /\ IsFiniteSet(0 .. n - 1) /\ Cardinality(0 .. n - 1) = n
         /\ IsFiniteSet(1 .. n - 1) /\ Cardinality(1 .. n - 1) = n - 1
<1>1. \A a, b \in Int : /\ IsFiniteSet(a .. b)
                        /\ Cardinality(a .. b) = IF a > b THEN 0 ELSE b - a + 1
  BY FS_Interval
<1>2. n - 1 \in Int
  OBVIOUS
<1>. QED
  BY <1>1, <1>2

\* Below the first power that is 1 no two are the same.
LEMMA PowersDiffer ==
  ASSUME NEW m \in Nat, m > 1, NEW v \in Nat, NEW n \in Nat \ {0}, Powers(v, m)[n] = 1,
         \A d \in 1 .. n - 1 : Powers(v, m)[d] # 1
  PROVE  \A i, j \in 0 .. n - 1 : i < j => Powers(v, m)[i] # Powers(v, m)[j]
<1>. DEFINE P == Powers(v, m)
<1>. SUFFICES ASSUME NEW i \in 0 .. n - 1, NEW j \in 0 .. n - 1, i < j, P[i] = P[j] PROVE FALSE
  OBVIOUS
<1>1. m \in Nat \ {0} /\ 1 % m = 1
  OBVIOUS
<1>2. \A k \in Nat : P[k] \in 0 .. m - 1 /\ P[k] \in Nat
  BY <1>1, PowersStep
<1>3. \A k, l \in Nat : P[k + l] = MulMod(P[k], P[l], m)
  BY <1>1, PowersAdd
<1>4. P[n] = 1 /\ (\A d \in 1 .. n - 1 : P[d] # 1) /\ P[i] = P[j]
  OBVIOUS
<1>. DEFINE d == j - i
            l == n - i
<1>5. /\ i \in Nat /\ j \in Nat /\ d \in 1 .. n - 1 /\ d \in Nat /\ l \in Nat
      /\ l + i = n /\ i + d = j
  OBVIOUS
<1>. HIDE DEF P, d, l
<1>6. MulMod(P[l], P[i], m) = 1 % m
  BY <1>1, <1>3, <1>4, <1>5
<1>7. MulMod(P[i], P[d], m) = P[i]
  BY <1>3, <1>4, <1>5
<1>8. MulMod(MulMod(P[l], P[i], m), P[d], m) = MulMod(P[l], MulMod(P[i], P[d], m), m)
  BY <1>1, <1>2, <1>5, MulModAssociates
<1>9. MulMod(1 % m, P[d], m) = P[d]
  BY <1>1, <1>2, <1>5, MulModOne
<1>. QED
  BY <1>1, <1>4, <1>5, <1>6, <1>7, <1>8, <1>9

LEMMA PowerOfResidue ==
  ASSUME NEW b \in Nat, NEW m \in Nat \ {0}, b % m = b
  PROVE  \A e \in Nat : PowerMod(b, e, m) = Powers(b, m)[e] /\ PowerMod(b, e, m) \in 0 .. m - 1
<1>1. b \in Int
  OBVIOUS
<1>2. \A e \in Nat : PowerMod(b, e, m) = Powers(b % m, m)[e]
  BY <1>1, PowerModIsPower
<1>3. \A e \in Nat : PowerMod(b, e, m) \in 0 .. m - 1
  BY <1>1, PowerIsResidue
<1>. QED
  BY <1>2, <1>3

\* The powers of what is 1 to the power n, and not before, are n.
LEMMA CountPowers ==
  ASSUME NEW m \in Nat, m > 1, NEW v \in 0 .. m - 1, NEW n \in 1 .. m, Powers(v, m)[n] = 1,
         \A d \in 1 .. n - 1 : Powers(v, m)[d] # 1
  PROVE  IsFiniteSet(PowersOf(v, m)) /\ Cardinality(PowersOf(v, m)) = n
<1>. DEFINE P == Powers(v, m)
            R == 0 .. n - 1
            f == [i \in R |-> P[i]]
            T == PowersOf(v, m)
<1>1. m \in Nat \ {0} /\ v \in Nat /\ v % m = v /\ n \in Nat \ {0} /\ 1 % m = 1
  OBVIOUS
<1>2. \A i \in Nat : P[i] \in 0 .. m - 1 /\ P[i] \in Nat
  BY <1>1, PowersStep
<1>3. \A i, k \in Nat : P[i + k] = MulMod(P[i], P[k], m)
  BY <1>1, PowersAdd
<1>4. \A k \in Nat : P[n * k] = 1
  BY <1>1, PowersOfRoot
<1>5. \A i \in 0 .. m : PowerMod(v, i, m) = P[i]
  <2>1. \A i \in Nat : PowerMod(v, i, m) = P[i]
    BY <1>1, PowerOfResidue
  <2>. QED
    BY <1>1, <2>1
<1>6. T = {P[i] : i \in 0 .. m}
  BY <1>5 DEF PowersOf
<1>7. P[n] = 1 /\ \A d \in 1 .. n - 1 : P[d] # 1
  OBVIOUS
<1>. HIDE DEF P, T
<1>8. \A i, j \in R : i < j => P[i] # P[j]
  BY <1>1, PowersDiffer DEF P
<1>9. \A i \in Nat : P[i] = P[i % n] /\ i % n \in R
  <2>. SUFFICES ASSUME NEW i \in Nat PROVE P[i] = P[i % n] /\ i % n \in R
    OBVIOUS
  <2>. DEFINE k == i \div n
              r == i % n
  <2>1. i = n * k + r /\ r \in R /\ k \in Nat
    BY <1>1, Remainder
  <2>. HIDE DEF k, r
  <2>2. n * k \in Nat /\ r \in Nat
    BY <1>1, <2>1
  <2>3. P[n * k + r] = MulMod(P[n * k], P[r], m)
    BY <1>3, <2>2
  <2>4. MulMod(1 % m, P[r], m) = P[r]
    BY <1>1, <1>2, <2>2, MulModOne
  <2>. QED
    BY <1>1, <1>4, <2>1, <2>3, <2>4 DEF r
<1>10. f \in [R -> T]
  <2>1. \A i \in R : i \in 0 .. m
    OBVIOUS
  <2>. QED
    BY <1>6, <2>1
<1>11. f \in Injection(R, T)
  <2>1. ASSUME NEW i \in R, NEW j \in R, f[i] = f[j] PROVE i = j
    <3>1. i < j \/ j < i \/ i = j
      OBVIOUS
    <3>. QED
      BY <1>8, <2>1, <3>1
  <2>. HIDE DEF f, R
  <2>. QED
    BY <1>10, <2>1 DEF Injection, IsInjective
<1>12. f \in Surjection(R, T)
  <2>1. ASSUME NEW t \in T PROVE \E i \in R : f[i] = t
    <3>1. PICK i \in Nat : t = P[i]
      BY <1>6
    <3>. QED
      BY <1>9, <3>1
  <2>. HIDE DEF f, R
  <2>. QED
    BY <1>10, <2>1 DEF Surjection
<1>13. IsFiniteSet(R) /\ Cardinality(R) = n
  BY <1>1, CountUpTo
<1>. HIDE DEF f, R
<1>. QED
  BY <1>11, <1>12, <1>13, FS_Surjection DEF T

\* Modulo a prime, what is not 0 may be cancelled.
LEMMA CancelUnit ==
  ASSUME NEW p \in Nat, IsAPrime(p), NEW a \in Nat, a % p # 0, NEW x \in 0 .. p - 1,
         NEW y \in 0 .. p - 1, MulMod(x, a, p) = MulMod(y, a, p)
  PROVE  x = y
<1>1. p \in Nat \ {0} /\ p > 1
  BY DEF IsAPrime
<1>2. PICK b \in Nat : (a * b) % p = 1
  BY InverseModPrime DEF IsAPrime
<1>3. MulMod(a, b, p) = 1 % p
  BY <1>1, <1>2 DEF MulMod
<1>4. \A z \in 0 .. p - 1 : z = MulMod(MulMod(z, a, p), b, p)
  <2>1. ASSUME NEW z \in 0 .. p - 1 PROVE z = MulMod(MulMod(z, a, p), b, p)
    <3>1. MulMod(MulMod(z, a, p), b, p) = MulMod(z, MulMod(a, b, p), p)
      BY <1>1, MulModAssociates
    <3>. QED
      BY <1>1, <1>3, <3>1, MulModOne
  <2>. QED
    BY <2>1
<1>. QED
  BY <1>4

\* Products and powers of what is not 0 modulo a prime are not 0.
LEMMA UnitsClosed ==
  ASSUME NEW p \in Nat, IsAPrime(p), NEW a \in Nat, a % p # 0
  PROVE  /\ \A x \in 1 .. p - 1 : MulMod(x, a, p) \in 1 .. p - 1
         /\ \A i \in Nat : Powers(a, p)[i] \in 1 .. p - 1
<1>. DEFINE P == Powers(a, p)
            Good == {i \in Nat : P[i] \in 1 .. p - 1}
<1>1. p \in Nat \ {0} /\ p > 1 /\ 1 % p = 1
  BY DEF IsAPrime
<1>2. ASSUME NEW x \in 1 .. p - 1 PROVE MulMod(x, a, p) \in 1 .. p - 1
  <2>1. MulMod(x, a, p) \in 0 .. p - 1
    <3>1. x \in Nat
      OBVIOUS
    <3>. QED
      BY <1>1, <3>1, MulModReduced
  <2>2. MulMod(x, a, p) # 0
    <3>1. x \in Nat /\ x % p # 0
      OBVIOUS
    <3>. QED
      BY <3>1, PrimeDivides DEF MulMod
  <2>. QED
    BY <2>1, <2>2
<1>3. P[0] = 1 /\ \A i \in Nat : P[i + 1] = MulMod(P[i], a, p)
  BY <1>1, PowersStep
<1>. HIDE DEF P
<1>4. ASSUME NEW k \in Nat PROVE P[k] \in 1 .. p - 1
  <2>1. 0 \in Good
    BY <1>1, <1>3
  <2>2. ASSUME NEW i \in 1 .. k, i - 1 \in Good PROVE i \in Good
    <3>1. i - 1 \in Nat /\ (i - 1) + 1 = i /\ i \in Nat
      OBVIOUS
    <3>. QED
      BY <1>2, <1>3, <2>2, <3>1
  <2>3. \A i \in 0 .. k : i \in Good
    <3>. HIDE DEF Good
    <3>. QED
      BY <2>1, <2>2, Counting
  <2>. QED
    BY <2>3
<1>. QED
  BY <1>2, <1>4 DEF P

\* The order of a unit modulo a prime: its first power that is 1.
IsOrder(e, a, p) == /\ e \in Nat \ {0} /\ Powers(a, p)[e] = 1
                    /\ \A d \in 1 .. e - 1 : Powers(a, p)[d] # 1

LEMMA OrderExists ==
  ASSUME NEW p \in Nat, IsAPrime(p), NEW a \in Nat, a % p # 0
  PROVE  \E e : IsOrder(e, a, p)
<1>. DEFINE P == Powers(a, p)
            f == [i \in 0 .. p - 1 |-> P[i]]
            N == {d \in Nat : d # 0 /\ P[d] = 1}
<1>1. p \in Nat \ {0} /\ p > 1 /\ 1 % p = 1
  BY DEF IsAPrime
<1>2. \A i \in Nat : P[i] \in 1 .. p - 1
  BY UnitsClosed
<1>3. \A k, l \in Nat : P[k + l] = MulMod(P[k], P[l], p)
  BY <1>1, PowersAdd
<1>. HIDE DEF P
<1>4. \E i, j \in 0 .. p - 1 : i # j /\ f[i] = f[j]
  <2>1. /\ IsFiniteSet(0 .. p - 1) /\ Cardinality(0 .. p - 1) = p
        /\ IsFiniteSet(1 .. p - 1) /\ Cardinality(1 .. p - 1) = p - 1
    BY <1>1, CountUpTo
  <2>2. f \in [0 .. p - 1 -> 1 .. p - 1] /\ p - 1 < p
    BY <1>2
  <2>. HIDE DEF f
  <2>. QED
    BY <2>1, <2>2, FS_PigeonHole
<1>5. PICK i \in 0 .. p - 1, j \in 0 .. p - 1 : i < j /\ P[i] = P[j]
  <2>1. PICK i \in 0 .. p - 1, j \in 0 .. p - 1 : i # j /\ P[i] = P[j]
    BY <1>4
  <2>2. i < j \/ j < i
    BY <2>1
  <2>. QED
    BY <2>1, <2>2
<1>. DEFINE d == j - i
<1>6. d \in N
  <2>1. d \in Nat /\ d # 0 /\ i \in Nat /\ d + i = j
    BY <1>5
  <2>. HIDE DEF d
  <2>2. MulMod(P[d], P[i], p) = P[i]
    BY <1>3, <1>5, <2>1
  <2>3. MulMod(1, P[i], p) = P[i]
    <3>1. P[i] \in 0 .. p - 1
      BY <1>2, <2>1
    <3>. QED
      BY <1>1, <3>1, MulModOne
  <2>4. P[i] \in Nat /\ P[i] % p # 0 /\ P[d] \in 0 .. p - 1 /\ 1 \in 0 .. p - 1
    <3>1. P[i] \in 1 .. p - 1 /\ P[d] \in 1 .. p - 1
      BY <1>2, <2>1
    <3>2. \A x \in 1 .. p - 1 : x \in Nat /\ x % p # 0 /\ x \in 0 .. p - 1
      OBVIOUS
    <3>. QED
      BY <1>1, <3>1, <3>2
  <2>5. P[d] = 1
    BY <2>2, <2>3, <2>4, CancelUnit
  <2>. QED
    BY <2>1, <2>5
<1>7. PICK e \in N : \A k \in N : e <= k
  <2>1. N \subseteq Nat /\ N # {}
    BY <1>6
  <2>. HIDE DEF N
  <2>. QED
    BY <2>1, LeastNumber
<1>8. \A k \in 1 .. e - 1 : P[k] # 1
  BY <1>7
<1>. QED
  BY <1>7, <1>8 DEF IsOrder, P

\* What is closed under multiplication by a falls into parts of as many as the
\* order of a is.
Closed(X, a, p) == X \subseteq 1 .. p - 1 /\ \A x \in X : MulMod(x, a, p) \in X
Orbit(x, e, a, p) == {MulMod(x, Powers(a, p)[i], p) : i \in 0 .. e - 1}

LEMMA OrbitHasOrder ==
  ASSUME NEW p \in Nat, IsAPrime(p), NEW a \in Nat, a % p # 0, NEW e, IsOrder(e, a, p),
         NEW x \in 1 .. p - 1
  PROVE  IsFiniteSet(Orbit(x, e, a, p)) /\ Cardinality(Orbit(x, e, a, p)) = e
<1>. DEFINE P == Powers(a, p)
            R == 0 .. e - 1
            f == [i \in R |-> MulMod(x, P[i], p)]
            O == {MulMod(x, P[i], p) : i \in R}
<1>1. p \in Nat \ {0} /\ p > 1 /\ x \in Nat /\ x % p # 0 /\ e \in Nat \ {0}
  BY DEF IsAPrime, IsOrder
<1>2. \A i, j \in R : i < j => P[i] # P[j]
  BY <1>1, PowersDiffer DEF IsOrder
<1>3. \A i \in R : P[i] \in 0 .. p - 1 /\ P[i] \in Nat
  <2>1. \A i \in Nat : P[i] \in 0 .. p - 1 /\ P[i] \in Nat
    BY <1>1, PowersStep
  <2>. QED
    BY <2>1
<1>4. IsFiniteSet(R) /\ Cardinality(R) = e
  BY <1>1, CountUpTo
<1>. HIDE DEF P, R
<1>5. ASSUME NEW i \in R, NEW j \in R, f[i] = f[j] PROVE i = j
  <2>1. MulMod(P[i], x, p) = MulMod(P[j], x, p)
    <3>1. MulMod(x, P[i], p) = MulMod(x, P[j], p)
      BY <1>5
    <3>2. MulMod(x, P[i], p) = MulMod(P[i], x, p) /\ MulMod(x, P[j], p) = MulMod(P[j], x, p)
      BY <1>1, <1>3, MulModReduced
    <3>. QED
      BY <3>1, <3>2
  <2>2. P[i] = P[j]
    BY <1>1, <1>3, <2>1, CancelUnit
  <2>3. i < j \/ j < i \/ i = j
    BY DEF R
  <2>. QED
    BY <1>2, <2>2, <2>3
<1>6. f \in Surjection(R, O)
  BY DEF Surjection
<1>7. f \in Injection(R, O)
  <2>1. f \in [R -> O]
    OBVIOUS
  <2>. HIDE DEF f, O
  <2>. QED
    BY <1>5, <2>1 DEF Injection, IsInjective
<1>8. O = Orbit(x, e, a, p)
  BY DEF Orbit, P, R
<1>. HIDE DEF f, O
<1>9. IsFiniteSet(O) /\ Cardinality(O) = e
  BY <1>4, <1>6, <1>7, FS_Surjection
<1>. QED
  BY <1>8, <1>9

LEMMA OrbitWithin ==
  ASSUME NEW p \in Nat, IsAPrime(p), NEW a \in Nat, NEW X, Closed(X, a, p), NEW x \in X, NEW e \in Nat
  PROVE  Orbit(x, e, a, p) \subseteq X
<1>. DEFINE P == Powers(a, p)
            Good == {i \in Nat : MulMod(x, P[i], p) \in X}
<1>1. p \in Nat \ {0} /\ x \in 0 .. p - 1 /\ x \in Nat
  BY DEF IsAPrime, Closed
<1>2. P[0] = 1 % p /\ \A i \in Nat : P[i] \in Nat /\ P[i + 1] = MulMod(P[i], a, p)
  BY <1>1, PowersStep
<1>. HIDE DEF P
<1>3. 0 \in Good
  BY <1>1, <1>2, MulModOne
<1>4. ASSUME NEW i \in 1 .. e, i - 1 \in Good PROVE i \in Good
  <2>1. i - 1 \in Nat /\ (i - 1) + 1 = i /\ i \in Nat
    OBVIOUS
  <2>2. MulMod(MulMod(x, P[i - 1], p), a, p) \in X
    BY <1>4 DEF Closed
  <2>3. MulMod(MulMod(x, P[i - 1], p), a, p) = MulMod(x, MulMod(P[i - 1], a, p), p)
    <3>1. P[i - 1] \in Nat
      BY <1>2, <2>1
    <3>. QED
      BY <1>1, <3>1, MulModAssociates
  <2>. QED
    BY <1>2, <2>1, <2>2, <2>3
<1>5. \A i \in 0 .. e : i \in Good
  <2>. HIDE DEF Good
  <2>. QED
    BY <1>3, <1>4, Counting
<1>6. \A i \in 0 .. e - 1 : i \in 0 .. e
  OBVIOUS
<1>. QED
  BY <1>5, <1>6 DEF Orbit, P

LEMMA RestIsClosed ==
  ASSUME NEW p \in Nat, IsAPrime(p), NEW a \in Nat, a % p # 0, NEW X, Closed(X, a, p), NEW x \in X,
         NEW e, IsOrder(e, a, p)
  PROVE  Closed(X \ Orbit(x, e, a, p), a, p)
<1>. DEFINE P == Powers(a, p)
            O == Orbit(x, e, a, p)
<1>1. p \in Nat \ {0} /\ p > 1 /\ x \in 0 .. p - 1 /\ x \in Nat /\ e \in Nat \ {0}
  BY DEF IsAPrime, Closed, IsOrder
<1>2. P[0] = 1 % p /\ \A i \in Nat : P[i] \in Nat /\ P[i + 1] = MulMod(P[i], a, p)
  BY <1>1, PowersStep
<1>3. P[e] = 1 /\ 1 % p = 1
  BY <1>1 DEF IsOrder
<1>. HIDE DEF P
<1>. SUFFICES ASSUME NEW y \in X \ O, MulMod(y, a, p) \in O PROVE FALSE
  BY DEF Closed
<1>4. PICK i \in 1 .. e : MulMod(y, a, p) = MulMod(x, P[i], p)
  <2>1. PICK i \in 0 .. e - 1 : MulMod(y, a, p) = MulMod(x, P[i], p)
    BY DEF Orbit, P
  <2>2. CASE i = 0
    BY <1>1, <1>2, <1>3, <2>1, <2>2
  <2>3. CASE i # 0
    <3>1. i \in 1 .. e
      BY <1>1, <2>3
    <3>. QED
      BY <2>1, <3>1
  <2>. QED
    BY <2>2, <2>3
<1>. DEFINE z == MulMod(x, P[i - 1], p)
<1>5. i - 1 \in 0 .. e - 1 /\ i - 1 \in Nat /\ (i - 1) + 1 = i
  <2>. HIDE DEF O, z
  <2>. QED
    BY <1>1
<1>6. MulMod(z, a, p) = MulMod(x, MulMod(P[i - 1], a, p), p)
  <2>1. P[i - 1] \in Nat
    BY <1>2, <1>5
  <2>. QED
    BY <1>1, <2>1, MulModAssociates
<1>7. z \in 0 .. p - 1
  BY <1>1, <1>2, <1>5, MulModReduced
<1>8. z \in O
  BY <1>5 DEF Orbit, P
<1>9. MulMod(y, a, p) = MulMod(z, a, p)
  BY <1>2, <1>4, <1>5, <1>6
<1>. HIDE DEF z
<1>10. y \in 0 .. p - 1
  BY DEF Closed
<1>11. y = z
  BY <1>7, <1>9, <1>10, CancelUnit
<1>. QED
  BY <1>8, <1>11

LEMMA ClosedIsMultiple ==
  ASSUME NEW p \in Nat, IsAPrime(p), NEW a \in Nat, a % p # 0, NEW e, IsOrder(e, a, p),
         NEW X, Closed(X, a, p)
  PROVE  Cardinality(X) % e = 0
<1>. DEFINE Bad == {c \in Nat : c % e # 0 /\ \E Y : Closed(Y, a, p) /\ Cardinality(Y) = c}
<1>1. p \in Nat \ {0} /\ e \in Nat \ {0} /\ 0 % e = 0
  BY DEF IsAPrime, IsOrder
<1>2. \A Y : Closed(Y, a, p) => IsFiniteSet(Y) /\ Cardinality(Y) \in Nat
  <2>1. IsFiniteSet(1 .. p - 1)
    BY <1>1, CountUpTo
  <2>. QED
    BY <2>1, FS_Subset, FS_CardinalityType DEF Closed
<1>3. Bad = {}
  <2>. SUFFICES ASSUME Bad # {} PROVE FALSE
    OBVIOUS
  <2>1. PICK c \in Bad : \A d \in Bad : c <= d
    <3>1. Bad \subseteq Nat
      OBVIOUS
    <3>. HIDE DEF Bad
    <3>. QED
      BY <3>1, LeastNumber
  <2>2. PICK Y : Closed(Y, a, p) /\ Cardinality(Y) = c
    OBVIOUS
  <2>3. c \in Nat /\ c % e # 0
    OBVIOUS
  <2>4. PICK x : x \in Y
    BY <1>1, <2>2, <2>3, FS_EmptySet
  <2>. DEFINE O == Orbit(x, e, a, p)
              Z == Y \ O
  <2>5. x \in 1 .. p - 1
    BY <2>2, <2>4 DEF Closed
  <2>6. IsFiniteSet(O) /\ Cardinality(O) = e
    BY <2>5, OrbitHasOrder
  <2>7. Y \cap O = O
    BY <1>1, <2>2, <2>4, OrbitWithin
  <2>8. Closed(Z, a, p)
    BY <2>2, <2>4, RestIsClosed
  <2>9. Cardinality(Z) = c - e /\ Cardinality(Z) \in Nat
    <3>. HIDE DEF O
    <3>1. IsFiniteSet(Y)
      BY <1>2, <2>2
    <3>2. Cardinality(Y \ O) = Cardinality(Y) - Cardinality(Y \cap O)
      BY <3>1, FS_Difference
    <3>3. Cardinality(Z) \in Nat
      BY <1>2, <2>8
    <3>. QED
      BY <2>2, <2>6, <2>7, <3>2, <3>3
  <2>10. (c - e) % e # 0
    <3>. DEFINE d == c - e
    <3>1. d \in Nat /\ c = d + e * 1
      BY <1>1, <2>3, <2>9
    <3>. HIDE DEF d
    <3>2. (d + e * 1) % e = d % e
      BY <1>1, <3>1, SameRemainder
    <3>. QED
      BY <2>3, <3>1, <3>2 DEF d
  <2>11. c - e \in Bad
    <3>. HIDE DEF Z
    <3>. QED
      BY <2>8, <2>9, <2>10
  <2>. QED
    BY <1>1, <2>1, <2>3, <2>11
<1>. QED
  BY <1>2, <1>3

\* Fermat's theorem.
LEMMA Fermat ==
  ASSUME NEW p \in Nat, IsAPrime(p), NEW a \in Nat, a % p # 0
  PROVE  Powers(a, p)[p - 1] = 1
<1>1. p \in Nat \ {0} /\ p > 1
  BY DEF IsAPrime
<1>2. PICK e : IsOrder(e, a, p)
  BY OrderExists
<1>3. Closed(1 .. p - 1, a, p)
  BY UnitsClosed DEF Closed
<1>4. Cardinality(1 .. p - 1) = p - 1
  BY <1>1, CountUpTo
<1>5. (p - 1) % e = 0
  BY <1>2, <1>3, <1>4, ClosedIsMultiple
<1>. DEFINE n == p - 1
<1>6. n \in Nat /\ e \in Nat \ {0} /\ Powers(a, p)[e] = 1
  BY <1>1, <1>2 DEF IsOrder
<1>. HIDE DEF n
<1>7. PICK k \in Nat : n = e * k
  <2>1. n = e * (n \div e) + (n % e) /\ n \div e \in Nat
    BY <1>6, Remainder
  <2>2. n % e = 0
    BY <1>5 DEF n
  <2>3. \A k \in Nat : e * k + 0 = e * k
    BY <1>6
  <2>. QED
    BY <2>1, <2>2, <2>3
<1>8. \A j \in Nat : Powers(a, p)[e * j] = 1
  BY <1>1, <1>6, PowersOfRoot
<1>. QED
  BY <1>7, <1>8 DEF n
-----------------------------------------------------------------------------
(* Two primes.                                                             *)

LEMMA Multiples ==
  ASSUME NEW a \in Nat, NEW m \in Nat \ {0}
  PROVE  /\ a % m = 0 <=> \E k \in Nat : a = m * k
         /\ \A k \in Nat : (m * k) % m = 0
<1>1. \A k \in Nat : (m * k) % m = 0
  <2>1. ASSUME NEW k \in Nat PROVE (m * k) % m = 0
    <3>1. (0 + m * k) % m = 0 % m /\ 0 % m = 0
      BY SameRemainder
    <3>2. 0 + m * k = m * k
      OBVIOUS
    <3>. QED
      BY <3>1, <3>2
  <2>. QED
    BY <2>1
<1>2. ASSUME a % m = 0 PROVE \E k \in Nat : a = m * k
  <2>1. a = m * (a \div m) + (a % m) /\ a \div m \in Nat
    BY Remainder
  <2>2. \A k \in Nat : m * k + 0 = m * k
    OBVIOUS
  <2>. QED
    BY <1>2, <2>1, <2>2
<1>. QED
  BY <1>1, <1>2

\* What two primes divide, their product divides.
LEMMA ProductDivides ==
  ASSUME NEW p \in Nat, IsAPrime(p), NEW q \in Nat, IsAPrime(q), p < q,
         NEW x \in Nat, x % p = 0, x % q = 0
  PROVE  x % (p * q) = 0
<1>1. p \in Nat \ {0} /\ q \in Nat \ {0} /\ p % q = p /\ p # 0
  BY DEF IsAPrime
<1>2. PICK k \in Nat : x = p * k
  BY <1>1, Multiples
<1>3. k % q = 0
  BY <1>1, <1>2, PrimeDivides
<1>4. PICK l \in Nat : k = q * l
  BY <1>1, <1>3, Multiples
<1>5. x = (p * q) * l
  BY <1>2, <1>4
<1>6. p * q \in Nat \ {0}
  BY <1>1
<1>. DEFINE n == p * q
<1>. HIDE DEF n
<1>7. \A j \in Nat : (n * j) % n = 0
  BY <1>6, Multiples DEF n
<1>. QED
  BY <1>5, <1>7 DEF n

\* Numbers below the product are told apart by their two remainders.
LEMMA RemaindersDiffer ==
  ASSUME NEW p \in Nat, IsAPrime(p), NEW q \in Nat, IsAPrime(q), p < q,
         NEW s \in 0 .. p * q - 1, NEW t \in 0 .. p * q - 1, s <= t, s % p = t % p, s % q = t % q
  PROVE  s = t
<1>. DEFINE x == t - s
            n == p * q
<1>1. p \in Nat \ {0} /\ q \in Nat \ {0} /\ s \in Nat /\ t \in Nat /\ n \in Nat \ {0}
  <2>1. p \in Nat \ {0} /\ q \in Nat \ {0}
    BY DEF IsAPrime
  <2>2. n \in Nat \ {0}
    BY <2>1
  <2>. QED
    BY <2>1, <2>2
<1>2. x \in 0 .. n - 1 /\ x \in Nat
  <2>. HIDE DEF n
  <2>1. s \in 0 .. n - 1 /\ t \in 0 .. n - 1
    BY DEF n
  <2>. QED
    BY <1>1, <2>1
<1>3. \A m \in Nat \ {0} : s % m = t % m => x % m = 0
  <2>. SUFFICES ASSUME NEW m \in Nat \ {0}, s % m = t % m PROVE x % m = 0
    OBVIOUS
  <2>. DEFINE u == s \div m
              v == t \div m
              r == s % m
  <2>1. s = m * u + r /\ u \in Nat /\ t = m * v + r /\ v \in Nat /\ r \in Nat
    <3>1. s = m * (s \div m) + (s % m) /\ s % m \in 0 .. m - 1 /\ s \div m \in Nat
      BY <1>1, Remainder
    <3>2. t = m * (t \div m) + (t % m) /\ t \div m \in Nat
      BY <1>1, Remainder
    <3>. QED
      BY <3>1, <3>2
  <2>. HIDE DEF u, v, r
  <2>2. u <= v
    <3>. SUFFICES ASSUME v < u PROVE FALSE
      BY <2>1
    <3>1. PICK k \in Nat : u = v + k /\ k # 0
      <4>1. u - v \in Nat /\ u = v + (u - v) /\ u - v # 0
        BY <2>1
      <4>. QED
        BY <4>1
    <3>2. m * u = m * v + m * k
      BY <2>1, <3>1
    <3>3. m * k \in Nat /\ m * k # 0 /\ m * v \in Nat
      BY <2>1, <3>1
    <3>. QED
      BY <2>1, <3>2, <3>3
  <2>3. v - u \in Nat /\ x = m * (v - u)
    <3>1. m * (v - u) = m * v - m * u
      BY <2>1
    <3>2. m * v \in Nat /\ m * u \in Nat
      BY <2>1
    <3>. QED
      BY <2>1, <2>2, <3>1, <3>2
  <2>. DEFINE k == v - u
  <2>. HIDE DEF k, x
  <2>4. k \in Nat /\ x = m * k
    BY <2>3 DEF k
  <2>. QED
    BY <2>4, Multiples
<1>. HIDE DEF x
<1>4. x % n = 0
  BY <1>1, <1>2, <1>3, ProductDivides
<1>5. x % n = x
  <2>. HIDE DEF n
  <2>. QED
    BY <1>1, <1>2
<1>. QED
  BY <1>1, <1>4, <1>5 DEF x

\* A remainder may be taken of a remainder, of powers too.
LEMMA ReduceTwice ==
  ASSUME NEW p \in Nat \ {0}, NEW c \in Nat \ {0}, NEW x \in Nat
  PROVE  (x % (p * c)) % p = x % p
<1>. DEFINE n == p * c
            r == x % n
            k == x \div n
<1>1. n \in Nat \ {0}
  OBVIOUS
<1>2. x = n * k + r /\ r \in Nat /\ k \in Nat
  <2>. HIDE DEF n
  <2>. QED
    BY <1>1, Remainder
<1>. HIDE DEF r, k
<1>3. x = r + p * (c * k) /\ c * k \in Nat
  BY <1>2
<1>4. \A j \in Nat : (r + p * j) % p = r % p
  BY <1>2, SameRemainder
<1>5. x % p = r % p
  BY <1>3, <1>4
<1>. QED
  BY <1>5 DEF r

LEMMA PowersReduce ==
  ASSUME NEW p \in Nat \ {0}, NEW c \in Nat \ {0}, NEW a \in Nat
  PROVE  \A k \in Nat : Powers(a, p * c)[k] % p = Powers(a, p)[k]
<1>. DEFINE n == p * c
            P == Powers(a, n)
            Q == Powers(a, p)
            Good == {k \in Nat : P[k] % p = Q[k]}
<1>1. n \in Nat \ {0}
  OBVIOUS
<1>2. \A x \in Nat : (x % n) % p = x % p
  BY ReduceTwice
<1>. HIDE DEF n
<1>3. P[0] = 1 % n /\ \A k \in Nat : P[k] \in Nat /\ P[k + 1] = MulMod(P[k], a, n)
  BY <1>1, PowersStep
<1>4. Q[0] = 1 % p /\ \A k \in Nat : Q[k] \in Nat /\ Q[k + 1] = MulMod(Q[k], a, p)
  BY PowersStep
<1>. HIDE DEF P, Q
<1>5. ASSUME NEW k \in Nat PROVE P[k] % p = Q[k]
  <2>1. 0 \in Good
    BY <1>2, <1>3, <1>4
  <2>2. ASSUME NEW i \in 1 .. k, i - 1 \in Good PROVE i \in Good
    <3>. DEFINE x == P[i - 1]
    <3>1. i - 1 \in Nat /\ (i - 1) + 1 = i /\ i \in Nat
      OBVIOUS
    <3>2. x \in Nat /\ P[i] = MulMod(x, a, n) /\ Q[i] = MulMod(x % p, a, p)
      BY <1>3, <1>4, <2>2, <3>1
    <3>. HIDE DEF x
    <3>3. x * a \in Nat
      BY <3>2
    <3>4. MulMod(x, a, n) % p = MulMod(x, a, p)
      BY <1>2, <3>3 DEF MulMod
    <3>5. MulMod(x % p, a, p) = MulMod(x, a, p)
      BY <3>2, MulModReduced
    <3>. QED
      BY <3>1, <3>2, <3>4, <3>5
  <2>3. \A i \in 0 .. k : i \in Good
    <3>. HIDE DEF Good
    <3>. QED
      BY <2>1, <2>2, Counting
  <2>. QED
    BY <2>3
<1>. QED
  BY <1>5 DEF P, Q, n
\* GCD is 1 exactly when nothing greater divides both.
LEMMA NoCommonDivisor ==
  ASSUME NEW n \in Nat \ {0}, NEW x \in Nat
  PROVE  GCD(x, n) = 1 <=> \A d \in 2 .. n : x % d # 0 \/ n % d # 0
<1>. DEFINE Is(d) == x % d = 0 /\ n % d = 0 /\ \A y \in d + 1 .. n : x % y # 0 \/ n % y # 0
            S == {d \in 1 .. n : x % d = 0 /\ n % d = 0}
<1>1. GCD(x, n) = CHOOSE d \in 1 .. n : Is(d)
  BY DEF GCD
<1>2. \E d \in 1 .. n : Is(d)
  <2>1. S \subseteq 0 .. n /\ S # {} /\ n \in Nat
    <3>1. 1 \in S
      OBVIOUS
    <3>. QED
      BY <3>1
  <2>2. PICK d \in S : \A y \in S : y <= d
    <3>. HIDE DEF S
    <3>. QED
      BY <2>1, Greatest
  <2>3. \A y \in d + 1 .. n : y \in 1 .. n /\ ~ (y <= d)
    OBVIOUS
  <2>. QED
    BY <2>2, <2>3
<1>3. ASSUME \A d \in 2 .. n : x % d # 0 \/ n % d # 0 PROVE GCD(x, n) = 1
  <2>1. \A d \in 1 .. n : Is(d) => d = 1
    <3>1. \A d \in 1 .. n : d = 1 \/ d \in 2 .. n
      OBVIOUS
    <3>. QED
      BY <1>3, <3>1
  <2>. HIDE DEF Is
  <2>. QED
    BY <1>1, <1>2, <2>1
<1>4. ASSUME GCD(x, n) = 1 PROVE \A d \in 2 .. n : x % d # 0 \/ n % d # 0
  <2>1. Is(1)
    <3>. HIDE DEF Is
    <3>. QED
      BY <1>1, <1>2, <1>4
  <2>2. 1 + 1 = 2
    OBVIOUS
  <2>. QED
    BY <2>1, <2>2
<1>. QED
  BY <1>3, <1>4

\* A unit modulo the product of two primes is divided by neither.
LEMMA UnitOfBoth ==
  ASSUME NEW p \in Nat, IsAPrime(p), NEW q \in Nat, IsAPrime(q), NEW x \in Nat
  PROVE  GCD(x, p * q) = 1 <=> x % p # 0 /\ x % q # 0
<1>. DEFINE n == p * q
<1>1. /\ p \in Nat \ {0} /\ q \in Nat \ {0} /\ p > 1 /\ q > 1
      /\ \A d \in 2 .. p - 1 : p % d # 0
      /\ \A d \in 2 .. q - 1 : q % d # 0
  BY DEF IsAPrime
<1>2. n \in Nat \ {0} /\ p <= n /\ q <= n
  BY <1>1
<1>3. n % p = 0 /\ n % q = 0
  <2>1. n = p * q /\ n = q * p
    BY <1>1
  <2>. HIDE DEF n
  <2>. QED
    BY <1>1, <2>1, Multiples
<1>. HIDE DEF n
<1>4. ASSUME GCD(x, n) = 1 PROVE x % p # 0 /\ x % q # 0
  <2>1. p \in 2 .. n /\ q \in 2 .. n
    BY <1>1, <1>2
  <2>. QED
    BY <1>2, <1>3, <1>4, <2>1, NoCommonDivisor
<1>5. ASSUME x % p # 0, x % q # 0 PROVE GCD(x, n) = 1
  <2>. SUFFICES ASSUME NEW d \in 2 .. n, x % d = 0, n % d = 0 PROVE FALSE
    BY <1>2, NoCommonDivisor
  <2>1. d \in Nat \ {0} /\ d \in Nat /\ d > 1
    OBVIOUS
  <2>2. PICK l \in Nat : x = d * l
    BY <2>1, Multiples
  <2>3. PICK f \in Nat : n = d * f
    BY <1>2, <2>1, Multiples
  <2>4. \A m \in Nat \ {0} : x % m # 0 => d % m # 0
    <3>. SUFFICES ASSUME NEW m \in Nat \ {0}, d % m = 0 PROVE x % m = 0
      OBVIOUS
    <3>1. PICK k \in Nat : d = m * k
      BY <2>1, Multiples
    <3>2. x = m * (k * l) /\ k * l \in Nat
      BY <2>2, <3>1
    <3>. QED
      BY <3>2, Multiples
  <2>5. d % p # 0 /\ d % q # 0
    BY <1>1, <1>5, <2>4
  <2>6. f % p = 0
    BY <1>3, <2>1, <2>3, <2>5, PrimeDivides
  <2>7. PICK g \in Nat : f = p * g
    BY <1>1, <2>6, Multiples
  <2>8. q = d * g
    <3>1. p * q = p * (d * g)
      BY <1>1, <2>1, <2>3, <2>7 DEF n
    <3>2. \A y \in Nat : p * q = p * y => q = y
      BY <1>1
    <3>3. d * g \in Nat
      BY <2>1
    <3>. QED
      BY <3>1, <3>2, <3>3
  <2>9. q % d = 0
    BY <2>1, <2>8, Multiples
  <2>10. d <= q
    <3>1. g # 0
      BY <1>1, <2>1, <2>8
    <3>. QED
      BY <2>1, <2>8, <3>1
  <2>11. d # q
    <3>1. q % q = 0
      BY <1>1
    <3>. QED
      BY <2>5, <3>1
  <2>. QED
    BY <1>1, <2>1, <2>9, <2>10, <2>11
<1>. QED
  BY <1>4, <1>5 DEF n

-----------------------------------------------------------------------------
(* The quadratic residues.                                                 *)

\* Modulo p = 2 h + 1 a number and its negative have one square: there are at
\* most h squares.
SquaresOfPrime(p) == {(x * x) % p : x \in 1 .. p - 1}

LEMMA FewSquares ==
  ASSUME NEW h \in Nat \ {0}, NEW p, p = 2 * h + 1
  PROVE  IsFiniteSet(SquaresOfPrime(p)) /\ Cardinality(SquaresOfPrime(p)) \in 0 .. h
<1>. DEFINE R == 1 .. h
            f == [x \in R |-> (x * x) % p]
            S == SquaresOfPrime(p)
<1>1. p \in Nat \ {0} /\ R \subseteq 1 .. p - 1
  OBVIOUS
<1>2. IsFiniteSet(R) /\ Cardinality(R) = h
  <2>1. h + 1 \in Nat \ {0} /\ (h + 1) - 1 = h
    OBVIOUS
  <2>2. IsFiniteSet(1 .. (h + 1) - 1) /\ Cardinality(1 .. (h + 1) - 1) = (h + 1) - 1
    BY <2>1, CountUpTo
  <2>. QED
    BY <2>1, <2>2
<1>3. \A x \in 1 .. p - 1 : \E y \in R : (x * x) % p = (y * y) % p
  <2>1. ASSUME NEW x \in 1 .. p - 1 PROVE \E y \in R : (x * x) % p = (y * y) % p
    <3>1. CASE x \in R
      BY <3>1
    <3>2. CASE x \notin R
      <4>. DEFINE y == p - x
      <4>1. y \in R /\ y \in Nat /\ x = p - y /\ p - 2 * y \in Nat
        BY <3>2
      <4>. HIDE DEF y
      <4>2. x * x = y * y + p * (p - 2 * y)
        <5>1. (p - y) * (p - y) = y * y + p * (p - 2 * y)
          <6>. HIDE DEF R
          <6>. QED
            BY <1>1, <4>1
        <5>. QED
          BY <4>1, <5>1
      <4>. DEFINE z == y * y
                  k == p - 2 * y
      <4>3. z \in Nat /\ k \in Nat
        BY <4>1
      <4>. HIDE DEF z, k
      <4>4. (z + p * k) % p = z % p
        BY <1>1, <4>3, SameRemainder
      <4>. QED
        BY <4>1, <4>2, <4>4 DEF z, k
    <3>. QED
      BY <3>1, <3>2
  <2>. QED
    BY <2>1
<1>4. f \in Surjection(R, S)
  <2>1. f \in [R -> S]
    BY <1>1 DEF SquaresOfPrime
  <2>2. \A s \in S : \E y \in R : f[y] = s
    BY <1>3 DEF SquaresOfPrime
  <2>. HIDE DEF f, S, R
  <2>. QED
    BY <2>1, <2>2 DEF Surjection
<1>. HIDE DEF f, R, S
<1>5. IsFiniteSet(S) /\ Cardinality(S) <= h
  BY <1>2, <1>4, FS_Surjection
<1>6. Cardinality(S) \in Nat
  BY <1>5, FS_CardinalityType
<1>. QED
  BY <1>5, <1>6 DEF S

LEMMA SquareOfRemainder ==
  ASSUME NEW w \in Nat, NEW m \in Nat \ {0}, w % m # 0
  PROVE  (w * w) % m \in SquaresOfPrime(m)
<1>1. w % m \in Nat /\ w % m \in 1 .. m - 1
  OBVIOUS
<1>2. MulMod(w % m, w % m, m) = MulMod(w % m, w, m) /\ MulMod(w % m, w, m) = MulMod(w, w, m)
  BY <1>1, MulModReduced
<1>3. ((w % m) * (w % m)) % m = (w * w) % m
  BY <1>2 DEF MulMod
<1>. QED
  BY <1>1, <1>3 DEF SquaresOfPrime

\* A square modulo p * q is told by its remainders, which are squares.
LEMMA FewSquaresOfBoth ==
  ASSUME NEW h \in Nat \ {0}, NEW p, p = 2 * h + 1, IsAPrime(p),
         NEW k \in Nat \ {0}, NEW q, q = 2 * k + 1, IsAPrime(q), p < q
  PROVE  IsFiniteSet(Squares(p * q)) /\ Cardinality(Squares(p * q)) <= h * k
<1>. DEFINE n == p * q
            S == Squares(n)
            T == SquaresOfPrime(p) \X SquaresOfPrime(q)
            f == [s \in S |-> <<s % p, s % q>>]
<1>1. p \in Nat /\ q \in Nat /\ p \in Nat \ {0} /\ q \in Nat \ {0} /\ n \in Nat \ {0} /\ n = q * p
  <2>1. p \in Nat \ {0} /\ q \in Nat \ {0}
    OBVIOUS
  <2>. HIDE DEF S, T, f
  <2>. QED
    BY <2>1
<1>2. \A s \in S : /\ s \in 0 .. n - 1
                   /\ s % p \in SquaresOfPrime(p) /\ s % q \in SquaresOfPrime(q)
  <2>. SUFFICES ASSUME NEW s \in S
                PROVE  /\ s \in 0 .. n - 1
                       /\ s % p \in SquaresOfPrime(p) /\ s % q \in SquaresOfPrime(q)
    OBVIOUS
  <2>1. PICK w \in 1 .. n - 1 : GCD(w, n) = 1 /\ s = (w * w) % n
    BY DEF Squares
  <2>2. w \in Nat /\ w * w \in Nat
    OBVIOUS
  <2>3. w % p # 0 /\ w % q # 0
    BY <1>1, <2>1, <2>2, UnitOfBoth
  <2>. DEFINE x == w * w
  <2>. HIDE DEF x, n
  <2>4. s % p = x % p /\ (x % (q * p)) % q = x % q
    <3>1. \A c, d \in Nat \ {0}, z \in Nat : (z % (c * d)) % c = z % c
      BY ReduceTwice
    <3>2. x \in Nat /\ p \in Nat \ {0} /\ q \in Nat \ {0}
      BY <1>1, <2>2 DEF x
    <3>3. s = x % (p * q)
      BY <2>1 DEF n, x
    <3>4. (x % (p * q)) % p = x % p
      BY ONLY <3>1, <3>2
    <3>5. (x % (q * p)) % q = x % q
      BY ONLY <3>1, <3>2
    <3>. QED
      BY <3>3, <3>4, <3>5, Zenon
  <2>5. (x % n) % q = x % q
    BY <1>1, <2>4
  <2>6. \A c \in Nat \ {0} : w % c # 0 => (w * w) % c \in SquaresOfPrime(c)
    BY <2>2, SquareOfRemainder
  <2>7. (w * w) % p \in SquaresOfPrime(p) /\ (w * w) % q \in SquaresOfPrime(q)
    BY <1>1, <2>3, <2>6
  <2>8. s \in 0 .. n - 1
    <3>. HIDE DEF n
    <3>. QED
      BY <1>1, <2>1, <2>2
  <2>. QED
    BY <1>1, <2>1, <2>4, <2>5, <2>7, <2>8 DEF x
<1>3. \A s, t \in S : s % p = t % p /\ s % q = t % q => s = t
  <2>1. ASSUME NEW s \in S, NEW t \in S, s % p = t % p, s % q = t % q PROVE s = t
    <3>1. s \in 0 .. p * q - 1 /\ t \in 0 .. p * q - 1
      BY <1>2
    <3>. HIDE DEF S
    <3>2. s <= t \/ t <= s
      BY <3>1
    <3>. QED
      BY <1>1, <2>1, <3>1, <3>2, RemaindersDiffer
  <2>. QED
    BY <2>1
<1>4. IsFiniteSet(T) /\ Cardinality(T) <= h * k
  <2>. DEFINE A == SquaresOfPrime(p)
              B == SquaresOfPrime(q)
  <2>1. /\ IsFiniteSet(A) /\ Cardinality(A) \in 0 .. h
        /\ IsFiniteSet(B) /\ Cardinality(B) \in 0 .. k
    BY FewSquares
  <2>. HIDE DEF A, B
  <2>2. IsFiniteSet(A \X B) /\ Cardinality(A \X B) = Cardinality(A) * Cardinality(B)
    BY <2>1, FS_Product
  <2>3. \A a \in 0 .. h, b \in 0 .. k : a * b <= h * k
    OBVIOUS
  <2>. QED
    BY <2>1, <2>2, <2>3 DEF A, B
<1>. HIDE DEF S, T
<1>5. f \in Injection(S, T)
  <2>1. f \in [S -> T]
    BY <1>2 DEF T
  <2>2. \A s, t \in S : f[s] = f[t] => s = t
    BY <1>3
  <2>. HIDE DEF f
  <2>. QED
    BY <2>1, <2>2 DEF Injection, IsInjective
<1>. HIDE DEF f
<1>6. IsFiniteSet(S) /\ Cardinality(S) <= Cardinality(T)
  BY <1>4, <1>5, FS_Injection
<1>7. Cardinality(S) \in Nat /\ Cardinality(T) \in Nat /\ h * k \in Nat
  BY <1>4, <1>6, FS_CardinalityType
<1>. QED
  BY <1>4, <1>6, <1>7 DEF S, n
-----------------------------------------------------------------------------
(* The generators of a group.                                              *)

\* A power of a draw to (p - 1) / order that is not 1 has `order` powers.
LEMMA PrimeGenerates ==
  ASSUME NEW order \in Nat, IsAPrime(order), NEW factor \in Nat \ {0}, NEW m, m = order * factor + 1,
         IsAPrime(m), NEW a \in 1 .. m - 1, NEW v, v = PowerMod(a, factor, m), v # 1
  PROVE  /\ Cardinality(PowersOf(v, m)) = order
         /\ v >= 0 /\ v < m /\ PowerMod(v, order, m) = 1
<1>1. /\ m \in Nat /\ m \in Nat \ {0} /\ m > 1 /\ order \in Nat \ {0}
      /\ m - 1 = factor * order /\ order \in 1 .. m
  <2>1. order \in Nat \ {0} /\ order * factor \in Nat /\ order <= order * factor
    BY DEF IsAPrime
  <2>. DEFINE x == order * factor
  <2>2. x = factor * order
    OBVIOUS
  <2>. HIDE DEF x
  <2>. QED
    BY <2>1, <2>2 DEF x, IsAPrime
<1>2. a \in Nat /\ a % m = a /\ a % m # 0
  BY <1>1
<1>3. v = Powers(a, m)[factor] /\ v \in 0 .. m - 1
  <2>1. \A e \in Nat : PowerMod(a, e, m) = Powers(a, m)[e] /\ PowerMod(a, e, m) \in 0 .. m - 1
    BY <1>1, <1>2, PowerOfResidue
  <2>. QED
    BY <2>1
<1>4. v \in Nat /\ v % m = v
  BY <1>1, <1>3
<1>5. Powers(v, m)[order] = 1
  <2>1. \A k \in Nat : Powers(a, m)[factor * k] = Powers(Powers(a, m)[factor], m)[k]
    BY <1>1, <1>2, PowersMultiply
  <2>2. Powers(a, m)[m - 1] = 1
    BY <1>1, <1>2, Fermat
  <2>. QED
    BY <1>1, <1>3, <2>1, <2>2
<1>6. Powers(v, m)[1] = v
  BY <1>1, <1>3, PowersOne
<1>7. ASSUME NEW d \in 1 .. order - 1 PROVE Powers(v, m)[d] # 1
  <2>1. d \in Nat /\ d % order # 0
    BY <1>1
  <2>. QED
    BY <1>1, <1>4, <1>5, <1>6, <2>1, PrimeOrder
<1>8. Cardinality(PowersOf(v, m)) = order
  BY <1>1, <1>3, <1>5, <1>7, CountPowers
<1>9. PowerMod(v, order, m) = 1
  BY <1>1, <1>4, <1>5, PowerOfResidue
<1>. QED
  BY <1>1, <1>3, <1>8, <1>9

LEMMA ZeroSquared ==
  ASSUME NEW a \in Nat, NEW m \in Nat \ {0}, a % m = 0
  PROVE  Powers(a, m)[2] = 0
<1>. DEFINE b == Powers(a, m)[1]
<1>1. b \in Nat /\ Powers(a, m)[1 + 1] = MulMod(b, a, m)
  <2>1. \A i \in Nat : Powers(a, m)[i] \in Nat /\ Powers(a, m)[i + 1] = MulMod(Powers(a, m)[i], a, m)
    BY PowersStep
  <2>. QED
    BY <2>1
<1>. HIDE DEF b
<1>2. MulMod(b, a % m, m) = MulMod(b, a, m)
  BY <1>1, MulModReduced
<1>3. MulMod(b, 0, m) = 0
  BY <1>1 DEF MulMod
<1>4. 1 + 1 = 2
  OBVIOUS
<1>. QED
  BY <1>1, <1>2, <1>3, <1>4

\* Two primes and their product.
TwoPrimes(p, q, n) ==
  p \in Nat /\ IsAPrime(p) /\ q \in Nat /\ IsAPrime(q) /\ p < q /\ n = p * q
Divides(d, e) == \E k \in Nat : e = d * k

LEMMA TwoPrimesAre ==
  ASSUME NEW p, NEW q, NEW n, TwoPrimes(p, q, n)
  PROVE  /\ p \in Nat /\ IsAPrime(p) /\ q \in Nat /\ IsAPrime(q) /\ n \in Nat
         /\ p \in Nat \ {0} /\ q \in Nat \ {0} /\ n \in Nat \ {0} /\ p > 1 /\ q > 1 /\ n > 1
         /\ p < n /\ q < n
<1>1. p \in Nat /\ IsAPrime(p) /\ q \in Nat /\ IsAPrime(q) /\ n = p * q
  BY DEF TwoPrimes
<1>2. p > 1 /\ q > 1
  BY <1>1 DEF IsAPrime
<1>3. p * q \in Nat /\ p < p * q /\ q < p * q
  BY <1>1, <1>2
<1>. QED
  BY <1>1, <1>2, <1>3

LEMMA ReduceToPrimes ==
  ASSUME NEW p, NEW q, NEW n, TwoPrimes(p, q, n), NEW a \in Nat
  PROVE  \A i \in Nat : /\ Powers(a, n)[i] % p = Powers(a, p)[i]
                        /\ Powers(a, n)[i] % q = Powers(a, q)[i]
<1>1. p \in Nat \ {0} /\ q \in Nat \ {0}
  BY TwoPrimesAre
<1>2. n = p * q /\ n = q * p
  BY <1>1 DEF TwoPrimes
<1>3. \A i \in Nat : Powers(a, p * q)[i] % p = Powers(a, p)[i]
  BY <1>1, PowersReduce
<1>4. \A i \in Nat : Powers(a, q * p)[i] % q = Powers(a, q)[i]
  BY <1>1, PowersReduce
<1>. QED
  BY <1>2, <1>3, <1>4

LEMMA SameRemainders ==
  ASSUME NEW p, NEW q, NEW n, TwoPrimes(p, q, n), NEW s \in 0 .. n - 1, NEW t \in 0 .. n - 1,
         s % p = t % p, s % q = t % q
  PROVE  s = t
<1>1. /\ p \in Nat /\ IsAPrime(p) /\ q \in Nat /\ IsAPrime(q) /\ p < q
      /\ s \in 0 .. p * q - 1 /\ t \in 0 .. p * q - 1
  BY DEF TwoPrimes
<1>2. s <= t \/ t <= s
  BY TwoPrimesAre
<1>. QED
  BY <1>1, <1>2, RemaindersDiffer

LEMMA UnitModProduct ==
  ASSUME NEW p, NEW q, NEW n, TwoPrimes(p, q, n), NEW x \in Nat
  PROVE  GCD(x, n) = 1 <=> x % p # 0 /\ x % q # 0
BY UnitOfBoth DEF TwoPrimes

\* A unit is 1 to every power that p - 1 and q - 1 divide.
LEMMA UnitToMultiple ==
  ASSUME NEW p, NEW q, NEW n, TwoPrimes(p, q, n), NEW a \in Nat, a % p # 0, a % q # 0,
         NEW e \in Nat, Divides(p - 1, e), Divides(q - 1, e)
  PROVE  Powers(a, n)[e] = 1
<1>. DEFINE y == Powers(a, n)[e]
<1>1. ASSUME NEW r \in Nat, IsAPrime(r), a % r # 0, Divides(r - 1, e)
      PROVE  Powers(a, r)[e] = 1
  <2>1. PICK k \in Nat : e = (r - 1) * k
    BY <1>1 DEF Divides
  <2>2. r - 1 \in Nat /\ r > 1 /\ Powers(a, r)[r - 1] = 1
    <3>1. Powers(a, r)[r - 1] = 1
      BY <1>1, Fermat
    <3>2. r - 1 \in Nat /\ r > 1
      BY <1>1 DEF IsAPrime
    <3>. QED
      BY <3>1, <3>2
  <2>. DEFINE d == r - 1
  <2>. HIDE DEF d
  <2>3. Powers(a, r)[d * k] = 1
    BY <2>2, PowersOfRoot DEF d
  <2>. QED
    BY <2>1, <2>3 DEF d
<1>2. /\ p \in Nat /\ IsAPrime(p) /\ q \in Nat /\ IsAPrime(q) /\ n \in Nat \ {0}
      /\ p \in Nat \ {0} /\ q \in Nat \ {0} /\ p > 1 /\ q > 1 /\ n > 1
  BY TwoPrimesAre
<1>3. Powers(a, p)[e] = 1 /\ Powers(a, q)[e] = 1
  BY <1>1, <1>2
<1>4. y % p = 1 /\ y % q = 1
  BY <1>3, ReduceToPrimes
<1>5. y \in 0 .. n - 1
  BY <1>2, PowersStep
<1>. HIDE DEF y
<1>6. 1 \in 0 .. n - 1 /\ 1 % p = 1 /\ 1 % q = 1
  BY <1>2
<1>7. y = 1
  BY <1>4, <1>5, <1>6, SameRemainders
<1>. QED
  BY <1>7 DEF y

\* The powers of a square are squares of units.
LEMMA PowersAreSquares ==
  ASSUME NEW p, NEW q, NEW n, TwoPrimes(p, q, n), NEW a \in Nat, a % p # 0, a % q # 0, NEW i \in Nat
  PROVE  Powers(a, n)[2 * i] \in Squares(n)
<1>. DEFINE w == Powers(a, n)[i]
<1>1. /\ p \in Nat /\ IsAPrime(p) /\ q \in Nat /\ IsAPrime(q) /\ n \in Nat \ {0}
      /\ p \in Nat \ {0} /\ q \in Nat \ {0}
  BY TwoPrimesAre
<1>2. 0 % p = 0 /\ 2 * i = i + i
  BY <1>1
<1>3. w % p = Powers(a, p)[i] /\ w % q = Powers(a, q)[i]
  BY ReduceToPrimes
<1>4. Powers(a, p)[i] \in 1 .. p - 1 /\ Powers(a, q)[i] \in 1 .. q - 1
  BY <1>1, UnitsClosed
<1>5. w % p # 0 /\ w % q # 0
  BY <1>3, <1>4
<1>6. w \in 0 .. n - 1 /\ w \in Nat
  BY <1>1, PowersStep
<1>7. Powers(a, n)[i + i] = MulMod(w, w, n)
  BY <1>1, PowersAdd
<1>. HIDE DEF w
<1>8. GCD(w, n) = 1
  BY <1>5, <1>6, UnitModProduct
<1>9. w # 0
  BY <1>2, <1>5
<1>10. w \in 1 .. n - 1
  BY <1>1, <1>6, <1>9
<1>11. (w * w) % n \in Squares(n)
  BY <1>8, <1>10 DEF Squares
<1>. QED
  BY <1>2, <1>7, <1>11 DEF MulMod

\* The square of a draw, if it is a unit, is 1 to the power e / 2.
LEMMA SquareIsRoot ==
  ASSUME NEW p, NEW q, NEW n, TwoPrimes(p, q, n), NEW e \in Nat,
         Divides(p - 1, 2 * e), Divides(q - 1, 2 * e),
         NEW a \in 1 .. n - 1, NEW v, v = PowerMod(a, 2, n), GCD(v, n) = 1
  PROVE  /\ v \in 0 .. n - 1 /\ Powers(v, n)[e] = 1
         /\ \A i \in Nat : PowerMod(v, i, n) = Powers(v, n)[i]
         /\ PowersOf(v, n) \subseteq Squares(n)
<1>1. /\ p \in Nat \ {0} /\ q \in Nat \ {0} /\ n \in Nat \ {0}
  BY TwoPrimesAre
<1>2. a \in Nat /\ a % n = a /\ 2 * e \in Nat
  BY <1>1
<1>3. v = Powers(a, n)[2] /\ v \in 0 .. n - 1
  <2>1. \A i \in Nat : PowerMod(a, i, n) = Powers(a, n)[i] /\ PowerMod(a, i, n) \in 0 .. n - 1
    BY <1>1, <1>2, PowerOfResidue
  <2>. QED
    BY <2>1
<1>4. \A i \in Nat : Powers(v, n)[i] = Powers(a, n)[2 * i]
  <2>1. \A i \in Nat : Powers(a, n)[2 * i] = Powers(Powers(a, n)[2], n)[i]
    BY <1>1, <1>2, PowersMultiply
  <2>. QED
    BY <1>3, <2>1
<1>5. v \in Nat /\ v % n = v
  BY <1>1, <1>3
<1>6. \A i \in Nat : PowerMod(v, i, n) = Powers(v, n)[i]
  BY <1>1, <1>5, PowerOfResidue
<1>7. a % p # 0 /\ a % q # 0
  <2>1. v % p # 0 /\ v % q # 0
    BY <1>5, UnitModProduct
  <2>2. Powers(a, n)[2] % p = Powers(a, p)[2] /\ Powers(a, n)[2] % q = Powers(a, q)[2]
    BY <1>2, ReduceToPrimes
  <2>3. Powers(a, p)[2] # 0 /\ Powers(a, q)[2] # 0
    BY <1>3, <2>1, <2>2
  <2>. QED
    BY <1>1, <1>2, <2>3, ZeroSquared
<1>8. Powers(v, n)[e] = 1
  <2>1. Powers(a, n)[2 * e] = 1
    BY <1>2, <1>7, UnitToMultiple
  <2>. QED
    BY <1>4, <2>1
<1>9. ASSUME NEW i \in 0 .. n PROVE PowerMod(v, i, n) \in Squares(n)
  <2>1. i \in Nat
    BY <1>1
  <2>2. Powers(a, n)[2 * i] \in Squares(n)
    BY <1>2, <1>7, <2>1, PowersAreSquares
  <2>. QED
    BY <1>4, <1>6, <2>1, <2>2
<1>. QED
  BY <1>3, <1>6, <1>8, <1>9 DEF PowersOf

\* What is 1 to the product of two primes, and to neither of them, has as many
\* powers as the product.
LEMMA FactorOfOrder ==
  ASSUME NEW r \in Nat, IsAPrime(r), NEW s \in Nat, NEW v \in Nat, NEW n \in Nat, n > 1,
         Powers(v, n)[s * r] = 1, Powers(v, n)[s] # 1, NEW d \in Nat, Powers(v, n)[d] = 1
  PROVE  d % r = 0
<1>. DEFINE P == Powers(v, n)
            w == P[s]
<1>1. n \in Nat \ {0}
  OBVIOUS
<1>2. \A i \in Nat : P[i] \in 0 .. n - 1 /\ P[i] \in Nat
  BY <1>1, PowersStep
<1>3. \A i \in Nat : P[s * i] = Powers(P[s], n)[i]
  BY <1>1, PowersMultiply
<1>4. P[d * s] = 1
  BY PowersOfRoot
<1>5. P[s * r] = 1 /\ P[s] # 1
  OBVIOUS
<1>6. d * s = s * d
  OBVIOUS
<1>. HIDE DEF P
<1>7. w \in 0 .. n - 1 /\ w \in Nat /\ Powers(w, n)[r] = 1 /\ Powers(w, n)[d] = 1
  BY <1>2, <1>3, <1>4, <1>5, <1>6
<1>8. w # 1
  BY <1>5
<1>. HIDE DEF w
<1>9. Powers(w, n)[1] = w
  BY <1>1, <1>7, PowersOne
<1>. QED
  BY <1>7, <1>8, <1>9, PrimeOrder

LEMMA ProductIsOrder ==
  ASSUME NEW h \in Nat, IsAPrime(h), NEW k \in Nat, IsAPrime(k), h < k,
         NEW n \in Nat, n > 1, h * k <= n, NEW v \in 0 .. n - 1, Powers(v, n)[h * k] = 1,
         Powers(v, n)[h] # 1, Powers(v, n)[k] # 1
  PROVE  Cardinality(PowersOf(v, n)) = h * k
<1>. DEFINE N == h * k
<1>1. N \in 1 .. n /\ N \in Nat \ {0} /\ N = k * h /\ v \in Nat
  <2>1. h \in Nat \ {0} /\ k \in Nat \ {0}
    BY DEF IsAPrime
  <2>2. h * k \in Nat \ {0} /\ h * k = k * h
    BY <2>1
  <2>. QED
    BY <2>2
<1>2. \A d \in Nat : Powers(v, n)[d] = 1 => d % h = 0 /\ d % k = 0
  <2>. SUFFICES ASSUME NEW d \in Nat, Powers(v, n)[d] = 1 PROVE d % h = 0 /\ d % k = 0
    OBVIOUS
  <2>1. Powers(v, n)[k * h] = 1
    BY <1>1
  <2>2. d % h = 0
    BY <1>1, <2>1, FactorOfOrder
  <2>3. d % k = 0
    BY <1>1, FactorOfOrder
  <2>. QED
    BY <2>2, <2>3
<1>3. ASSUME NEW d \in 1 .. N - 1 PROVE Powers(v, n)[d] # 1
  <2>. SUFFICES ASSUME Powers(v, n)[d] = 1 PROVE FALSE
    OBVIOUS
  <2>1. d \in Nat
    BY <1>1
  <2>2. d % h = 0 /\ d % k = 0
    BY <1>2, <2>1
  <2>3. d % (h * k) = 0
    BY <2>1, <2>2, ProductDivides
  <2>. HIDE DEF N
  <2>4. d % N = d /\ d # 0
    BY <1>1
  <2>. QED
    BY <2>3, <2>4 DEF N
<1>4. Powers(v, n)[N] = 1
  OBVIOUS
<1>. HIDE DEF N
<1>5. Cardinality(PowersOf(v, n)) = N
  BY <1>1, <1>3, <1>4, CountPowers
<1>. QED
  BY <1>5 DEF N

\* A square that is a unit, and whose powers to h and to k are not 1, generates
\* all squares.
LEMMA SquareGenerates ==
  ASSUME NEW h \in Nat, IsAPrime(h), NEW p, p = 2 * h + 1, IsAPrime(p),
         NEW k \in Nat, IsAPrime(k), NEW q, q = 2 * k + 1, IsAPrime(q), h < k,
         NEW n, n = p * q, NEW a \in 1 .. n - 1, NEW v, v = PowerMod(a, 2, n), GCD(v, n) = 1,
         PowerMod(v, h, n) # 1, PowerMod(v, k, n) # 1
  PROVE  PowersOf(v, n) = Squares(n)
<1>. DEFINE N == h * k
            S == Squares(n)
            T == PowersOf(v, n)
<1>1. h \in Nat \ {0} /\ k \in Nat \ {0} /\ p \in Nat /\ q \in Nat /\ p < q
  BY DEF IsAPrime
<1>2. TwoPrimes(p, q, n)
  BY <1>1 DEF TwoPrimes
<1>3. N \in Nat /\ N <= n
  BY <1>1
<1>4. Divides(p - 1, 2 * N) /\ Divides(q - 1, 2 * N)
  <2>1. p - 1 = 2 * h /\ q - 1 = 2 * k
    BY <1>1
  <2>2. 2 * N = (2 * h) * k /\ 2 * N = (2 * k) * h
    BY <1>1
  <2>. HIDE DEF N
  <2>. QED
    BY <1>1, <2>1, <2>2 DEF Divides
<1>5. IsFiniteSet(S) /\ Cardinality(S) <= N
  BY <1>1, FewSquaresOfBoth
<1>. HIDE DEF N
<1>6. /\ v \in 0 .. n - 1 /\ Powers(v, n)[N] = 1
      /\ \A i \in Nat : PowerMod(v, i, n) = Powers(v, n)[i]
      /\ T \subseteq S
  BY <1>2, <1>3, <1>4, SquareIsRoot
<1>7. Powers(v, n)[h] # 1 /\ Powers(v, n)[k] # 1
  BY <1>6
<1>8. n \in Nat /\ n > 1
  BY <1>2, TwoPrimesAre
<1>9. Cardinality(T) = N
  BY <1>3, <1>6, <1>7, <1>8, ProductIsOrder DEF N
<1>. HIDE DEF S, T
<1>10. Cardinality(S) \in Nat /\ Cardinality(T) <= Cardinality(S)
  BY <1>5, <1>6, FS_Subset, FS_CardinalityType
<1>11. Cardinality(S) = Cardinality(T)
  BY <1>3, <1>5, <1>9, <1>10
<1>12. S = T
  BY <1>5, <1>6, <1>11, FS_Subset
<1>. QED
  BY <1>12 DEF S, T

-----------------------------------------------------------------------------
(* The invariant of groups.                                                *)

\* How a group is made, and each of its generators; the published copy is one of
\* a group that was made so.
PrimesOf(g) ==
  IF g.type = "PRIME"
  THEN g.order \in Primes /\ g.factor \in Factors /\ g.mod = g.order * g.factor + 1 /\ IsAPrime(g.mod)
  ELSE /\ \E h, k \in GermainPrimes : h < k /\ g.p = 2 * h + 1 /\ g.q = 2 * k + 1
       /\ IsAPrime(g.p) /\ IsAPrime(g.q) /\ g.mod = g.p * g.q
IsDrawn(g, v) ==
  \E a \in 1 .. g.mod - 1 :
    IF g.type = "PRIME"
    THEN v = PowerMod(a, g.factor, g.mod) /\ v # 1
    ELSE /\ v = PowerMod(a, 2, g.mod) /\ GCD(v, g.mod) = 1
         /\ PowerMod(v, (g.p - 1) \div 2, g.mod) # 1 /\ PowerMod(v, (g.q - 1) \div 2, g.mod) # 1
IsMade(g) ==
  /\ IsGroup(g)
  /\ g # NoGroup => PrimesOf(g) /\ \A i \in DOMAIN g.gens : IsDrawn(g, g.gens[i])
MadeInv == IsMade(own) /\ \E g : IsMade(g) /\ public = clearSecrets(g)

LEMMA InitMade == Init => MadeInv
<1>1. IsMade(NoGroup) /\ clearSecrets(NoGroup) = NoGroup
  BY DEF IsMade, IsGroup, clearSecrets, NoGroup
<1>. QED
  BY <1>1 DEF Init, GroupsInit, MadeInv

LEMMA NextMade ==
  ASSUME TypeInv, MadeInv, GroupsNext
  PROVE  MadeInv'
<1>. USE GroupsAssumption
<1>1. IsGroup(own)'
  BY NextGroups DEF TypeInv
<1>2. ASSUME NewGroupPrime PROVE IsMade(own')
  <2>1. PICK order \in Primes, factor \in Factors, a \in Draws :
          LET g == [type |-> "PRIME", mod |-> order * factor + 1, order |-> order,
                    factor |-> factor, gens |-> <<>>]
              v == primeGenerator(g, a)
          IN  /\ IsAPrime(g.mod) /\ a < g.mod /\ primeAccepts(v)
              /\ own' = [g EXCEPT !.gens = <<v>>]
    BY <1>2, Zenon DEF NewGroupPrime
  <2>. DEFINE m == order * factor + 1
              v == PowerMod(a, factor, m)
  <2>2. /\ own' = [type |-> "PRIME", mod |-> m, order |-> order, factor |-> factor, gens |-> <<v>>]
        /\ IsAPrime(m) /\ a < m /\ v # 1
    BY <2>1 DEF primeGenerator, primeAccepts
  <2>3. a \in 1 .. m - 1
    BY <2>2
  <2>4. PrimesOf(own')
    BY <2>2 DEF PrimesOf
  <2>. HIDE DEF m
  <2>5. IsDrawn(own', v)
    BY <2>2, <2>3 DEF IsDrawn
  <2>. HIDE DEF v
  <2>6. \A i \in DOMAIN own'.gens : own'.gens[i] = v
    BY <2>2
  <2>. QED
    BY <1>1, <2>4, <2>5, <2>6 DEF IsMade
<1>3. ASSUME NewGroupRSA PROVE IsMade(own')
  <2>1. PICK h \in GermainPrimes, k \in GermainPrimes, a \in Draws :
          LET p == 2 * h + 1
              q == 2 * k + 1
              g == [type |-> "RSA", mod |-> p * q, order |-> 0, p |-> p, q |-> q, gens |-> <<>>]
              v == rsaGenerator(g, a)
          IN  /\ h < k /\ IsAPrime(p) /\ IsAPrime(q)
              /\ a < g.mod /\ rsaAccepts(g, v)
              /\ own' = [g EXCEPT !.gens = <<v>>]
    BY <1>3, Zenon DEF NewGroupRSA
  <2>. DEFINE p == 2 * h + 1
              q == 2 * k + 1
              m == p * q
              v == PowerMod(a, 2, m)
  <2>2. /\ own' = [type |-> "RSA", mod |-> m, order |-> 0, p |-> p, q |-> q, gens |-> <<v>>]
        /\ h < k /\ IsAPrime(p) /\ IsAPrime(q) /\ a < m
    BY <2>1 DEF rsaGenerator
  <2>3. GCD(v, m) = 1 /\ PowerMod(v, (p - 1) \div 2, m) # 1 /\ PowerMod(v, (q - 1) \div 2, m) # 1
    BY <2>1 DEF rsaGenerator, rsaAccepts, rsaIsGenerator
  <2>4. PrimesOf(own')
    BY <2>2 DEF PrimesOf
  <2>. HIDE DEF p, q
  <2>5. a \in 1 .. m - 1
    <3>1. IsGroup(own') /\ own' # NoGroup /\ own'.mod = m
      BY <1>1, <2>2 DEF NoGroup
    <3>2. m \in Nat
      BY <3>1 DEF IsGroup, PrimeGroups, RSAGroups
    <3>. QED
      BY <2>2, <3>2
  <2>. HIDE DEF m
  <2>6. IsDrawn(own', v)
    BY <2>2, <2>3, <2>5 DEF IsDrawn
  <2>. HIDE DEF v
  <2>7. \A i \in DOMAIN own'.gens : own'.gens[i] = v
    BY <2>2
  <2>. QED
    BY <1>1, <2>4, <2>6, <2>7 DEF IsMade
<1>4. ASSUME AddNewGenerator PROVE IsMade(own')
  <2>1. PICK d \in Draws :
          LET v == IF own.type = "PRIME" THEN primeGenerator(own, d) ELSE rsaGenerator(own, d)
          IN  /\ own # NoGroup /\ d < own.mod
              /\ IF own.type = "PRIME" THEN primeAccepts(v) ELSE rsaAccepts(own, v)
              /\ own' = [own EXCEPT !.gens = Append(@, v)]
    BY <1>4, Zenon DEF AddNewGenerator
  <2>. DEFINE v == IF own.type = "PRIME" THEN primeGenerator(own, d) ELSE rsaGenerator(own, d)
              gens == Append(own.gens, v)
  <2>2. /\ own \in PrimeGroups \cup RSAGroups /\ PrimesOf(own)
        /\ \A i \in DOMAIN own.gens : IsDrawn(own, own.gens[i])
    BY <2>1 DEF MadeInv, IsMade, IsGroup
  <2>3. d \in 1 .. own.mod - 1
    BY <2>1, <2>2 DEF PrimeGroups, RSAGroups
  <2>4. IsDrawn(own, v)
    BY <2>1, <2>3 DEF IsDrawn, primeGenerator, rsaGenerator, primeAccepts, rsaAccepts, rsaIsGenerator
  <2>5. own' = [own EXCEPT !.gens = gens]
    BY <2>1
  <2>. HIDE DEF v
  <2>6. \A i \in DOMAIN gens : IsDrawn(own, gens[i])
    <3>1. own.gens \in Seq(Int)
      BY <2>2 DEF PrimeGroups, RSAGroups
    <3>2. DOMAIN gens = 1 .. Len(own.gens) + 1 /\ Len(own.gens) \in Nat /\ DOMAIN own.gens = 1 .. Len(own.gens)
      BY <3>1
    <3>3. gens[Len(own.gens) + 1] = v /\ \A i \in 1 .. Len(own.gens) : gens[i] = own.gens[i]
      BY <3>1
    <3>. HIDE DEF gens
    <3>4. \A i \in DOMAIN gens : i = Len(own.gens) + 1 \/ i \in 1 .. Len(own.gens)
      BY <3>2
    <3>. QED
      BY <2>2, <2>4, <3>2, <3>3, <3>4
  <2>. HIDE DEF gens
  <2>7. /\ own'.gens = gens /\ own'.type = own.type /\ own'.mod = own.mod
        /\ own.type = "PRIME" => own'.order = own.order /\ own'.factor = own.factor
        /\ own.type # "PRIME" => own'.p = own.p /\ own'.q = own.q
    BY <2>2, <2>5 DEF PrimeGroups, RSAGroups
  <2>8. PrimesOf(own')
    BY <2>2, <2>7, Zenon DEF PrimesOf
  <2>9. \A x : IsDrawn(own, x) => IsDrawn(own', x)
    BY <2>7, Zenon DEF IsDrawn
  <2>. QED
    BY <1>1, <2>6, <2>7, <2>8, <2>9 DEF IsMade
<1>5. IsMade(own) /\ \E g : IsMade(g) /\ public = clearSecrets(g)
  BY DEF MadeInv
<1>6. CASE Publish
  BY <1>5, <1>6 DEF Publish, MadeInv
<1>7. CASE NewGroupPrime \/ NewGroupRSA \/ AddNewGenerator
  <2>1. public' = public
    BY <1>7 DEF NewGroupPrime, NewGroupRSA, AddNewGenerator
  <2>. QED
    BY <1>2, <1>3, <1>4, <1>5, <1>7, <2>1 DEF MadeInv
<1>. QED
  BY <1>6, <1>7 DEF GroupsNext

LEMMA MadeGenerates == MadeInv => GeneratorsGenerate
<1>. SUFFICES ASSUME MadeInv, public # NoGroup, NEW i \in DOMAIN public.gens
              PROVE  LET v == public.gens[i] IN
                     IF public.type = "PRIME"
                     THEN Cardinality(PowersOf(v, public.mod)) = getOrder(public) /\ primeIsGenerator(public, v)
                     ELSE PowersOf(v, public.mod) = Squares(public.mod) /\ getOrder(public) = 0
  BY DEF GeneratorsGenerate
<1>. USE GroupsAssumption
<1>1. PICK g : IsMade(g) /\ public = clearSecrets(g)
  BY DEF MadeInv
<1>2. g # NoGroup
  BY <1>1 DEF clearSecrets, NoGroup
<1>3. g \in PrimeGroups \cup RSAGroups /\ PrimesOf(g) /\ \A j \in DOMAIN g.gens : IsDrawn(g, g.gens[j])
  BY <1>1, <1>2 DEF IsMade, IsGroup
<1>. DEFINE v == public.gens[i]
            m == public.mod
<1>4. CASE g \in PrimeGroups
  <2>1. public = g /\ g.type = "PRIME"
    BY <1>1, <1>4 DEF clearSecrets, PrimeGroups
  <2>2. /\ g.order \in Primes /\ g.factor \in Factors /\ m = g.order * g.factor + 1 /\ IsAPrime(m)
        /\ \E a \in 1 .. m - 1 : v = PowerMod(a, g.factor, m) /\ v # 1
    BY <1>3, <2>1, Zenon DEF PrimesOf, IsDrawn
  <2>3. PICK a \in 1 .. m - 1 : v = PowerMod(a, g.factor, m) /\ v # 1
    BY <2>2
  <2>4. g.order \in Nat /\ IsAPrime(g.order) /\ g.factor \in Nat \ {0}
    BY <2>2
  <2>. HIDE DEF v, m
  <2>5. Cardinality(PowersOf(v, m)) = g.order /\ v >= 0 /\ v < m /\ PowerMod(v, g.order, m) = 1
    BY <2>2, <2>3, <2>4, PrimeGenerates
  <2>. QED
    BY <2>1, <2>3, <2>5 DEF v, m, getOrder, primeIsGenerator, primeIsElement
<1>5. CASE g \in RSAGroups
  <2>1. /\ public.type = "RSA" /\ g.type = "RSA" /\ public.p = 0 /\ m = g.mod /\ public.gens = g.gens
    BY <1>1, <1>5 DEF clearSecrets, RSAGroups
  <2>2. PICK h \in GermainPrimes, k \in GermainPrimes :
          /\ h < k /\ g.p = 2 * h + 1 /\ g.q = 2 * k + 1
          /\ IsAPrime(g.p) /\ IsAPrime(g.q) /\ m = g.p * g.q
    BY <1>3, <2>1 DEF PrimesOf
  <2>3. IsDrawn(g, v)
    BY <1>3, <2>1
  <2>4. PICK a \in 1 .. m - 1 :
          /\ v = PowerMod(a, 2, m) /\ GCD(v, m) = 1
          /\ PowerMod(v, (g.p - 1) \div 2, m) # 1 /\ PowerMod(v, (g.q - 1) \div 2, m) # 1
    BY <2>1, <2>3, Zenon DEF IsDrawn
  <2>5. h \in Nat /\ k \in Nat /\ IsAPrime(h) /\ IsAPrime(k)
    OBVIOUS
  <2>6. (g.p - 1) \div 2 = h /\ (g.q - 1) \div 2 = k
    BY <2>2, <2>5
  <2>. HIDE DEF v, m
  <2>7. PowersOf(v, m) = Squares(m)
    BY <2>2, <2>4, <2>5, <2>6, SquareGenerates
  <2>8. getOrder(public) = 0
    BY <2>1 DEF getOrder, knowsFactors
  <2>. QED
    BY <2>1, <2>7, <2>8 DEF v, m
<1>. QED
  BY <1>3, <1>4, <1>5

\* Whatever primes and numbers are drawn, and however many generators are added
\* (GroupPrime, GroupRSA, addNewGenerator, makePublic): every generator of a
\* published prime group has the group's order, and every generator of a
\* published RSA group generates all quadratic residues, although only its small
\* powers are looked at.
THEOREM GeneratorsAlwaysGenerate == Spec => []GeneratorsGenerate
<1>1. TypeInv /\ MadeInv /\ [Next]_vars => (TypeInv /\ MadeInv)'
  <2>. SUFFICES ASSUME TypeInv, MadeInv, [Next]_vars PROVE (TypeInv /\ MadeInv)'
    OBVIOUS
  <2>1. TypeInv'
    BY NextTypes
  <2>2. CASE UNCHANGED groupVars
    BY <2>1, <2>2 DEF groupVars, MadeInv
  <2>3. GroupsNext \/ UNCHANGED groupVars
    BY Zenon DEF Next, vars, groupVars
  <2>. QED
    BY <2>1, <2>2, <2>3, NextMade
<1>2. Init => TypeInv /\ MadeInv
  BY InitTypes, InitMade
<1>. QED
  BY <1>1, <1>2, MadeGenerates, PTL DEF Spec
=============================================================================
