------------------------ MODULE ExponentiationProofs ------------------------
(***************************************************************************)
(* Proofs about Exponentiation.tla, for any groups, any bases, any sizes of*)
(* exponents and of tables: whichever table answers, the answer is the     *)
(* product of the bases multiplied out.                                    *)
(***************************************************************************)
EXTENDS Exponentiation, LoopProofs, FiniteSetTheorems

-----------------------------------------------------------------------------
(* Multiplication modulo m.                                                *)
\* A factor may be reduced first.
LEMMA MulModReduced ==
  ASSUME NEW a \in Nat, NEW b \in Nat, NEW m \in Nat \ {0}
  PROVE  /\ MulMod(a, b % m, m) = MulMod(a, b, m)
         /\ MulMod(a % m, b, m) = MulMod(a, b, m)
         /\ MulMod(a, b, m) \in 0 .. m - 1 /\ MulMod(a, b, m) \in Nat
         /\ MulMod(a, b, m) = MulMod(b, a, m)
         /\ MulMod(1 % m, b, m) = b % m
<1>. DEFINE q == b \div m
            r == b % m
            p == a \div m
            s == a % m
<1>1. b = m * q + r /\ r \in Nat /\ q \in Nat /\ a = m * p + s /\ s \in Nat /\ p \in Nat
  BY Remainder
<1>. HIDE DEF q, r, p, s
<1>2. (a * b) % m = (a * r) % m
  <2>. DEFINE u == a * r
              v == a * q
  <2>1. a * b = u + m * v /\ u \in Nat /\ v \in Nat
    BY <1>1
  <2>. HIDE DEF u, v
  <2>2. (u + m * v) % m = u % m
    BY <2>1, SameRemainder
  <2>. QED
    BY <2>1, <2>2 DEF u
<1>3. (a * b) % m = (s * b) % m
  <2>. DEFINE u == s * b
              v == p * b
  <2>1. a * b = u + m * v /\ u \in Nat /\ v \in Nat
    BY <1>1
  <2>. HIDE DEF u, v
  <2>2. (u + m * v) % m = u % m
    BY <2>1, SameRemainder
  <2>. QED
    BY <2>1, <2>2 DEF u
<1>6. a * b = b * a /\ a * b \in Nat /\ (a * b) % m \in 0 .. m - 1
  OBVIOUS
<1>7. ((1 % m) * b) % m = b % m
  <2>1. CASE m = 1
    BY <2>1
  <2>2. CASE m # 1
    <3>1. 1 % m = 1 /\ 1 * b = b
      BY <2>2
    <3>. QED
      BY <3>1
  <2>. QED
    BY <2>1, <2>2
<1>. QED
  BY <1>2, <1>3, <1>6, <1>7 DEF MulMod, r, s

LEMMA MulModOne ==
  ASSUME NEW m \in Nat \ {0}, NEW a \in 0 .. m - 1
  PROVE  MulMod(a, 1 % m, m) = a /\ MulMod(1 % m, a, m) = a
<1>1. 1 % m \in Nat /\ a \in Nat /\ a % m = a
  OBVIOUS
<1>2. MulMod(1 % m, a, m) = a % m /\ MulMod(1 % m, a, m) = MulMod(a, 1 % m, m)
  BY <1>1, MulModReduced
<1>. QED
  BY <1>1, <1>2

LEMMA MulModAssociates ==
  ASSUME NEW a \in Nat, NEW b \in Nat, NEW c \in Nat, NEW m \in Nat \ {0}
  PROVE  MulMod(MulMod(a, b, m), c, m) = MulMod(a, MulMod(b, c, m), m)
<1>1. a * b \in Nat /\ b * c \in Nat /\ (a * b) * c = a * (b * c)
  OBVIOUS
<1>2. MulMod((a * b) % m, c, m) = MulMod(a * b, c, m)
  BY <1>1, MulModReduced
<1>3. MulMod(a, (b * c) % m, m) = MulMod(a, b * c, m)
  BY <1>1, MulModReduced
<1>. QED
  BY <1>1, <1>2, <1>3 DEF MulMod

\* The products of pairs.
LEMMA MulModPairs ==
  ASSUME NEW a \in Nat, NEW b \in Nat, NEW c \in Nat, NEW d \in Nat, NEW m \in Nat \ {0}
  PROVE  MulMod(MulMod(a, b, m), MulMod(c, d, m), m) = MulMod(MulMod(a, c, m), MulMod(b, d, m), m)
<1>1. /\ MulMod(b, c, m) \in Nat /\ MulMod(c, d, m) \in Nat
      /\ MulMod(b, d, m) \in Nat
  BY MulModReduced
<1>2. MulMod(MulMod(a, b, m), MulMod(c, d, m), m) = MulMod(a, MulMod(b, MulMod(c, d, m), m), m)
  BY <1>1, MulModAssociates
<1>3. MulMod(b, MulMod(c, d, m), m) = MulMod(MulMod(b, c, m), d, m)
  BY MulModAssociates
<1>4. MulMod(b, c, m) = MulMod(c, b, m)
  BY MulModReduced
<1>5. MulMod(MulMod(c, b, m), d, m) = MulMod(c, MulMod(b, d, m), m)
  BY MulModAssociates
<1>6. MulMod(a, MulMod(c, MulMod(b, d, m), m), m) = MulMod(MulMod(a, c, m), MulMod(b, d, m), m)
  BY <1>1, MulModAssociates
<1>. QED
  BY <1>2, <1>3, <1>4, <1>5, <1>6
-----------------------------------------------------------------------------
(* Powers.                                                                 *)

\* The powers of a base are multiplied out, each from the one before.
LEMMA PowersStep ==
  ASSUME NEW b \in Nat, NEW m \in Nat \ {0}
  PROVE  /\ Powers(b, m)[0] = 1 % m
         /\ \A e \in Nat : /\ Powers(b, m)[e] \in 0 .. m - 1 /\ Powers(b, m)[e] \in Nat
                           /\ Powers(b, m)[e + 1] = MulMod(Powers(b, m)[e], b, m)
<1>. DEFINE D == Nat \ {0}
            S == 0 .. m - 1
            next == [e \in D |-> e - 1]
            step == [s \in D \X S |-> (s[2] * b) % m]
            out == [e \in Nat |-> 1 % m]
            IsPowers(f) == f = [e \in Nat |-> IF e = 0 THEN 1 % m ELSE (f[e - 1] * b) % m]
<1>1. next \in [D -> Nat] /\ \A e \in D : next[e] < e
  OBVIOUS
<1>2. step \in [D \X S -> S] /\ out \in [Nat -> S]
  <2>1. \A x \in S : x * b \in Nat /\ (x * b) % m \in S
    OBVIOUS
  <2>2. 1 % m \in S
    OBVIOUS
  <2>. HIDE DEF S
  <2>. QED
    BY <2>1, <2>2
<1>3. PICK f \in [Nat -> S] : Recursion(Nat, D, next, step, out, f)
  <2>. HIDE DEF S, next, step, out
  <2>. QED
    BY <1>1, <1>2, DescendingRecursion
<1>4. IsPowers(f)
  <2>1. \A e \in Nat : (IF e \in D THEN step[<<e, f[next[e]]>>] ELSE out[e]) =
                       IF e = 0 THEN 1 % m ELSE (f[e - 1] * b) % m
    <3>1. \A e \in D : f[next[e]] \in S /\ next[e] = e - 1
      BY <1>1
    <3>. HIDE DEF S
    <3>. QED
      BY <3>1
  <2>. HIDE DEF D, next, step, out
  <2>. QED
    BY <1>3, <2>1, Zenon DEF Recursion
<1>. DEFINE g == Powers(b, m)
<1>5. IsPowers(g)
  <2>1. g = CHOOSE h : IsPowers(h)
    BY Zenon DEF Powers
  <2>. HIDE DEF IsPowers, g
  <2>. QED
    BY <1>4, <2>1, Zenon
<1>. HIDE DEF g
<1>6. g[0] = 1 % m /\ \A e \in Nat : g[e + 1] = (g[e] * b) % m
  <2>1. \A e \in Nat : e + 1 # 0 /\ e + 1 \in Nat /\ (e + 1) - 1 = e
    OBVIOUS
  <2>. QED
    BY <1>5, <2>1
<1>. DEFINE Bad == {e \in Nat : g[e] \notin 0 .. m - 1}
<1>7. Bad = {}
  <2>1. SUFFICES ASSUME Bad # {} PROVE FALSE
    OBVIOUS
  <2>2. PICK e \in Bad : \A k \in Bad : e <= k
    BY <2>1, LeastNumber
  <2>3. e \in Nat /\ e # 0
    BY <1>6
  <2>4. e - 1 \in Nat /\ e - 1 \notin Bad /\ (e - 1) + 1 = e
    BY <2>2, <2>3
  <2>5. g[e - 1] * b \in Nat
    BY <2>4
  <2>6. g[e] = (g[e - 1] * b) % m
    BY <1>6, <2>4
  <2>. QED
    BY <2>5, <2>6
<1>8. \A e \in Nat : g[e] \in 0 .. m - 1 /\ g[e] \in Nat
  <2>1. \A x \in 0 .. m - 1 : x \in Nat
    OBVIOUS
  <2>2. \A e \in Nat : g[e] \in 0 .. m - 1
    BY <1>7
  <2>. QED
    BY <2>1, <2>2
<1>9. \A e \in Nat : g[e + 1] = MulMod(g[e], b, m)
  BY <1>6 DEF MulMod
<1>. HIDE DEF Bad
<1>. QED
  BY <1>6, <1>8, <1>9 DEF g

\* Powers of one base are multiplied by adding the exponents.
LEMMA PowersAdd ==
  ASSUME NEW b \in Nat, NEW m \in Nat \ {0}, NEW e \in Nat
  PROVE  \A k \in Nat : Powers(b, m)[e + k] = MulMod(Powers(b, m)[e], Powers(b, m)[k], m)
<1>. DEFINE P == Powers(b, m)
            Bad == {k \in Nat : P[e + k] # MulMod(P[e], P[k], m)}
<1>1. /\ P[0] = 1 % m
      /\ \A k \in Nat : P[k] \in 0 .. m - 1 /\ P[k] \in Nat /\ P[k + 1] = MulMod(P[k], b, m)
  BY PowersStep
<1>. HIDE DEF P
<1>2. SUFFICES ASSUME Bad # {} PROVE FALSE
  BY DEF P
<1>3. PICK k \in Bad : \A j \in Bad : k <= j
  BY <1>2, LeastNumber
<1>4. k # 0
  <2>1. P[e + 0] = P[e]
    OBVIOUS
  <2>2. P[e] \in 0 .. m - 1
    BY <1>1
  <2>3. MulMod(P[e], P[0], m) = P[e]
    BY <1>1, <2>2, MulModOne
  <2>. QED
    BY <2>1, <2>3
<1>5. k - 1 \in Nat /\ k - 1 \notin Bad /\ (k - 1) + 1 = k /\ e + k = (e + (k - 1)) + 1 /\ e + (k - 1) \in Nat
  BY <1>3, <1>4
<1>6. P[e + (k - 1)] = MulMod(P[e], P[k - 1], m)
  BY <1>5
<1>7. P[e + k] = MulMod(MulMod(P[e], P[k - 1], m), b, m)
  BY <1>1, <1>5, <1>6
<1>8. P[e + k] = MulMod(P[e], MulMod(P[k - 1], b, m), m)
  <2>1. P[e] \in Nat /\ P[k - 1] \in Nat
    BY <1>1, <1>5
  <2>. HIDE DEF Bad
  <2>. QED
    BY <1>7, <2>1, MulModAssociates
<1>9. MulMod(P[k - 1], b, m) = P[k]
  BY <1>1, <1>5
<1>. QED
  BY <1>8, <1>9

\* A power of a product is the product of the powers.
LEMMA PowersOfProduct ==
  ASSUME NEW a \in Nat, NEW b \in Nat, NEW m \in Nat \ {0}
  PROVE  \A k \in Nat : Powers(MulMod(a, b, m), m)[k] = MulMod(Powers(a, m)[k], Powers(b, m)[k], m)
<1>. DEFINE P == Powers(a, m)
            Q == Powers(b, m)
            R == Powers(MulMod(a, b, m), m)
            Bad == {k \in Nat : R[k] # MulMod(P[k], Q[k], m)}
<1>0. MulMod(a, b, m) \in Nat
  BY MulModReduced
<1>1. /\ P[0] = 1 % m /\ Q[0] = 1 % m /\ R[0] = 1 % m
      /\ \A k \in Nat : /\ P[k] \in Nat /\ P[k + 1] = MulMod(P[k], a, m)
                        /\ Q[k] \in Nat /\ Q[k + 1] = MulMod(Q[k], b, m)
                        /\ R[k] \in Nat /\ R[k + 1] = MulMod(R[k], MulMod(a, b, m), m)
  <2>1. P[0] = 1 % m /\ \A k \in Nat : P[k] \in Nat /\ P[k + 1] = MulMod(P[k], a, m)
    <3>. HIDE DEF P
    <3>. QED
      BY PowersStep DEF P
  <2>2. Q[0] = 1 % m /\ \A k \in Nat : Q[k] \in Nat /\ Q[k + 1] = MulMod(Q[k], b, m)
    <3>. HIDE DEF Q
    <3>. QED
      BY PowersStep DEF Q
  <2>3. R[0] = 1 % m /\ \A k \in Nat : R[k] \in Nat /\ R[k + 1] = MulMod(R[k], MulMod(a, b, m), m)
    <3>. DEFINE c == MulMod(a, b, m)
    <3>. HIDE DEF c, R
    <3>1. c \in Nat
      BY <1>0 DEF c
    <3>2. R = Powers(c, m)
      BY DEF R, c
    <3>. QED
      BY <3>1, <3>2, PowersStep DEF c
  <2>. HIDE DEF P, Q, R
  <2>. QED
    BY <2>1, <2>2, <2>3
<1>. HIDE DEF P, Q, R
<1>2. SUFFICES ASSUME Bad # {} PROVE FALSE
  BY DEF P, Q, R
<1>3. PICK k \in Bad : \A j \in Bad : k <= j
  BY <1>2, LeastNumber
<1>4. k # 0
  <2>. DEFINE one == 1 % m
  <2>1. one \in 0 .. m - 1
    OBVIOUS
  <2>2. MulMod(one, one, m) = one
    <3>. HIDE DEF one
    <3>1. MulMod(1 % m, one, m) = one
      BY <2>1, MulModOne
    <3>. QED
      BY <3>1 DEF one
  <2>. QED
    BY <1>1, <2>1, <2>2
<1>5. k - 1 \in Nat /\ k - 1 \notin Bad /\ (k - 1) + 1 = k
  BY <1>3, <1>4
<1>6. R[k - 1] = MulMod(P[k - 1], Q[k - 1], m)
  BY <1>5
<1>7. R[k] = MulMod(MulMod(P[k - 1], Q[k - 1], m), MulMod(a, b, m), m)
  BY <1>1, <1>5, <1>6
<1>8. R[k] = MulMod(MulMod(P[k - 1], a, m), MulMod(Q[k - 1], b, m), m)
  <2>1. P[k - 1] \in Nat /\ Q[k - 1] \in Nat
    BY <1>1, <1>5
  <2>. HIDE DEF Bad
  <2>. QED
    BY <1>7, <2>1, MulModPairs
<1>9. MulMod(P[k - 1], a, m) = P[k] /\ MulMod(Q[k - 1], b, m) = Q[k]
  BY <1>1, <1>5
<1>. QED
  BY <1>8, <1>9

\* A power of a power.
LEMMA PowersMultiply ==
  ASSUME NEW b \in Nat, NEW m \in Nat \ {0}, NEW e \in Nat
  PROVE  \A k \in Nat : Powers(b, m)[e * k] = Powers(Powers(b, m)[e], m)[k]
<1>. DEFINE P == Powers(b, m)
            R == Powers(P[e], m)
            Bad == {k \in Nat : P[e * k] # R[k]}
<1>1. P[0] = 1 % m /\ \A k \in Nat : P[k] \in Nat
  BY PowersStep
<1>2. R[0] = 1 % m /\ \A k \in Nat : R[k] \in Nat /\ R[k + 1] = MulMod(R[k], P[e], m)
  <2>. DEFINE x == P[e]
  <2>. HIDE DEF x, R
  <2>1. x \in Nat /\ R = Powers(x, m)
    BY <1>1 DEF R, x
  <2>. QED
    BY <2>1, PowersStep DEF x
<1>3. \A j, k \in Nat : P[j + k] = MulMod(P[j], P[k], m)
  BY PowersAdd
<1>. HIDE DEF P, R
<1>4. SUFFICES ASSUME Bad # {} PROVE FALSE
  BY DEF P, R
<1>5. PICK k \in Bad : \A j \in Bad : k <= j
  BY <1>4, LeastNumber
<1>6. k # 0
  BY <1>1, <1>2
<1>7. k - 1 \in Nat /\ k - 1 \notin Bad /\ (k - 1) + 1 = k /\ e * k = e * (k - 1) + e /\ e * (k - 1) \in Nat
  BY <1>5, <1>6
<1>8. P[e * k] = MulMod(P[e * (k - 1)], P[e], m)
  BY <1>3, <1>7
<1>9. R[k] = MulMod(R[k - 1], P[e], m)
  BY <1>2, <1>7
<1>. QED
  BY <1>7, <1>8, <1>9
-----------------------------------------------------------------------------
(* Square and multiply.                                                    *)

\* The loop of PowerMod is one function.
Squaring(m, f) ==
  f = [s \in Nat \X Nat \X Nat |->
         CASE s[3] = 0                   -> s[1]
           [] s[3] # 0 /\ s[3] % 2 = 0   -> f[<<s[1], (s[2] * s[2]) % m, s[3] \div 2>>]
           [] OTHER                      -> f[<<(s[1] * s[2]) % m, s[2], s[3] - 1>>]]

LEMMA SquaringExists ==
  ASSUME NEW m \in Nat \ {0}
  PROVE  \E f : Squaring(m, f)
<1>. DEFINE X == Nat \X Nat \X Nat
            D == {s \in X : s[3] # 0}
            next == [s \in X |->
                       IF s \notin D THEN s
                       ELSE IF s[3] % 2 = 0 THEN <<s[1], (s[2] * s[2]) % m, s[3] \div 2>>
                       ELSE <<(s[1] * s[2]) % m, s[2], s[3] - 1>>]
            out == [s \in X |-> s[1]]
<1>1. next \in [X -> X]
  <2>1. ASSUME NEW s \in D
        PROVE  /\ <<s[1], (s[2] * s[2]) % m, s[3] \div 2>> \in X
               /\ <<(s[1] * s[2]) % m, s[2], s[3] - 1>> \in X
    <3>1. s[1] \in Nat /\ s[2] \in Nat /\ s[3] \in Nat /\ s[3] # 0
      OBVIOUS
    <3>2. s[2] * s[2] \in Nat /\ s[1] * s[2] \in Nat
      BY <3>1
    <3>3. (s[2] * s[2]) % m \in Nat /\ (s[1] * s[2]) % m \in Nat
      BY <3>2
    <3>4. s[3] \div 2 \in Nat /\ s[3] - 1 \in Nat
      BY <3>1
    <3>. QED
      BY <3>1, <3>3, <3>4
  <2>. QED
    BY <2>1
<1>2. PICK f : Loop(X, D, next, out, f)
  <2>. HIDE DEF X, D, next, out
  <2>. QED
    BY <1>1, TailRecursion
<1>3. Squaring(m, f)
  <2>1. \A s \in X : (IF s \in D THEN f[next[s]] ELSE out[s]) =
          CASE s[3] = 0                   -> s[1]
            [] s[3] # 0 /\ s[3] % 2 = 0   -> f[<<s[1], (s[2] * s[2]) % m, s[3] \div 2>>]
            [] OTHER                      -> f[<<(s[1] * s[2]) % m, s[2], s[3] - 1>>]
    OBVIOUS
  <2>. HIDE DEF D, next, out
  <2>. QED
    BY <1>2, <2>1, Zenon DEF Squaring, Loop
<1>. QED
  BY <1>3, Zenon

\* What is left to compute at <<acc, x, k>> is the product of acc and the k-th
\* power of x.
LEMMA SquaringIsPower ==
  ASSUME NEW m \in Nat \ {0}, NEW f, Squaring(m, f)
  PROVE  \A k \in Nat : \A acc \in 0 .. m - 1, x \in Nat :
           f[<<acc, x, k>>] = MulMod(acc, Powers(x, m)[k], m)
<1>. DEFINE Bad == {k \in Nat : \E acc \in 0 .. m - 1, x \in Nat :
                      f[<<acc, x, k>>] # MulMod(acc, Powers(x, m)[k], m)}
<1>1. SUFFICES ASSUME Bad # {} PROVE FALSE
  OBVIOUS
<1>2. PICK k \in Bad : \A j \in Bad : k <= j
  BY <1>1, LeastNumber
<1>3. PICK acc \in 0 .. m - 1, x \in Nat : f[<<acc, x, k>>] # MulMod(acc, Powers(x, m)[k], m)
  OBVIOUS
<1>4. k \in Nat
  OBVIOUS
<1>. DEFINE P == Powers(x, m)
<1>5. P[0] = 1 % m /\ \A i \in Nat : P[i] \in Nat /\ P[i + 1] = MulMod(P[i], x, m)
  BY PowersStep
<1>6. ASSUME NEW j \in Nat, j < k, NEW a \in 0 .. m - 1, NEW y \in Nat
      PROVE  f[<<a, y, j>>] = MulMod(a, Powers(y, m)[j], m)
  <2>1. j \notin Bad
    BY <1>2, <1>4, <1>6
  <2>. QED
    BY <2>1
<1>. HIDE DEF Bad, P
<1>7. f[<<acc, x, k>>] =
        CASE k = 0                -> acc
          [] k # 0 /\ k % 2 = 0   -> f[<<acc, (x * x) % m, k \div 2>>]
          [] OTHER                -> f[<<(acc * x) % m, x, k - 1>>]
  <2>1. <<acc, x, k>> \in Nat \X Nat \X Nat
    BY <1>4
  <2>2. <<acc, x, k>>[1] = acc /\ <<acc, x, k>>[2] = x /\ <<acc, x, k>>[3] = k
    OBVIOUS
  <2>. QED
    BY <2>1, <2>2, Zenon DEF Squaring
<1>8. CASE k = 0
  <2>1. f[<<acc, x, k>>] = acc
    BY <1>7, <1>8
  <2>2. MulMod(acc, P[0], m) = acc
    BY <1>5, MulModOne
  <2>. QED
    BY <1>3, <1>8, <2>1, <2>2 DEF P
<1>9. CASE k # 0 /\ k % 2 = 0
  <2>. DEFINE h == k \div 2
  <2>1. h \in Nat /\ h < k /\ h + h = k
    BY <1>4, <1>9
  <2>. HIDE DEF h
  <2>2. MulMod(x, x, m) \in Nat
    BY MulModReduced
  <2>3. f[<<acc, x, k>>] = f[<<acc, MulMod(x, x, m), h>>]
    BY <1>7, <1>9 DEF MulMod, h
  <2>4. f[<<acc, MulMod(x, x, m), h>>] = MulMod(acc, Powers(MulMod(x, x, m), m)[h], m)
    BY <1>6, <2>1, <2>2
  <2>5. Powers(MulMod(x, x, m), m)[h] = MulMod(P[h], P[h], m)
    BY <2>1, PowersOfProduct DEF P
  <2>6. P[h + h] = MulMod(P[h], P[h], m)
    BY <2>1, PowersAdd DEF P
  <2>. QED
    BY <1>3, <2>1, <2>3, <2>4, <2>5, <2>6 DEF P
<1>10. CASE k # 0 /\ k % 2 # 0
  <2>. DEFINE h == k - 1
  <2>1. h \in Nat /\ h < k /\ h + 1 = k
    BY <1>4, <1>10
  <2>. HIDE DEF h
  <2>2. MulMod(acc, x, m) \in 0 .. m - 1 /\ acc \in Nat
    <3>1. acc \in Nat
      OBVIOUS
    <3>2. MulMod(acc, x, m) \in 0 .. m - 1
      BY <3>1, MulModReduced
    <3>. QED
      BY <3>1, <3>2
  <2>3. f[<<acc, x, k>>] = f[<<MulMod(acc, x, m), x, h>>]
    BY <1>7, <1>10 DEF MulMod, h
  <2>4. f[<<MulMod(acc, x, m), x, h>>] = MulMod(MulMod(acc, x, m), P[h], m)
    BY <1>6, <2>1, <2>2 DEF P
  <2>5. P[h] \in Nat /\ P[k] = MulMod(P[h], x, m)
    BY <1>5, <2>1
  <2>6. MulMod(MulMod(acc, x, m), P[h], m) = MulMod(acc, MulMod(x, P[h], m), m)
    BY <2>2, <2>5, MulModAssociates
  <2>7. MulMod(x, P[h], m) = MulMod(P[h], x, m)
    BY <2>5, MulModReduced
  <2>. QED
    BY <1>3, <2>3, <2>4, <2>5, <2>6, <2>7 DEF P
<1>. QED
  BY <1>8, <1>9, <1>10

\* PowerMod computes a power of the residue of its base.
LEMMA PowerModIsPower ==
  ASSUME NEW b \in Int, NEW e \in Nat, NEW m \in Nat \ {0}
  PROVE  PowerMod(b, e, m) = Powers(b % m, m)[e]
<1>. DEFINE f == CHOOSE f : Squaring(m, f)
            x == b % m
<1>1. Squaring(m, f)
  BY SquaringExists, Zenon
<1>2. ~ (e < 0)
  OBVIOUS
<1>3. PowerMod(b, e, m) = f[<<1 % m, x, e>>]
  BY <1>2, Zenon DEF PowerMod, Squaring
<1>. HIDE DEF f
<1>4. 1 % m \in 0 .. m - 1 /\ x \in Nat
  OBVIOUS
<1>. HIDE DEF x
<1>5. f[<<1 % m, x, e>>] = MulMod(1 % m, Powers(x, m)[e], m)
  BY <1>1, <1>4, SquaringIsPower
<1>6. Powers(x, m)[e] \in 0 .. m - 1
  BY <1>4, PowersStep
<1>. QED
  BY <1>3, <1>5, <1>6, MulModOne DEF x

LEMMA PowerIsResidue ==
  ASSUME NEW b \in Int, NEW e \in Nat, NEW m \in Nat \ {0}
  PROVE  PowerMod(b, e, m) \in 0 .. m - 1
<1>. DEFINE x == b % m
<1>1. x \in Nat
  OBVIOUS
<1>. HIDE DEF x
<1>2. Powers(x, m)[e] \in 0 .. m - 1
  BY <1>1, PowersStep
<1>. QED
  BY <1>2, PowerModIsPower DEF x

\* For a negative exponent there has to be an inverse.
Invertible(b, m) == \E x \in 1 .. m - 1 : ((b % m) * x) % m = 1
LEMMA PowerModIsRepeated ==
  ASSUME NEW b \in Int, NEW e \in Int, NEW m \in Nat \ {0}, e < 0 => Invertible(b, m)
  PROVE  PowerMod(b, e, m) = Repeated(b, e, m) /\ Repeated(b, e, m) \in 0 .. m - 1
<1>1. CASE e >= 0
  <2>1. e \in Nat /\ ~ (e < 0)
    BY <1>1
  <2>2. PowerMod(b, e, m) = Powers(b % m, m)[e] /\ PowerMod(b, e, m) \in 0 .. m - 1
    BY <2>1, PowerModIsPower, PowerIsResidue
  <2>3. Repeated(b, e, m) = Powers(b % m, m)[e]
    BY <2>1 DEF Repeated
  <2>. QED
    BY <2>2, <2>3
<1>2. CASE e < 0
  <2>. DEFINE k == 0 - e
              x == InvMod(b % m, m)
  <2>1. k \in Nat /\ ~ (k < 0)
    BY <1>2
  <2>2. x \in 1 .. m - 1
    BY <1>2, Zenon DEF InvMod, Invertible
  <2>3. x \in Int /\ x % m = x /\ x \in Nat
    <3>. HIDE DEF x
    <3>. QED
      BY <2>2
  <2>. HIDE DEF k
  <2>4. PowerMod(x, k, m) = Powers(x % m, m)[k] /\ PowerMod(x, k, m) \in 0 .. m - 1
    <3>. HIDE DEF x
    <3>. QED
      BY <2>1, <2>3, PowerModIsPower, PowerIsResidue
  <2>. DEFINE f == CHOOSE f : Squaring(m, f)
  <2>5. PowerMod(x, k, m) = f[<<1 % m, x % m, k>>]
    BY <2>1, Zenon DEF PowerMod, Squaring
  <2>6. PowerMod(b, e, m) = f[<<1 % m, x, k>>]
    BY <1>2, Zenon DEF PowerMod, Squaring, k
  <2>7. Repeated(b, e, m) = Powers(x, m)[k]
    BY <1>2 DEF Repeated, k
  <2>. HIDE DEF x, f
  <2>. QED
    BY <2>3, <2>4, <2>5, <2>6, <2>7
<1>. QED
  BY <1>1, <1>2
-----------------------------------------------------------------------------
(* Products of powers.                                                     *)

\* The products of the first powers of a list.
FirstPowers(bases, exps, m, f) ==
  f = [i \in 0 .. Len(bases) |->
         IF i = 0 THEN 1 % m ELSE (f[i - 1] * PowerMod(bases[i], exps[i], m)) % m]
Product(bases, exps, m) == CHOOSE f : FirstPowers(bases, exps, m, f)

LEMMA ProductStep ==
  ASSUME NEW bases, Len(bases) \in Nat, NEW exps, NEW m \in Nat \ {0},
         \A i \in 1 .. Len(bases) : PowerMod(bases[i], exps[i], m) \in 0 .. m - 1
  PROVE  /\ ProductOfPowers(bases, exps, m) = Product(bases, exps, m)[Len(bases)]
         /\ Product(bases, exps, m)[0] = 1 % m
         /\ \A i \in 0 .. Len(bases) :
              /\ Product(bases, exps, m)[i] \in 0 .. m - 1 /\ Product(bases, exps, m)[i] \in Nat
              /\ i # 0 => Product(bases, exps, m)[i] =
                            MulMod(Product(bases, exps, m)[i - 1], PowerMod(bases[i], exps[i], m), m)
<1>. DEFINE n == Len(bases)
            X == 0 .. n
            D == 1 .. n
            S == 0 .. m - 1
            p == [i \in D |-> PowerMod(bases[i], exps[i], m)]
            next == [i \in D |-> i - 1]
            step == [s \in D \X S |-> (s[2] * p[s[1]]) % m]
            out == [i \in X |-> 1 % m]
            Is(f) == FirstPowers(bases, exps, m, f)
<1>1. /\ next \in [D -> X] /\ (\A i \in D : next[i] < i)
      /\ D \in SUBSET X /\ \A i \in X : i \in Nat
  OBVIOUS
<1>2. step \in [D \X S -> S] /\ out \in [X -> S]
  <2>1. \A i \in D : p[i] \in S
    OBVIOUS
  <2>2. \A x, y \in S : (x * y) % m \in S
    <3>1. \A x, y \in S : x * y \in Nat
      OBVIOUS
    <3>. QED
      BY <3>1
  <2>3. 1 % m \in S
    OBVIOUS
  <2>. HIDE DEF S, D, p
  <2>. QED
    BY <2>1, <2>2, <2>3
<1>3. PICK f \in [X -> S] : Recursion(X, D, next, step, out, f)
  <2>. HIDE DEF X, D, S, next, step, out
  <2>. QED
    BY <1>1, <1>2, DescendingRecursion
<1>4. Is(f)
  <2>1. ASSUME NEW i \in X
        PROVE  (IF i \in D THEN step[<<i, f[next[i]]>>] ELSE out[i]) =
                 IF i = 0 THEN 1 % m ELSE (f[i - 1] * PowerMod(bases[i], exps[i], m)) % m
    <3>1. CASE i \in D
      <4>1. f[next[i]] \in S /\ next[i] = i - 1 /\ i # 0
        BY <1>1, <3>1
      <4>2. step[<<i, f[next[i]]>>] = (f[next[i]] * p[i]) % m
        <5>. HIDE DEF S, D, p
        <5>. QED
          BY <3>1, <4>1
      <4>. HIDE DEF step, next
      <4>. QED
        BY <3>1, <4>1, <4>2
    <3>2. CASE i \notin D
      BY <3>2
    <3>. QED
      BY <3>1, <3>2
  <2>. HIDE DEF D, next, step, out
  <2>2. f = [i \in X |-> IF i \in D THEN step[<<i, f[next[i]]>>] ELSE out[i]]
    BY <1>3, Zenon DEF Recursion
  <2>3. f = [i \in X |-> IF i = 0 THEN 1 % m ELSE (f[i - 1] * PowerMod(bases[i], exps[i], m)) % m]
    <3>. HIDE DEF X
    <3>. QED
      BY <2>1, <2>2, Zenon
  <2>. QED
    BY <2>3, Zenon DEF FirstPowers
<1>. DEFINE g == Product(bases, exps, m)
<1>5. Is(g)
  <2>. HIDE DEF Is
  <2>1. g = CHOOSE h : Is(h)
    BY Zenon DEF Product, Is
  <2>. HIDE DEF g
  <2>. QED
    BY <1>4, <2>1, Zenon
<1>6. ProductOfPowers(bases, exps, m) = g[n]
  BY Zenon DEF ProductOfPowers, Product, FirstPowers
<1>. HIDE DEF g
<1>7. /\ g[0] = 1 % m
      /\ \A i \in D : g[i] = MulMod(g[i - 1], PowerMod(bases[i], exps[i], m), m)
  <2>1. 0 \in X /\ \A i \in D : i \in X /\ i # 0
    OBVIOUS
  <2>. HIDE DEF X, D
  <2>. QED
    BY <1>5, <2>1 DEF FirstPowers, MulMod, X
<1>. DEFINE Bad == {i \in X : g[i] \notin S}
<1>8. Bad = {}
  <2>1. SUFFICES ASSUME Bad # {} PROVE FALSE
    OBVIOUS
  <2>2. PICK i \in Bad : \A j \in Bad : i <= j
    <3>1. Bad \subseteq Nat
      OBVIOUS
    <3>. HIDE DEF Bad
    <3>. QED
      BY <2>1, <3>1, LeastNumber
  <2>3. i \in X /\ i # 0 /\ i \in Nat
    BY <1>7
  <2>4. i \in D /\ i - 1 \in X /\ i - 1 \notin Bad
    BY <2>2, <2>3
  <2>5. g[i - 1] \in Nat /\ PowerMod(bases[i], exps[i], m) \in Nat
    <3>1. \A x \in S : x \in Nat
      OBVIOUS
    <3>2. g[i - 1] \in S /\ PowerMod(bases[i], exps[i], m) \in S
      BY <2>4
    <3>. HIDE DEF S
    <3>. QED
      BY <3>1, <3>2
  <2>6. g[i] \in S
    <3>1. g[i] = MulMod(g[i - 1], PowerMod(bases[i], exps[i], m), m)
      BY <1>7, <2>4
    <3>2. MulMod(g[i - 1], PowerMod(bases[i], exps[i], m), m) \in 0 .. m - 1
      <4>. HIDE DEF Bad
      <4>. QED
        BY <2>5, MulModReduced
    <3>. QED
      BY <3>1, <3>2
  <2>. QED
    BY <2>6
<1>9. \A i \in X : g[i] \in S /\ g[i] \in Nat
  <2>1. \A x \in S : x \in Nat
    OBVIOUS
  <2>2. \A i \in X : g[i] \in S
    BY <1>8
  <2>. QED
    BY <2>1, <2>2
<1>10. \A i \in X : i # 0 => i \in D
  OBVIOUS
<1>. HIDE DEF X, D, S, Bad
<1>. QED
  BY <1>6, <1>7, <1>9, <1>10 DEF g, X, S

\* The powers of a list of bases with natural numbers as exponents.
Lists(bases, exps) ==
  bases \in Seq(Nat) /\ \A i \in 1 .. Len(bases) : exps[i] \in Nat

LEMMA NaturalProduct ==
  ASSUME NEW bases, NEW exps, Lists(bases, exps), NEW m \in Nat \ {0}
  PROVE  /\ ProductOfPowers(bases, exps, m) = Product(bases, exps, m)[Len(bases)]
         /\ ProductOfPowers(bases, exps, m) \in 0 .. m - 1
         /\ Product(bases, exps, m)[0] = 1 % m
         /\ \A i \in 1 .. Len(bases) :
              /\ Product(bases, exps, m)[i - 1] \in Nat
              /\ bases[i] % m \in Nat /\ exps[i] \in Nat
              /\ Powers(bases[i] % m, m)[exps[i]] \in Nat
              /\ Product(bases, exps, m)[i] =
                   MulMod(Product(bases, exps, m)[i - 1], Powers(bases[i] % m, m)[exps[i]], m)
<1>1. Len(bases) \in Nat /\ \A i \in 1 .. Len(bases) : bases[i] \in Nat /\ exps[i] \in Nat
  BY DEF Lists
<1>2. \A b \in Nat : b \in Int /\ b % m \in Nat
  OBVIOUS
<1>3. \A i \in 1 .. Len(bases) : /\ PowerMod(bases[i], exps[i], m) = Powers(bases[i] % m, m)[exps[i]]
                                /\ PowerMod(bases[i], exps[i], m) \in 0 .. m - 1
  BY <1>1, <1>2, PowerModIsPower, PowerIsResidue
<1>4. \A i \in 1 .. Len(bases) : Powers(bases[i] % m, m)[exps[i]] \in Nat
  BY <1>1, <1>2, PowersStep
<1>5. \A i \in 1 .. Len(bases) : i \in 0 .. Len(bases) /\ i - 1 \in 0 .. Len(bases) /\ i # 0
  BY <1>1
<1>6. Len(bases) \in 0 .. Len(bases)
  BY <1>1
<1>7. /\ ProductOfPowers(bases, exps, m) = Product(bases, exps, m)[Len(bases)]
      /\ Product(bases, exps, m)[0] = 1 % m
      /\ \A i \in 0 .. Len(bases) :
           /\ Product(bases, exps, m)[i] \in 0 .. m - 1 /\ Product(bases, exps, m)[i] \in Nat
           /\ i # 0 => Product(bases, exps, m)[i] =
                         MulMod(Product(bases, exps, m)[i - 1], PowerMod(bases[i], exps[i], m), m)
  BY <1>1, <1>3, ProductStep
<1>. QED
  BY <1>1, <1>2, <1>3, <1>4, <1>5, <1>6, <1>7

\* Products are multiplied by adding the exponents.
LEMMA ProductAdd ==
  ASSUME NEW bases, NEW exps, NEW more, NEW sum, NEW m \in Nat \ {0},
         Lists(bases, exps), Lists(bases, more),
         \A i \in 1 .. Len(bases) : sum[i] = exps[i] + more[i]
  PROVE  ProductOfPowers(bases, sum, m) =
           MulMod(ProductOfPowers(bases, exps, m), ProductOfPowers(bases, more, m), m)
<1>. DEFINE n == Len(bases)
            P == Product(bases, exps, m)
            Q == Product(bases, more, m)
            R == Product(bases, sum, m)
            q(i, e) == Powers(bases[i] % m, m)[e]
            Bad == {i \in 0 .. n : R[i] # MulMod(P[i], Q[i], m)}
<1>1. n \in Nat /\ \A i \in 1 .. n : exps[i] \in Nat /\ more[i] \in Nat /\ sum[i] \in Nat
  BY DEF Lists
<1>2. Lists(bases, sum)
  BY <1>1 DEF Lists
<1>3. /\ ProductOfPowers(bases, exps, m) = P[n] /\ P[0] = 1 % m
      /\ \A i \in 1 .. n : /\ P[i - 1] \in Nat /\ q(i, exps[i]) \in Nat /\ bases[i] % m \in Nat
                           /\ P[i] = MulMod(P[i - 1], q(i, exps[i]), m)
  BY NaturalProduct
<1>4. /\ ProductOfPowers(bases, more, m) = Q[n] /\ Q[0] = 1 % m
      /\ \A i \in 1 .. n : /\ Q[i - 1] \in Nat /\ q(i, more[i]) \in Nat
                           /\ Q[i] = MulMod(Q[i - 1], q(i, more[i]), m)
  BY NaturalProduct
<1>5. /\ ProductOfPowers(bases, sum, m) = R[n] /\ R[0] = 1 % m
      /\ \A i \in 1 .. n : R[i] = MulMod(R[i - 1], q(i, sum[i]), m)
  BY <1>2, NaturalProduct
<1>6. \A i \in 1 .. n : q(i, sum[i]) = MulMod(q(i, exps[i]), q(i, more[i]), m)
  <2>1. ASSUME NEW i \in 1 .. n PROVE q(i, exps[i] + more[i]) = MulMod(q(i, exps[i]), q(i, more[i]), m)
    <3>. DEFINE b == bases[i] % m
                e == exps[i]
                d == more[i]
    <3>1. b \in Nat /\ e \in Nat /\ d \in Nat
      BY <1>1, <1>3
    <3>. HIDE DEF b, e, d
    <3>2. Powers(b, m)[e + d] = MulMod(Powers(b, m)[e], Powers(b, m)[d], m)
      BY <3>1, PowersAdd
    <3>. QED
      BY <3>2 DEF b, e, d
  <2>2. \A i \in 1 .. n : sum[i] = exps[i] + more[i]
    OBVIOUS
  <2>. HIDE DEF q, n
  <2>. QED
    BY <2>1, <2>2
<1>. HIDE DEF P, Q, R, q, n
<1>7. Bad = {}
  <2>1. SUFFICES ASSUME Bad # {} PROVE FALSE
    OBVIOUS
  <2>2. PICK i \in Bad : \A j \in Bad : i <= j
    <3>1. Bad \subseteq Nat
      BY <1>1
    <3>. HIDE DEF Bad
    <3>. QED
      BY <2>1, <3>1, LeastNumber
  <2>3. i \in 0 .. n /\ R[i] # MulMod(P[i], Q[i], m)
    OBVIOUS
  <2>4. i # 0
    <3>1. 1 % m \in 0 .. m - 1
      OBVIOUS
    <3>. QED
      BY <1>3, <1>4, <1>5, <2>3, <3>1, MulModOne
  <2>5. i \in 1 .. n /\ i - 1 \in 0 .. n /\ i - 1 \notin Bad
    BY <1>1, <2>2, <2>3, <2>4
  <2>6. R[i - 1] = MulMod(P[i - 1], Q[i - 1], m)
    BY <2>5
  <2>. HIDE DEF Bad
  <2>7. R[i] = MulMod(MulMod(P[i - 1], Q[i - 1], m), MulMod(q(i, exps[i]), q(i, more[i]), m), m)
    BY <1>5, <1>6, <2>5, <2>6
  <2>8. R[i] = MulMod(MulMod(P[i - 1], q(i, exps[i]), m), MulMod(Q[i - 1], q(i, more[i]), m), m)
    <3>1. P[i - 1] \in Nat /\ Q[i - 1] \in Nat /\ q(i, exps[i]) \in Nat /\ q(i, more[i]) \in Nat
      BY <1>3, <1>4, <2>5
    <3>. QED
      BY <2>7, <3>1, MulModPairs
  <2>. QED
    BY <1>3, <1>4, <2>3, <2>5, <2>8
<1>8. n \in 0 .. n
  BY <1>1
<1>. QED
  BY <1>3, <1>4, <1>5, <1>7, <1>8

\* A power of a product multiplies the exponents.
LEMMA ProductMultiply ==
  ASSUME NEW bases, NEW exps, NEW times, NEW k \in Nat, NEW m \in Nat \ {0},
         Lists(bases, exps), \A i \in 1 .. Len(bases) : times[i] = exps[i] * k
  PROVE  ProductOfPowers(bases, times, m) = Powers(ProductOfPowers(bases, exps, m), m)[k]
<1>. DEFINE n == Len(bases)
            P == Product(bases, exps, m)
            R == Product(bases, times, m)
            q(i, e) == Powers(bases[i] % m, m)[e]
            Bad == {i \in 0 .. n : R[i] # Powers(P[i], m)[k]}
<1>1. n \in Nat /\ \A i \in 1 .. n : exps[i] \in Nat /\ times[i] \in Nat
  BY DEF Lists
<1>2. Lists(bases, times)
  BY <1>1 DEF Lists
<1>3. /\ ProductOfPowers(bases, exps, m) = P[n] /\ P[0] = 1 % m
      /\ \A i \in 1 .. n : /\ P[i - 1] \in Nat /\ q(i, exps[i]) \in Nat /\ bases[i] % m \in Nat
                           /\ P[i] = MulMod(P[i - 1], q(i, exps[i]), m)
  BY NaturalProduct
<1>4. /\ ProductOfPowers(bases, times, m) = R[n] /\ R[0] = 1 % m
      /\ \A i \in 1 .. n : R[i] = MulMod(R[i - 1], q(i, times[i]), m)
  BY <1>2, NaturalProduct
<1>5. \A i \in 1 .. n : q(i, times[i]) = Powers(q(i, exps[i]), m)[k]
  <2>1. ASSUME NEW i \in 1 .. n PROVE q(i, exps[i] * k) = Powers(q(i, exps[i]), m)[k]
    <3>. DEFINE b == bases[i] % m
                e == exps[i]
    <3>1. b \in Nat /\ e \in Nat
      BY <1>1, <1>3
    <3>. HIDE DEF b, e
    <3>2. Powers(b, m)[e * k] = Powers(Powers(b, m)[e], m)[k]
      BY <3>1, PowersMultiply
    <3>. QED
      BY <3>2 DEF b, e
  <2>2. \A i \in 1 .. n : times[i] = exps[i] * k
    OBVIOUS
  <2>. HIDE DEF q, n
  <2>. QED
    BY <2>1, <2>2
<1>6. Powers(1 % m, m)[k] = 1 % m
  <2>. DEFINE one == 1 % m
              None == {j \in Nat : Powers(one, m)[j] # one}
  <2>1. one \in 0 .. m - 1 /\ one \in Nat
    OBVIOUS
  <2>2. MulMod(one, one, m) = one
    BY <2>1, MulModOne
  <2>. HIDE DEF one
  <2>3. Powers(one, m)[0] = one /\ \A j \in Nat : Powers(one, m)[j + 1] = MulMod(Powers(one, m)[j], one, m)
    BY <2>1, PowersStep DEF one
  <2>4. None = {}
    <3>1. SUFFICES ASSUME None # {} PROVE FALSE
      OBVIOUS
    <3>2. PICK j \in None : \A i \in None : j <= i
      BY <3>1, LeastNumber
    <3>3. j - 1 \in Nat /\ j - 1 \notin None /\ (j - 1) + 1 = j
      BY <2>3, <3>2
    <3>4. Powers(one, m)[j - 1] = one
      BY <3>3
    <3>. QED
      BY <2>2, <2>3, <3>3, <3>4
  <2>. QED
    BY <2>4 DEF one
<1>. HIDE DEF P, R, q, n
<1>7. Bad = {}
  <2>1. SUFFICES ASSUME Bad # {} PROVE FALSE
    OBVIOUS
  <2>2. PICK i \in Bad : \A j \in Bad : i <= j
    <3>1. Bad \subseteq Nat
      BY <1>1
    <3>. HIDE DEF Bad
    <3>. QED
      BY <2>1, <3>1, LeastNumber
  <2>3. i \in 0 .. n /\ R[i] # Powers(P[i], m)[k]
    OBVIOUS
  <2>4. i # 0
    BY <1>3, <1>4, <1>6, <2>3
  <2>5. i \in 1 .. n /\ i - 1 \in 0 .. n /\ i - 1 \notin Bad
    BY <1>1, <2>2, <2>3, <2>4
  <2>6. R[i - 1] = Powers(P[i - 1], m)[k]
    BY <2>5
  <2>. HIDE DEF Bad
  <2>7. R[i] = MulMod(Powers(P[i - 1], m)[k], Powers(q(i, exps[i]), m)[k], m)
    BY <1>4, <1>5, <2>5, <2>6
  <2>8. Powers(MulMod(P[i - 1], q(i, exps[i]), m), m)[k] =
          MulMod(Powers(P[i - 1], m)[k], Powers(q(i, exps[i]), m)[k], m)
    <3>. DEFINE x == P[i - 1]
                y == q(i, exps[i])
    <3>1. x \in Nat /\ y \in Nat
      BY <1>3, <2>5
    <3>. HIDE DEF x, y
    <3>2. Powers(MulMod(x, y, m), m)[k] = MulMod(Powers(x, m)[k], Powers(y, m)[k], m)
      BY <3>1, PowersOfProduct
    <3>. QED
      BY <3>2 DEF x, y
  <2>. QED
    BY <1>3, <2>3, <2>5, <2>7, <2>8
<1>8. n \in 0 .. n
  BY <1>1
<1>. QED
  BY <1>3, <1>4, <1>7, <1>8

\* The product depends on no more than the exponents of the bases; with all of
\* them 0 it is 1.
LEMMA ProductSame ==
  ASSUME NEW bases, NEW exps, NEW others, NEW m \in Nat \ {0}, Lists(bases, exps),
         \A i \in 1 .. Len(bases) : others[i] = exps[i]
  PROVE  ProductOfPowers(bases, others, m) = ProductOfPowers(bases, exps, m)
<1>1. \A i \in 1 .. Len(bases) : others[i] = exps[i] * 1
  BY DEF Lists
<1>2. ProductOfPowers(bases, others, m) = Powers(ProductOfPowers(bases, exps, m), m)[1]
  BY <1>1, ProductMultiply
<1>3. ProductOfPowers(bases, exps, m) \in 0 .. m - 1
  BY NaturalProduct
<1>. DEFINE p == ProductOfPowers(bases, exps, m)
<1>4. p \in Nat
  BY <1>3
<1>. HIDE DEF p
<1>5. Powers(p, m)[0] = 1 % m /\ Powers(p, m)[0 + 1] = MulMod(Powers(p, m)[0], p, m)
  BY <1>4, PowersStep
<1>6. 0 + 1 = 1
  OBVIOUS
<1>. QED
  BY <1>2, <1>3, <1>5, <1>6, MulModOne DEF p

NoneBut(k, bases, exps) == \A i \in 1 .. Len(bases) : i # k => exps[i] = 0
LEMMA ProductOfNone ==
  ASSUME NEW bases, NEW exps, NEW m \in Nat \ {0}, Lists(bases, exps), NoneBut(0, bases, exps)
  PROVE  ProductOfPowers(bases, exps, m) = 1 % m
<1>. DEFINE n == Len(bases)
            P == Product(bases, exps, m)
            Good == {i \in 0 .. n : P[i] = 1 % m}
<1>1. n \in Nat
  BY DEF Lists
<1>2. /\ ProductOfPowers(bases, exps, m) = P[n] /\ P[0] = 1 % m
      /\ \A i \in 1 .. n : P[i] = MulMod(P[i - 1], Powers(bases[i] % m, m)[exps[i]], m)
  BY NaturalProduct
<1>3. \A i \in 1 .. n : Powers(bases[i] % m, m)[exps[i]] = 1 % m
  <2>0. \A i \in 1 .. n : exps[i] = 0
    BY <1>1 DEF NoneBut
  <2>1. \A i \in 1 .. n : bases[i] % m \in Nat
    BY NaturalProduct
  <2>. QED
    <3>1. \A b \in Nat : Powers(b, m)[0] = 1 % m
      BY PowersStep
    <3>. QED
      BY <2>0, <2>1, <3>1
<1>. HIDE DEF P, n
<1>4. MulMod(1 % m, 1 % m, m) = 1 % m
  BY MulModOne
<1>5. 0 \in Good /\ \A i \in 1 .. n : i - 1 \in Good => i \in Good
  BY <1>1, <1>2, <1>3, <1>4
<1>6. \A i \in 0 .. n : i \in Good
  <2>. HIDE DEF Good
  <2>. QED
    BY <1>1, <1>5, Counting
<1>. QED
  BY <1>1, <1>2, <1>6

\* With all but one of them 0 it is a power of that base.
LEMMA ProductOfOne ==
  ASSUME NEW bases, NEW exps, NEW m \in Nat \ {0}, Lists(bases, exps)
  PROVE  \A k \in 1 .. Len(bases) : NoneBut(k, bases, exps) =>
           ProductOfPowers(bases, exps, m) = Powers(bases[k] % m, m)[exps[k]]
<1>. DEFINE n == Len(bases)
            P == Product(bases, exps, m)
            q(i, e) == Powers(bases[i] % m, m)[e]
<1>2. /\ ProductOfPowers(bases, exps, m) = P[n] /\ P[0] = 1 % m
      /\ \A i \in 1 .. n : /\ bases[i] % m \in Nat /\ exps[i] \in Nat
                           /\ P[i] = MulMod(P[i - 1], Powers(bases[i] % m, m)[exps[i]], m)
  BY NaturalProduct
<1>. SUFFICES ASSUME NEW k \in 1 .. n, NoneBut(k, bases, exps)
              PROVE  ProductOfPowers(bases, exps, m) = q(k, exps[k])
  OBVIOUS
<1>1. n \in Nat /\ k \in 1 .. n
  BY DEF Lists
<1>3. \A i \in 1 .. n : q(i, 0) = 1 % m /\ q(i, exps[i]) \in 0 .. m - 1
  BY <1>2, PowersStep
<1>4. \A i \in 1 .. n : i # k => exps[i] = 0
  BY DEF NoneBut
<1>11. \A i \in 1 .. n : P[i] = MulMod(P[i - 1], q(i, exps[i]), m)
  BY <1>2
<1>. HIDE DEF P, n, q
<1>. DEFINE Good == {i \in 0 .. n : P[i] = IF i < k THEN 1 % m ELSE q(k, exps[k])}
<1>5. \A a \in 0 .. m - 1 : MulMod(a, 1 % m, m) = a /\ MulMod(1 % m, a, m) = a
  BY MulModOne
<1>6. 1 % m \in 0 .. m - 1
  OBVIOUS
<1>7. ASSUME NEW i \in 1 .. n, i - 1 \in Good PROVE i \in Good
  <2>1. CASE i = k
    <3>1. P[i - 1] = 1 % m
      BY <1>7, <2>1
    <3>2. P[i] = MulMod(1 % m, q(k, exps[k]), m)
      BY <1>11, <2>1, <3>1
    <3>3. P[i] = q(k, exps[k])
      BY <1>1, <1>3, <1>5, <3>2
    <3>. QED
      BY <2>1, <3>3
  <2>2. CASE i # k
    <3>1. P[i - 1] \in 0 .. m - 1
      BY <1>1, <1>3, <1>6, <1>7
    <3>2. P[i] = P[i - 1]
      BY <1>3, <1>4, <1>5, <1>11, <2>2, <3>1
    <3>. QED
      BY <1>7, <2>2, <3>2
  <2>. QED
    BY <2>1, <2>2
<1>8. 0 \in Good
  BY <1>1, <1>2
<1>9. \A i \in 0 .. n : i \in Good
  <2>. HIDE DEF Good
  <2>. QED
    BY <1>1, <1>7, <1>8, Counting
<1>10. n \in Good
  BY <1>1, <1>9
<1>. QED
  BY <1>1, <1>2, <1>10 DEF q
-----------------------------------------------------------------------------
(* Digits.                                                                 *)

\* The powers of two, each twice the one before.
LEMMA TwoToStep ==
  /\ TwoTo[0] = 1
  /\ \A k \in Nat : TwoTo[k] \in Nat \ {0} /\ TwoTo[k] > k /\ TwoTo[k + 1] = 2 * TwoTo[k]
<1>. DEFINE D == Nat \ {0}
            next == [k \in D |-> k - 1]
            step == [s \in D \X Nat |-> 2 * s[2]]
            out == [k \in Nat |-> 1]
            Is(f) == f = [k \in Nat |-> IF k = 0 THEN 1 ELSE 2 * f[k - 1]]
<1>1. next \in [D -> Nat] /\ \A k \in D : next[k] < k
  OBVIOUS
<1>2. step \in [D \X Nat -> Nat] /\ out \in [Nat -> Nat] /\ D \in SUBSET Nat
  OBVIOUS
<1>3. PICK f \in [Nat -> Nat] : Recursion(Nat, D, next, step, out, f)
  <2>. HIDE DEF D, next, step, out
  <2>. QED
    BY <1>1, <1>2, DescendingRecursion
<1>4. Is(f)
  <2>1. \A k \in Nat : (IF k \in D THEN step[<<k, f[next[k]]>>] ELSE out[k]) =
                       IF k = 0 THEN 1 ELSE 2 * f[k - 1]
    OBVIOUS
  <2>. HIDE DEF D, next, step, out
  <2>. QED
    BY <1>3, <2>1, Zenon DEF Recursion
<1>5. Is(TwoTo)
  <2>1. TwoTo = CHOOSE h : Is(h)
    BY Zenon DEF TwoTo
  <2>. HIDE DEF Is
  <2>. QED
    BY <1>4, <2>1, Zenon
<1>6. TwoTo[0] = 1 /\ \A k \in Nat : TwoTo[k + 1] = 2 * TwoTo[k]
  <2>1. \A k \in Nat : k + 1 # 0 /\ k + 1 \in Nat /\ (k + 1) - 1 = k
    OBVIOUS
  <2>. QED
    BY <1>5, <2>1
<1>. DEFINE Good == {k \in Nat : TwoTo[k] \in Nat /\ TwoTo[k] > k}
<1>7. ASSUME NEW n \in Nat PROVE n \in Good
  <2>1. 0 \in Good
    BY <1>6
  <2>2. ASSUME NEW i \in 1 .. n, i - 1 \in Good PROVE i \in Good
    <3>1. i - 1 \in Nat /\ (i - 1) + 1 = i
      OBVIOUS
    <3>2. TwoTo[i] = 2 * TwoTo[i - 1]
      BY <1>6, <3>1
    <3>. QED
      BY <2>2, <3>2
  <2>3. \A i \in 0 .. n : i \in Good
    <3>. HIDE DEF Good
    <3>. QED
      BY <2>1, <2>2, Counting
  <2>. QED
    BY <2>3
<1>. QED
  BY <1>6, <1>7

LEMMA TwoToAdd ==
  ASSUME NEW a \in Nat, NEW b \in Nat
  PROVE  TwoTo[a + b] = TwoTo[a] * TwoTo[b]
<1>. DEFINE Good == {k \in Nat : TwoTo[a + k] = TwoTo[a] * TwoTo[k]}
<1>1. 0 \in Good
  BY TwoToStep
<1>2. ASSUME NEW i \in 1 .. b, i - 1 \in Good PROVE i \in Good
  <2>1. i - 1 \in Nat /\ (i - 1) + 1 = i /\ a + (i - 1) \in Nat /\ (a + (i - 1)) + 1 = a + i
    OBVIOUS
  <2>2. TwoTo[i] = 2 * TwoTo[i - 1] /\ TwoTo[a + i] = 2 * TwoTo[a + (i - 1)]
    BY <2>1, TwoToStep
  <2>. DEFINE u == TwoTo[a]
              v == TwoTo[i - 1]
  <2>3. u \in Nat /\ v \in Nat
    BY <2>1, TwoToStep
  <2>4. TwoTo[a + (i - 1)] = u * v
    BY <1>2
  <2>. HIDE DEF u, v
  <2>5. 2 * (u * v) = u * (2 * v)
    BY <2>3
  <2>. QED
    BY <2>2, <2>4, <2>5 DEF u, v
<1>3. \A i \in 0 .. b : i \in Good
  <2>. HIDE DEF Good
  <2>. QED
    BY <1>1, <1>2, Counting
<1>. QED
  BY <1>3

LEMMA TwoToMonotone ==
  ASSUME NEW a \in Nat, NEW b \in Nat, a <= b
  PROVE  TwoTo[a] <= TwoTo[b]
<1>. DEFINE d == b - a
            u == TwoTo[a]
            v == TwoTo[d]
<1>1. d \in Nat /\ a + d = b
  OBVIOUS
<1>. HIDE DEF d
<1>2. u \in Nat \ {0} /\ v \in Nat \ {0} /\ TwoTo[b] = u * v
  BY <1>1, TwoToAdd, TwoToStep
<1>. HIDE DEF u, v
<1>3. u <= u * v
  <2>1. PICK k \in Nat : v = k + 1
    <3>1. v - 1 \in Nat /\ v = (v - 1) + 1
      BY <1>2
    <3>. QED
      BY <3>1
  <2>2. u * v = u * k + u /\ u * k \in Nat
    BY <1>2, <2>1
  <2>. QED
    BY <1>2, <2>2
<1>. QED
  BY <1>2, <1>3 DEF u

\* A quotient and a remainder are those of the division.
LEMMA QuotientIsUnique ==
  ASSUME NEW m \in Nat \ {0}, NEW q \in Nat, NEW r \in 0 .. m - 1, NEW a, a = m * q + r
  PROVE  a \in Nat /\ a \div m = q /\ a % m = r
<1>1. m * q \in Nat /\ r \in Nat
  OBVIOUS
<1>2. a \in Nat
  BY <1>1
<1>3. a % m = r
  <2>1. (r + m * q) % m = r % m
    BY <1>1, SameRemainder
  <2>2. r % m = r /\ r + m * q = a
    BY <1>1
  <2>. QED
    BY <2>1, <2>2
<1>. DEFINE p == a \div m
<1>4. a = m * p + r /\ p \in Nat
  BY <1>2, <1>3, Remainder
<1>. HIDE DEF p
<1>5. m * p = m * q
  BY <1>1, <1>4
<1>6. p = q
  <2>1. PICK d \in Nat : p = q + d \/ q = p + d
    <3>1. CASE p <= q
      BY <1>4, <3>1, q - p \in Nat, q = p + (q - p)
    <3>2. CASE q <= p
      BY <1>4, <3>2, p - q \in Nat, p = q + (p - q)
    <3>. QED
      BY <1>4, <3>1, <3>2
  <2>2. m * d = 0
    <3>1. CASE p = q + d
      <4>1. m * p = m * q + m * d /\ m * d \in Nat
        BY <3>1
      <4>. QED
        BY <1>1, <1>5, <4>1
    <3>2. CASE q = p + d
      <4>1. m * q = m * p + m * d /\ m * d \in Nat
        BY <1>4, <3>2
      <4>. QED
        BY <1>1, <1>5, <4>1
    <3>. QED
      BY <2>1, <3>1, <3>2
  <2>3. d = 0
    <3>1. SUFFICES ASSUME d # 0 PROVE FALSE
      OBVIOUS
    <3>2. PICK c \in Nat : d = c + 1
      BY <3>1, d - 1 \in Nat, d = (d - 1) + 1
    <3>3. m * d = m * c + m /\ m * c \in Nat
      BY <3>2
    <3>. QED
      BY <2>2, <3>3
  <2>. QED
    BY <1>4, <2>1, <2>3
<1>. QED
  BY <1>2, <1>3, <1>6 DEF p

LEMMA DivideTwice ==
  ASSUME NEW n \in Nat, NEW p \in Nat \ {0}, NEW q \in Nat \ {0}
  PROVE  /\ n \div (p * q) = (n \div p) \div q
         /\ n % (p * q) = (n % p) + ((n \div p) % q) * p
<1>. DEFINE a == n \div p
            r == n % p
            b == a \div q
            d == a % q
<1>1. n = p * a + r /\ r \in 0 .. p - 1 /\ a \in Nat
  BY Remainder
<1>. HIDE DEF a, r
<1>2. a = q * b + d /\ d \in 0 .. q - 1 /\ b \in Nat
  BY <1>1, Remainder
<1>. HIDE DEF b, d
<1>. DEFINE m == p * q
            s == r + d * p
<1>3. n = m * b + s
  <2>1. p * a = p * (q * b) + p * d
    BY <1>1, <1>2
  <2>2. p * (q * b) = (p * q) * b /\ p * d = d * p
    BY <1>2
  <2>. DEFINE u == (p * q) * b
              v == d * p
              w == p * a
  <2>3. w = u + v /\ n = w + r /\ u \in Nat /\ v \in Nat /\ r \in Nat
    BY <1>1, <1>2, <2>1, <2>2
  <2>. HIDE DEF u, v, w
  <2>4. n = u + (r + v)
    BY <2>3
  <2>. QED
    BY <2>4 DEF u, v
<1>4. m \in Nat \ {0} /\ s \in 0 .. m - 1
  <2>1. PICK c \in Nat : q = d + c + 1
    BY <1>2, q - d - 1 \in Nat, q = d + (q - d - 1) + 1
  <2>2. p * q = d * p + p * c + p /\ p * c \in Nat /\ d * p \in Nat
    BY <1>2, <2>1
  <2>. QED
    BY <1>1, <2>2
<1>. HIDE DEF m, s
<1>5. n \div m = b /\ n % m = s
  BY <1>2, <1>3, <1>4, QuotientIsUnique
<1>. QED
  BY <1>5 DEF m, s, a, r, b, d

\* A digit more, at either end of a number.
LEMMA DigitSplit ==
  ASSUME NEW n \in Nat, NEW w \in Nat, NEW i \in Nat
  PROVE  /\ digit(n, i, w) \in 0 .. TwoTo[w] - 1 /\ digit(n, i, w) \in Nat
         /\ n % TwoTo[w * (i + 1)] = (n % TwoTo[w * i]) + digit(n, i, w) * TwoTo[w * i]
         /\ n \div TwoTo[w * i] = (n \div TwoTo[w * (i + 1)]) * TwoTo[w] + digit(n, i, w)
<1>. DEFINE p == TwoTo[w * i]
            q == TwoTo[w]
            d == digit(n, i, w)
            a == n \div p
<1>0. w * i \in Nat
  OBVIOUS
<1>1. p \in Nat \ {0} /\ q \in Nat \ {0}
  BY <1>0, TwoToStep
<1>2. TwoTo[w * (i + 1)] = p * q
  <2>1. w * (i + 1) = w * i + w
    OBVIOUS
  <2>. QED
    BY <1>0, <2>1, TwoToAdd
<1>3. d = a % q
  BY DEF digit
<1>4. a \in Nat
  BY <1>1, Remainder
<1>. HIDE DEF p, q, d
<1>5. n \div (p * q) = a \div q /\ n % (p * q) = (n % p) + (a % q) * p
  BY <1>1, DivideTwice
<1>. HIDE DEF a
<1>6. a = q * (a \div q) + (a % q) /\ a % q \in 0 .. q - 1 /\ a \div q \in Nat
  BY <1>1, <1>4, Remainder
<1>7. a = (a \div q) * q + (a % q)
  <2>. DEFINE b == a \div q
  <2>1. q * b = b * q
    <3>1. b \in Nat
      BY <1>6
    <3>. HIDE DEF b
    <3>. QED
      BY <1>1, <3>1
  <2>. QED
    BY <1>6, <2>1
<1>8. d \in 0 .. q - 1 /\ d \in Nat
  BY <1>1, <1>3, <1>6
<1>9. n % TwoTo[w * (i + 1)] = (n % p) + d * p
  BY <1>2, <1>3, <1>5
<1>10. a = (n \div TwoTo[w * (i + 1)]) * q + d
  BY <1>2, <1>3, <1>5, <1>7
<1>. QED
  BY <1>8, <1>9, <1>10 DEF p, q, d, a

\* A digit put above a number leaves the digits of the number.
PutAbove(t, n, k, w) == \E d \in Nat : t = n + d * TwoTo[w * k]
LEMMA DigitBelow ==
  ASSUME NEW n \in Nat, NEW w \in Nat, NEW i \in Nat, NEW k \in Nat, NEW t
  PROVE  PutAbove(t, n, k, w) /\ i < k => digit(t, i, w) = digit(n, i, w)
<1>. SUFFICES ASSUME NEW d \in Nat, t = n + d * TwoTo[w * k], i < k
              PROVE  digit(t, i, w) = digit(n, i, w)
  BY DEF PutAbove
<1>. DEFINE u == TwoTo[w * i]
            q == TwoTo[w]
            v == TwoTo[w * (k - i - 1)]
            a == n \div u
            r == n % u
            s == d * v
<1>1. w * i \in Nat /\ k - i - 1 \in Nat /\ w * (k - i - 1) \in Nat
  OBVIOUS
<1>2. u \in Nat \ {0} /\ q \in Nat \ {0} /\ v \in Nat \ {0}
  BY <1>1, TwoToStep
<1>3. TwoTo[w * k] = u * (q * v)
  <2>. DEFINE x == w * (k - i - 1)
              y == w * i
              z == w + x
  <2>0. x \in Nat /\ y \in Nat /\ z \in Nat
    BY <1>1
  <2>. HIDE DEF x, y
  <2>2. TwoTo[z] = q * TwoTo[x]
    BY <2>0, TwoToAdd
  <2>. HIDE DEF z
  <2>1. TwoTo[y + z] = TwoTo[y] * TwoTo[z]
    BY <2>0, TwoToAdd
  <2>3. w * i + (w + w * (k - i - 1)) = w * k
    <3>1. PICK j \in Nat : k = i + 1 + j /\ k - i - 1 = j
      BY <1>1
    <3>2. w * (i + 1 + j) = w * i + (w + w * j)
      OBVIOUS
    <3>. QED
      BY <3>1, <3>2
  <2>. QED
    BY <2>1, <2>2, <2>3 DEF x, y, z
<1>4. n = u * a + r /\ r \in 0 .. u - 1 /\ a \in Nat
  BY <1>2, Remainder
<1>5. s \in Nat
  BY <1>2
<1>. HIDE DEF u, v, q, a, r
<1>6. d * (u * (q * v)) = u * (q * s)
  BY <1>2
<1>. HIDE DEF s
<1>7. t = u * (a + q * s) + r
  BY <1>2, <1>3, <1>4, <1>5, <1>6
<1>. DEFINE b == a + q * s
<1>8. b \in Nat
  BY <1>2, <1>4, <1>5
<1>9. t = u * b + r
  BY <1>7
<1>10. b % q = a % q
  BY <1>2, <1>4, <1>5, SameRemainder
<1>. HIDE DEF b
<1>11. t \div u = b
  BY <1>2, <1>4, <1>8, <1>9, QuotientIsUnique
<1>12. digit(t, i, w) = b % q /\ digit(n, i, w) = a % q
  BY <1>11 DEF digit, u, q, a
<1>. QED
  BY <1>10, <1>12

LEMMA DigitAbove ==
  ASSUME NEW w \in Nat, NEW k \in Nat, NEW n \in 0 .. TwoTo[w * k] - 1, NEW d \in 0 .. TwoTo[w] - 1
  PROVE  /\ digit(n + d * TwoTo[w * k], k, w) = d
         /\ n + d * TwoTo[w * k] \in 0 .. TwoTo[w * (k + 1)] - 1
<1>. DEFINE p == TwoTo[w * k]
            q == TwoTo[w]
            t == n + d * p
<1>1. w * k \in Nat /\ w * (k + 1) = w * k + w
  OBVIOUS
<1>2. p \in Nat \ {0} /\ q \in Nat \ {0} /\ TwoTo[w * (k + 1)] = p * q
  BY <1>1, TwoToAdd, TwoToStep
<1>. HIDE DEF p, q
<1>3. n \in 0 .. p - 1 /\ n \in Nat /\ d \in Nat /\ d \in 0 .. q - 1
  BY <1>2 DEF p, q
<1>4. t = p * d + n
  <2>1. d * p = p * d /\ p * d \in Nat
    BY <1>2, <1>3
  <2>. QED
    BY <1>3, <2>1
<1>5. t \in Nat /\ t < p * q
  <2>1. PICK c \in Nat : q = d + c + 1
    BY <1>2, <1>3, q - d - 1 \in Nat, q = d + (q - d - 1) + 1
  <2>2. p * q = p * d + p * c + p /\ p * c \in Nat /\ p * d \in Nat
    BY <1>2, <1>3, <2>1
  <2>. QED
    BY <1>2, <1>3, <1>4, <2>2
<1>. HIDE DEF t
<1>6. t \div p = d
  BY <1>2, <1>3, <1>4, QuotientIsUnique
<1>7. d % q = d
  BY <1>2, <1>3
<1>8. digit(t, k, w) = d
  BY <1>6, <1>7 DEF digit, p, q
<1>9. p * q \in Nat
  BY <1>2
<1>. QED
  BY <1>2, <1>5, <1>8, <1>9 DEF t, p

\* The cell of a row has the digits of the exponents for its own.
Cell(exps, r, w, f) ==
  f = [j \in 0 .. Len(exps) |-> IF j = 0 THEN 0 ELSE f[j - 1] + digit(exps[j], r, w) * TwoTo[w * (j - 1)]]

LEMMA CellDigits ==
  ASSUME NEW exps \in Seq(Nat), NEW r \in Nat, NEW w \in Nat
  PROVE  /\ expcol(exps, r, w) \in 0 .. TwoTo[w * Len(exps)] - 1
         /\ \A j \in 1 .. Len(exps) : digit(expcol(exps, r, w), j - 1, w) = digit(exps[j], r, w)
<1>. DEFINE n == Len(exps)
            d(j) == digit(exps[j], r, w)
            Is(f) == Cell(exps, r, w, f)
            step == [s \in (1 .. n) \X Nat |-> s[2] + d(s[1]) * TwoTo[w * (s[1] - 1)]]
<1>1. n \in Nat /\ \A j \in 1 .. n : exps[j] \in Nat
  OBVIOUS
<1>2. \A j \in 1 .. n : d(j) \in 0 .. TwoTo[w] - 1 /\ d(j) \in Nat
  BY <1>1, DigitSplit
<1>3. \A j \in 1 .. n : w * (j - 1) \in Nat /\ TwoTo[w * (j - 1)] \in Nat
  <2>1. \A j \in 1 .. n : w * (j - 1) \in Nat
    <3>1. \A j \in 1 .. n : j - 1 \in Nat
      OBVIOUS
    <3>2. \A a, b \in Nat : a * b \in Nat
      OBVIOUS
    <3>. QED
      BY <3>1, <3>2
  <2>. QED
    BY <2>1, TwoToStep
<1>4. \A j \in 1 .. n : \A x \in Nat : x + d(j) * TwoTo[w * (j - 1)] \in Nat
  <2>1. \A x, a, b \in Nat : x + a * b \in Nat
    OBVIOUS
  <2>. HIDE DEF d, n
  <2>. QED
    BY <1>2, <1>3, <2>1
<1>5. PICK f \in [0 .. n -> Nat] : CountedLoop(n, 0, step, f)
  <2>. HIDE DEF d, n
  <2>1. step \in [(1 .. n) \X Nat -> Nat]
    BY <1>4
  <2>. HIDE DEF step
  <2>. QED
    BY <1>1, <2>1, CountedLoopExists
<1>6. Is(f)
  <2>1. \A j \in 0 .. n : j # 0 => step[<<j, f[j - 1]>>] = f[j - 1] + d(j) * TwoTo[w * (j - 1)]
    <3>1. \A j \in 0 .. n : j # 0 => j \in 1 .. n /\ j - 1 \in 0 .. n
      BY <1>1
    <3>. HIDE DEF d, n
    <3>. QED
      BY <3>1
  <2>2. f = [j \in 0 .. n |-> IF j = 0 THEN 0 ELSE step[<<j, f[j - 1]>>]]
    BY <1>5, Zenon DEF CountedLoop
  <2>. HIDE DEF step
  <2>3. f = [j \in 0 .. n |-> IF j = 0 THEN 0 ELSE f[j - 1] + d(j) * TwoTo[w * (j - 1)]]
    BY <2>1, <2>2, Zenon
  <2>. QED
    BY <2>3, Zenon DEF Cell
<1>. DEFINE col == CHOOSE h : Is(h)
<1>7. Is(col) /\ expcol(exps, r, w) = col[n]
  <2>1. expcol(exps, r, w) = col[n]
    BY Zenon DEF expcol, Cell
  <2>2. Is(col)
    <3>. HIDE DEF Is
    <3>. QED
      BY <1>6, Zenon
  <2>. QED
    BY <2>1, <2>2
<1>. HIDE DEF col
<1>8. col[0] = 0 /\ \A j \in 1 .. n : col[j] = col[j - 1] + d(j) * TwoTo[w * (j - 1)]
  <2>1. 0 \in 0 .. n /\ \A j \in 1 .. n : j \in 0 .. n /\ j # 0
    BY <1>1
  <2>2. col = [j \in 0 .. n |-> IF j = 0 THEN 0 ELSE col[j - 1] + d(j) * TwoTo[w * (j - 1)]]
    BY <1>7, Zenon DEF Cell
  <2>. HIDE DEF n, d
  <2>. QED
    BY <2>1, <2>2
<1>. HIDE DEF Is, d, n
<1>. DEFINE Good == {j \in 0 .. n : /\ col[j] \in 0 .. TwoTo[w * j] - 1
                                    /\ \A i \in 1 .. j : digit(col[j], i - 1, w) = d(i)}
<1>9. 0 \in Good
  <2>1. w * 0 = 0
    OBVIOUS
  <2>2. TwoTo[w * 0] = 1
    BY <2>1, TwoToStep
  <2>3. col[0] \in 0 .. TwoTo[w * 0] - 1
    BY <1>8, <2>2
  <2>. QED
    BY <1>1, <2>3
<1>10. ASSUME NEW j \in 1 .. n, j - 1 \in Good PROVE j \in Good
  <2>. DEFINE k == j - 1
              c == col[k]
              e == d(j)
  <2>1. k \in Nat /\ j = k + 1
    BY <1>1
  <2>2. c \in 0 .. TwoTo[w * k] - 1 /\ \A i \in 1 .. k : digit(c, i - 1, w) = d(i)
    BY <1>10
  <2>3. e \in 0 .. TwoTo[w] - 1 /\ e \in Nat
    BY <1>2
  <2>4. col[j] = c + e * TwoTo[w * k]
    BY <1>8
  <2>5. c \in Nat
    BY <2>2
  <2>. HIDE DEF k, c, e
  <2>6. digit(col[j], k, w) = e /\ col[j] \in 0 .. TwoTo[w * (k + 1)] - 1
    <3>1. /\ digit(c + e * TwoTo[w * k], k, w) = e
          /\ c + e * TwoTo[w * k] \in 0 .. TwoTo[w * (k + 1)] - 1
      <4>. HIDE DEF Good
      <4>. QED
        BY <2>1, <2>2, <2>3, DigitAbove
    <3>. QED
      BY <2>4, <3>1
  <2>7. ASSUME NEW i \in 1 .. k PROVE digit(col[j], i - 1, w) = d(i)
    <3>. DEFINE l == i - 1
    <3>1. l \in Nat /\ l < k
      BY <2>1
    <3>. HIDE DEF l
    <3>. DEFINE t == col[j]
    <3>2. t = c + e * TwoTo[w * k]
      BY <2>4
    <3>. HIDE DEF t
    <3>3. k \in Nat /\ PutAbove(t, c, k, w)
      BY <2>1, <2>3, <3>2 DEF PutAbove
    <3>4. digit(t, l, w) = digit(c, l, w)
      BY <2>5, <3>1, <3>3, DigitBelow
    <3>. QED
      BY <2>2, <3>4 DEF l, t
  <2>8. ASSUME NEW i \in 1 .. j PROVE digit(col[j], i - 1, w) = d(i)
    <3>1. CASE i \in 1 .. k
      BY <2>7, <3>1
    <3>2. CASE i = j
      BY <2>1, <2>6, <3>2 DEF e, k
    <3>. QED
      BY <2>1, <3>1, <3>2
  <2>. QED
    BY <2>1, <2>6, <2>8
<1>11. \A j \in 0 .. n : j \in Good
  <2>. HIDE DEF Good
  <2>. QED
    BY <1>1, <1>9, <1>10, Counting
<1>12. n \in Good
  BY <1>1, <1>11
<1>. QED
  BY <1>7, <1>12 DEF n, d
-----------------------------------------------------------------------------
(* The products of a thread.                                               *)

LEMMA PowersOne ==
  ASSUME NEW m \in Nat \ {0}, NEW x \in 0 .. m - 1
  PROVE  Powers(x, m)[1] = x
<1>1. x \in Nat /\ 0 \in Nat /\ 0 + 1 = 1
  OBVIOUS
<1>2. Powers(x, m)[0] = 1 % m /\ Powers(x, m)[0 + 1] = MulMod(Powers(x, m)[0], x, m)
  BY <1>1, PowersStep
<1>3. MulMod(1 % m, x, m) = x
  BY MulModOne
<1>. QED
  BY <1>1, <1>2, <1>3

\* A number has no digits above its length.
LEMMA DigitBeyond ==
  ASSUME NEW n \in Nat, NEW w \in Nat, NEW i \in Nat, n < TwoTo[w * i]
  PROVE  digit(n, i, w) = 0
<1>. DEFINE p == TwoTo[w * i]
            q == TwoTo[w]
<1>1. w * i \in Nat
  OBVIOUS
<1>2. p \in Nat \ {0} /\ q \in Nat \ {0}
  BY <1>1, TwoToStep
<1>3. n \in 0 .. p - 1 /\ digit(n, i, w) = (n \div p) % q
  BY <1>2 DEF digit
<1>. HIDE DEF p, q
<1>4. n = p * 0 + n
  BY <1>2
<1>5. n \div p = 0
  BY <1>2, <1>3, <1>4, QuotientIsUnique
<1>6. 0 % q = 0
  BY <1>2
<1>. QED
  BY <1>3, <1>5, <1>6

\* The loop of a cell goes through the bases from the last to the first.
FactorLoop(bases, c, m, f) ==
  f = [i \in 0 .. Len(bases) |->
         LET j == Len(bases) - i
         IN  CASE i = 0                                 -> 1
               [] i > 0 /\ digit(c, j, 1) = 0           -> f[i - 1]
               [] i > 0 /\ digit(c, j, 1) # 0 /\ c < TwoTo[j + 1] -> bases[j + 1]
               [] OTHER                                 -> MulMod(bases[j + 1], f[i - 1], m)]
Factor(bases, c, m) == CHOOSE f : FactorLoop(bases, c, m, f)
Digits(bases, c, w) == [j \in 1 .. Len(bases) |-> digit(c, j - 1, w)]

LEMMA FactorStep ==
  ASSUME NEW bases \in Seq(Nat), NEW c \in Nat, NEW m \in Nat \ {0}
  PROVE  /\ Factor(bases, c, m)[0] = 1
         /\ \A i \in 1 .. Len(bases) :
              Factor(bases, c, m)[i] =
                 IF digit(c, Len(bases) - i, 1) = 0 THEN Factor(bases, c, m)[i - 1]
                 ELSE IF c < TwoTo[(Len(bases) - i) + 1] THEN bases[(Len(bases) - i) + 1]
                 ELSE MulMod(bases[(Len(bases) - i) + 1], Factor(bases, c, m)[i - 1], m)
<1>. DEFINE n == Len(bases)
            d(i) == digit(c, n - i, 1)
            low(i) == c < TwoTo[(n - i) + 1]
            b(i) == bases[(n - i) + 1]
            Next(i, x) == IF d(i) = 0 THEN x ELSE IF low(i) THEN b(i) ELSE MulMod(b(i), x, m)
            step == [s \in (1 .. n) \X Nat |-> Next(s[1], s[2])]
            Is(f) == FactorLoop(bases, c, m, f)
            g == Factor(bases, c, m)
<1>1. n \in Nat /\ \A i \in 1 .. n : b(i) \in Nat
  OBVIOUS
<1>2. \A i \in 1 .. n : \A x \in Nat : Next(i, x) \in Nat
  <2>1. \A i \in 1 .. n : \A x \in Nat : MulMod(b(i), x, m) \in Nat
    <3>. HIDE DEF b, n
    <3>. QED
      BY <1>1, MulModReduced
  <2>. HIDE DEF b, d, low, n
  <2>. QED
    BY <1>1, <2>1
<1>3. PICK f \in [0 .. n -> Nat] : CountedLoop(n, 1, step, f)
  <2>. HIDE DEF Next, n
  <2>1. step \in [(1 .. n) \X Nat -> Nat]
    BY <1>2
  <2>. HIDE DEF step
  <2>. QED
    BY <1>1, <2>1, CountedLoopExists
<1>4. \A h : Is(h) <=> h = [i \in 0 .. n |-> IF i = 0 THEN 1 ELSE Next(i, h[i - 1])]
  <2>. DEFINE Body(h, i) ==
                LET j == n - i
                IN  CASE i = 0                                 -> 1
                      [] i > 0 /\ digit(c, j, 1) = 0           -> h[i - 1]
                      [] i > 0 /\ digit(c, j, 1) # 0 /\ c < TwoTo[j + 1] -> bases[j + 1]
                      [] OTHER                                 -> MulMod(bases[j + 1], h[i - 1], m)
  <2>1. ASSUME NEW h, NEW i \in 0 .. n PROVE Body(h, i) = IF i = 0 THEN 1 ELSE Next(i, h[i - 1])
    <3>1. CASE i = 0
      BY <3>1
    <3>2. CASE i # 0 /\ d(i) = 0
      BY <1>1, <3>2
    <3>3. CASE i # 0 /\ d(i) # 0 /\ low(i)
      BY <1>1, <3>3
    <3>4. CASE i # 0 /\ d(i) # 0 /\ ~ low(i)
      BY <1>1, <3>4
    <3>. QED
      BY <3>1, <3>2, <3>3, <3>4
  <2>2. ASSUME NEW h PROVE Is(h) <=> h = [i \in 0 .. n |-> Body(h, i)]
    BY Zenon DEF FactorLoop
  <2>. HIDE DEF Next, Body, Is, n
  <2>3. ASSUME NEW h PROVE [i \in 0 .. n |-> Body(h, i)] =
                           [i \in 0 .. n |-> IF i = 0 THEN 1 ELSE Next(i, h[i - 1])]
    BY <2>1
  <2>. QED
    BY <2>2, <2>3, Zenon
<1>5. Is(f)
  <2>1. \A i \in 0 .. n : i # 0 => step[<<i, f[i - 1]>>] = Next(i, f[i - 1])
    <3>1. \A i \in 0 .. n : i # 0 => i \in 1 .. n /\ i - 1 \in 0 .. n
      BY <1>1
    <3>. HIDE DEF Next, n
    <3>. QED
      BY <3>1
  <2>2. f = [i \in 0 .. n |-> IF i = 0 THEN 1 ELSE step[<<i, f[i - 1]>>]]
    BY <1>3, Zenon DEF CountedLoop
  <2>. HIDE DEF step, Next, Is, n
  <2>3. f = [i \in 0 .. n |-> IF i = 0 THEN 1 ELSE Next(i, f[i - 1])]
    BY <2>1, <2>2, Zenon
  <2>. QED
    BY <1>4, <2>3
<1>6. Is(g)
  <2>1. g = CHOOSE h : Is(h)
    BY Zenon DEF Factor
  <2>. HIDE DEF Is, g
  <2>. QED
    BY <1>5, <2>1, Zenon
<1>7. g = [i \in 0 .. n |-> IF i = 0 THEN 1 ELSE Next(i, g[i - 1])]
  <2>. HIDE DEF Is, Next, n
  <2>. QED
    BY <1>4, <1>6
<1>8. 0 \in 0 .. n /\ \A i \in 1 .. n : i \in 0 .. n /\ i # 0
  BY <1>1
<1>9. g[0] = 1 /\ \A i \in 1 .. n : g[i] = Next(i, g[i - 1])
  <2>. HIDE DEF g, Next, n
  <2>. QED
    BY <1>7, <1>8
<1>. HIDE DEF g
<1>. QED
  BY <1>9 DEF g

\* Up to the modulus, the cell of a mask holds the product of the bases in it.
LEMMA PrecomputeIsProduct ==
  ASSUME NEW bases \in Seq(Nat), NEW m \in Nat \ {0}, NEW c \in Masks(bases)
  PROVE  /\ precompute(bases, m)[c] \in Nat
         /\ precompute(bases, m)[c] % m = ProductOfPowers(bases, Digits(bases, c, 1), m)
<1>. DEFINE n == Len(bases)
            g == Factor(bases, c, m)
            d(l) == digit(c, l - 1, 1)
            High(i) == [l \in 1 .. n |-> IF l > n - i THEN d(l) ELSE 0]
            Only(k) == [l \in 1 .. n |-> IF l = k THEN d(l) ELSE 0]
            P(i) == ProductOfPowers(bases, High(i), m)
<1>1. n \in Nat /\ c \in Nat /\ \A l \in 1 .. n : bases[l] \in Nat
  <2>1. \A a \in Nat : \A x \in 0 .. a - 1 : x \in Nat
    OBVIOUS
  <2>2. TwoTo[n] \in Nat
    BY TwoToStep
  <2>. QED
    BY <2>1, <2>2 DEF Masks
<1>2. precompute(bases, m)[c] = g[n]
  BY Zenon DEF precompute, Factor, FactorLoop
<1>3. \A l \in 1 .. n : d(l) \in 0 .. 1 /\ d(l) \in Nat
  <2>1. TwoTo[1] = 2
    <3>1. TwoTo[0 + 1] = 2 * TwoTo[0] /\ 0 + 1 = 1
      BY TwoToStep
    <3>. QED
      BY <3>1, TwoToStep
  <2>2. \A l \in 1 .. n : l - 1 \in Nat
    OBVIOUS
  <2>3. \A k \in Nat : digit(c, k, 1) \in 0 .. 1 /\ digit(c, k, 1) \in Nat
    <3>1. PICK w \in Nat : w = 1
      OBVIOUS
    <3>2. \A k \in Nat : digit(c, k, w) \in 0 .. TwoTo[w] - 1 /\ digit(c, k, w) \in Nat
      BY <1>1, DigitSplit
    <3>3. TwoTo[w] - 1 = 1
      BY <2>1, <3>1
    <3>. QED
      BY <3>1, <3>2, <3>3
  <2>. QED
    BY <2>2, <2>3
<1>4. /\ g[0] = 1
      /\ \A i \in 1 .. n :
           g[i] = IF digit(c, n - i, 1) = 0 THEN g[i - 1]
                  ELSE IF c < TwoTo[(n - i) + 1] THEN bases[(n - i) + 1]
                  ELSE MulMod(bases[(n - i) + 1], g[i - 1], m)
  BY <1>1, FactorStep
<1>5. \A i \in 0 .. n : Lists(bases, High(i)) /\ Lists(bases, Only(i))
  BY <1>3 DEF Lists
<1>6. \A i \in 0 .. n : P(i) \in 0 .. m - 1 /\ P(i) \in Nat
  <2>1. \A e : Lists(bases, e) => ProductOfPowers(bases, e, m) \in 0 .. m - 1
    BY NaturalProduct
  <2>2. \A x \in 0 .. m - 1 : x \in Nat
    OBVIOUS
  <2>. HIDE DEF High, n
  <2>. QED
    BY <1>5, <2>1, <2>2
<1>7. P(0) = 1 % m
  <2>1. NoneBut(0, bases, High(0))
    BY <1>1 DEF NoneBut
  <2>2. Lists(bases, High(0))
    BY <1>1, <1>5
  <2>. HIDE DEF High
  <2>. QED
    BY <2>1, <2>2, ProductOfNone
<1>8. \A i \in 1 .. n : d((n - i) + 1) = digit(c, n - i, 1) /\ (n - i) + 1 \in 1 .. n
  <2>1. \A i \in 1 .. n : ((n - i) + 1) - 1 = n - i /\ (n - i) + 1 \in 1 .. n
    BY <1>1
  <2>. HIDE DEF n
  <2>. QED
    BY <2>1
<1>. HIDE DEF n, g
<1>. DEFINE Good == {i \in 0 .. n : g[i] \in Nat /\ g[i] % m = P(i)}
<1>9. ASSUME NEW i \in 1 .. n, i - 1 \in Good PROVE i \in Good
  <2>0. PICK k \in 1 .. n : k = (n - i) + 1
    BY <1>8
  <2>1. /\ k \in 1 .. n /\ i \in 0 .. n /\ i - 1 \in 0 .. n
        /\ \A l \in 1 .. n : (l > n - i <=> l > k \/ l = k) /\ (l > n - (i - 1) <=> l > k)
    <3>. HIDE DEF Good
    <3>. QED
      BY <1>1, <2>0
  <2>2. g[i] = IF d(k) = 0 THEN g[i - 1] ELSE IF c < TwoTo[k] THEN bases[k] ELSE MulMod(bases[k], g[i - 1], m)
    BY <1>4, <1>8, <2>0
  <2>3. g[i - 1] \in Nat /\ g[i - 1] % m = P(i - 1)
    BY <1>9
  <2>4. bases[k] \in Nat /\ bases[k] % m \in 0 .. m - 1 /\ bases[k] % m \in Nat
    BY <1>1, <2>1
  <2>5. CASE d(k) = 0
    <3>1. \A l \in 1 .. n : High(i)[l] = High(i - 1)[l]
      <4>. HIDE DEF d
      <4>. QED
        BY <2>1, <2>5
    <3>2. Lists(bases, High(i - 1))
      BY <1>5, <2>1
    <3>. HIDE DEF High
    <3>3. P(i) = P(i - 1)
      BY <3>1, <3>2, ProductSame DEF n
    <3>. QED
      BY <2>1, <2>2, <2>3, <2>5, <3>3
  <2>6. CASE d(k) # 0
    <3>1. d(k) = 1
      <4>. HIDE DEF d
      <4>. QED
        BY <1>3, <2>1, <2>6
    <3>2. ProductOfPowers(bases, Only(k), m) = bases[k] % m
      <4>1. NoneBut(k, bases, Only(k)) /\ Lists(bases, Only(k)) /\ Only(k)[k] = 1
        <5>1. Lists(bases, Only(k))
          <6>1. k \in 0 .. n
            OBVIOUS
          <6>. HIDE DEF Only, High
          <6>. QED
            BY <1>5, <6>1
        <5>. HIDE DEF d
        <5>. QED
          BY <2>1, <3>1, <5>1 DEF NoneBut, n
      <4>. HIDE DEF Only
      <4>2. ProductOfPowers(bases, Only(k), m) = Powers(bases[k] % m, m)[Only(k)[k]]
        BY <2>1, <4>1, ProductOfOne DEF n
      <4>. QED
        BY <2>4, <4>1, <4>2, PowersOne
    <3>3. P(i) = MulMod(P(i - 1), bases[k] % m, m)
      <4>1. \A l \in 1 .. n : High(i)[l] = High(i - 1)[l] + Only(k)[l]
        <5>1. \A l \in 1 .. n : l > k => l # k
          OBVIOUS
        <5>2. \A x \in Nat : x + 0 = x /\ 0 + x = x
          OBVIOUS
        <5>3. \A l \in 1 .. n : d(l) \in Nat
          BY <1>3
        <5>. HIDE DEF d
        <5>4. ASSUME NEW l \in 1 .. n PROVE High(i)[l] = High(i - 1)[l] + Only(k)[l]
          <6>1. CASE l > k
            BY <2>1, <5>1, <5>2, <5>3, <6>1
          <6>2. CASE l = k
            BY <2>1, <5>1, <5>2, <5>3, <6>2
          <6>3. CASE ~ (l > k) /\ l # k
            BY <2>1, <6>3
          <6>. QED
            BY <6>1, <6>2, <6>3
        <5>. QED
          BY <5>4
      <4>2. Lists(bases, High(i - 1)) /\ Lists(bases, Only(k))
        <5>1. k \in 0 .. n
          OBVIOUS
        <5>. HIDE DEF High, Only
        <5>. QED
          BY <1>5, <2>1, <5>1
      <4>. HIDE DEF High, Only
      <4>. QED
        BY <3>2, <4>1, <4>2, ProductAdd DEF n
    <3>4. CASE c < TwoTo[k]
      <4>1. P(i - 1) = 1 % m
        <5>1. ASSUME NEW l \in 1 .. n, l > k PROVE d(l) = 0
          <6>1. l - 1 \in Nat /\ k \in Nat /\ k <= l - 1 /\ 1 * (l - 1) = l - 1
            BY <2>1, <5>1
          <6>2. TwoTo[k] <= TwoTo[l - 1] /\ TwoTo[k] \in Nat /\ TwoTo[l - 1] \in Nat
            BY <6>1, TwoToMonotone, TwoToStep
          <6>3. c < TwoTo[l - 1]
            BY <1>1, <3>4, <6>2
          <6>. DEFINE o == l - 1
          <6>4. o \in Nat /\ c < TwoTo[1 * o]
            BY <6>1, <6>3
          <6>. HIDE DEF o
          <6>5. digit(c, o, 1) = 0
            BY <1>1, <6>4, DigitBeyond
          <6>. QED
            BY <6>5 DEF o
        <5>2. NoneBut(0, bases, High(i - 1))
          <6>. HIDE DEF d
          <6>. QED
            BY <2>1, <5>1 DEF NoneBut, n
        <5>3. Lists(bases, High(i - 1))
          BY <1>5, <2>1
        <5>. HIDE DEF High
        <5>. QED
          BY <5>2, <5>3, ProductOfNone
      <4>2. P(i) = bases[k] % m
        BY <2>4, <3>3, <4>1, MulModOne
      <4>3. g[i] = bases[k]
        BY <2>2, <2>6, <3>4
      <4>. HIDE DEF P
      <4>. QED
        BY <2>1, <2>4, <4>2, <4>3
    <3>5. CASE ~ (c < TwoTo[k])
      <4>1. g[i] = MulMod(bases[k], g[i - 1], m)
        BY <2>2, <2>6, <3>5
      <4>. DEFINE x == bases[k]
                  y == g[i - 1]
      <4>2. x \in Nat /\ y \in Nat /\ x % m \in Nat /\ y % m \in Nat
        BY <2>3, <2>4
      <4>3. y % m = P(i - 1)
        BY <2>3
      <4>. HIDE DEF x, y, P
      <4>4. MulMod(x, y, m) = MulMod(y % m, x % m, m)
        <5>. HIDE DEF Good, Only, High, d
        <5>1. MulMod(x, y, m) = MulMod(y, x, m)
          BY <4>2, MulModReduced
        <5>2. MulMod(y, x, m) = MulMod(y, x % m, m)
          BY <4>2, MulModReduced
        <5>3. MulMod(y, x % m, m) = MulMod(y % m, x % m, m)
          BY <4>2, MulModReduced
        <5>. QED
          BY <5>1, <5>2, <5>3
      <4>5. P(i) = MulMod(x, y, m)
        BY <3>3, <4>3, <4>4 DEF x
      <4>6. g[i] = P(i)
        BY <4>1, <4>5 DEF x, y
      <4>7. P(i) \in 0 .. m - 1
        BY <1>6, <2>1
      <4>8. g[i] \in Nat /\ g[i] % m = P(i)
        <5>1. \A z \in 0 .. m - 1 : z \in Nat /\ z % m = z
          OBVIOUS
        <5>. QED
          BY <4>6, <4>7, <5>1
      <4>. QED
        BY <2>1, <4>8
    <3>. QED
      BY <3>4, <3>5
  <2>. QED
    BY <2>5, <2>6
<1>10. 0 \in Good
  <2>. HIDE DEF P
  <2>. QED
    BY <1>1, <1>4, <1>7
<1>11. \A i \in 0 .. n : i \in Good
  <2>. HIDE DEF Good
  <2>. QED
    BY <1>1, <1>9, <1>10, Counting
<1>12. n \in Good
  BY <1>1, <1>11
<1>13. P(n) = ProductOfPowers(bases, Digits(bases, c, 1), m)
  <2>1. High(n) = Digits(bases, c, 1)
    BY <1>1 DEF Digits, n
  <2>. HIDE DEF High
  <2>. QED
    BY <2>1
<1>. HIDE DEF P
<1>. QED
  BY <1>2, <1>12, <1>13

\* The length of a number, and of the longest of several.
LEMMA NumBitsIsLength ==
  ASSUME NEW n \in Nat
  PROVE  /\ NumBits(n) \in Nat /\ n < TwoTo[NumBits(n)]
         /\ \A k \in Nat : n < TwoTo[k] => NumBits(n) <= k
<1>1. CASE n = 0
  BY <1>1, TwoToStep DEF NumBits
<1>2. CASE n # 0
  <2>. DEFINE Enough == {b \in Nat : n < TwoTo[b]}
              Is(b) == TwoTo[b - 1] <= n /\ n < TwoTo[b]
              bits == CHOOSE b \in 1 .. n : Is(b)
  <2>1. n \in Enough
    BY TwoToStep
  <2>2. PICK b \in Enough : \A k \in Enough : b <= k
    <3>1. Enough \subseteq Nat
      OBVIOUS
    <3>. HIDE DEF Enough
    <3>. QED
      BY <2>1, <3>1, LeastNumber
  <2>3. b # 0 /\ b \in Nat /\ b <= n
    BY <1>2, <2>1, <2>2, TwoToStep
  <2>4. b \in 1 .. n /\ b - 1 \in Nat /\ b - 1 \notin Enough
    BY <2>2, <2>3
  <2>5. TwoTo[b - 1] \in Nat
    BY <2>4, TwoToStep
  <2>6. Is(b)
    BY <2>4, <2>5
  <2>. HIDE DEF Is
  <2>7. bits \in 1 .. n /\ Is(bits)
    BY <2>4, <2>6, Zenon
  <2>8. NumBits(n) = bits
    BY <1>2, Zenon DEF NumBits, Is
  <2>. HIDE DEF bits
  <2>9. ASSUME NEW k \in Nat, n < TwoTo[k] PROVE bits <= k
    <3>1. SUFFICES ASSUME k < bits PROVE FALSE
      BY <2>7
    <3>. DEFINE c == bits - 1
    <3>2. c \in Nat /\ k <= c /\ TwoTo[c] <= n
      BY <2>7, <3>1 DEF Is
    <3>. HIDE DEF c
    <3>3. TwoTo[k] <= TwoTo[c] /\ TwoTo[k] \in Nat /\ TwoTo[c] \in Nat
      BY <3>2, TwoToMonotone, TwoToStep
    <3>. QED
      BY <2>9, <3>2, <3>3
  <2>10. bits \in Nat /\ n < TwoTo[bits]
    BY <2>7 DEF Is
  <2>. QED
    BY <2>8, <2>9, <2>10
<1>. QED
  BY <1>1, <1>2

LEMMA Greatest ==
  ASSUME NEW S, NEW k \in Nat, S \subseteq 0 .. k, S # {}
  PROVE  Max(S) \in S /\ \A x \in S : x <= Max(S)
<1>. DEFINE T == {k - x : x \in S}
            Is(x) == \A y \in S : x >= y
            max == CHOOSE x \in S : Is(x)
<1>1. PICK d \in T : \A e \in T : d <= e
  <2>1. T \subseteq Nat /\ T # {}
    <3>1. \A x \in S : k - x \in Nat
      OBVIOUS
    <3>2. PICK x \in S : TRUE
      OBVIOUS
    <3>3. k - x \in T
      OBVIOUS
    <3>. QED
      BY <3>1, <3>3
  <2>. HIDE DEF T
  <2>. QED
    BY <2>1, LeastNumber
<1>2. PICK x \in S : d = k - x
  OBVIOUS
<1>3. Is(x)
  <2>1. ASSUME NEW y \in S PROVE x >= y
    <3>1. k - y \in T
      OBVIOUS
    <3>2. k - x <= k - y
      BY <1>1, <1>2, <3>1
    <3>. QED
      BY <3>2
  <2>. QED
    BY <2>1
<1>. HIDE DEF Is
<1>4. max \in S /\ Is(max)
  BY <1>3, Zenon
<1>5. Max(S) = max
  BY Zenon DEF Max, Is
<1>. QED
  BY <1>4, <1>5 DEF Is

Within(exps, L) == exps \in Seq(Nat) /\ \A i \in 1 .. Len(exps) : exps[i] < TwoTo[L]

LEMMA LongestIsEnough ==
  ASSUME NEW L \in Nat, NEW exps, Within(exps, L), Len(exps) # 0
  PROVE  Longest(exps) \in 0 .. L /\ Within(exps, Longest(exps))
<1>. DEFINE n == Len(exps)
            S == {NumBits(exps[i]) : i \in DOMAIN exps}
<1>1. n \in Nat /\ n # 0 /\ DOMAIN exps = 1 .. n /\ exps \in Seq(Nat)
      /\ \A i \in 1 .. n : exps[i] \in Nat /\ exps[i] < TwoTo[L]
  BY DEF Within
<1>. HIDE DEF n
<1>2. \A i \in 1 .. n : /\ NumBits(exps[i]) \in 0 .. L /\ NumBits(exps[i]) \in Nat
                        /\ exps[i] < TwoTo[NumBits(exps[i])]
  <2>1. \A a \in Nat : a < TwoTo[L] => NumBits(a) \in 0 .. L /\ NumBits(a) \in Nat /\ a < TwoTo[NumBits(a)]
    BY NumBitsIsLength
  <2>. QED
    BY <1>1, <2>1
<1>3. S \subseteq 0 .. L /\ S # {}
  <2>1. ASSUME NEW y \in S PROVE y \in 0 .. L
    <3>1. PICK i \in DOMAIN exps : y = NumBits(exps[i])
      OBVIOUS
    <3>. QED
      BY <1>1, <1>2, <3>1
  <2>2. NumBits(exps[1]) \in S
    BY <1>1
  <2>. HIDE DEF S
  <2>. QED
    BY <2>1, <2>2
<1>. DEFINE x == Max(S)
<1>4. x \in S /\ \A y \in S : y <= x
  <2>. HIDE DEF S
  <2>. QED
    BY <1>3, Greatest
<1>. HIDE DEF x
<1>5. x \in 0 .. L /\ x \in Nat
  BY <1>3, <1>4
<1>6. ASSUME NEW i \in 1 .. n PROVE exps[i] < TwoTo[x]
  <2>. DEFINE a == exps[i]
              b == NumBits(a)
  <2>1. a \in Nat /\ b \in Nat /\ a < TwoTo[b] /\ b <= x
    BY <1>1, <1>2, <1>4
  <2>. HIDE DEF a, b
  <2>2. TwoTo[b] <= TwoTo[x] /\ TwoTo[b] \in Nat /\ TwoTo[x] \in Nat
    BY <1>5, <2>1, TwoToMonotone, TwoToStep
  <2>3. a < TwoTo[x]
    BY <2>1, <2>2
  <2>. QED
    BY <2>3 DEF a
<1>7. Longest(exps) = x
  BY Zenon DEF Longest, x
<1>. QED
  BY <1>1, <1>5, <1>6, <1>7 DEF Within, n

\* The digits of the exponents with one number, and the cell that they select.
Column(exps, r, w) == [j \in 1 .. Len(exps) |-> digit(exps[j], r, w)]

LEMMA CellIsColumn ==
  ASSUME NEW exps \in Seq(Nat), NEW bases \in Seq(Nat), Len(exps) = Len(bases),
         NEW r \in Nat, NEW w \in Nat, NEW m \in Nat \ {0}
  PROVE  /\ Lists(bases, Column(exps, r, w))
         /\ Digits(bases, expcol(exps, r, w), w) = Column(exps, r, w)
         /\ expcol(exps, r, w) = 0 => ProductOfPowers(bases, Column(exps, r, w), m) = 1 % m
<1>. DEFINE n == Len(bases)
            col == expcol(exps, r, w)
            C == Column(exps, r, w)
<1>1. n \in Nat /\ Len(exps) = n /\ \A j \in 1 .. n : exps[j] \in Nat
  OBVIOUS
<1>. HIDE DEF n
<1>2. \A j \in 1 .. n : C[j] = digit(exps[j], r, w) /\ C[j] \in Nat
  <2>1. \A a \in Nat : digit(a, r, w) \in Nat
    BY DigitSplit
  <2>. QED
    BY <1>1, <2>1 DEF Column
<1>3. Lists(bases, C)
  BY <1>2 DEF Lists, n
<1>4. \A j \in 1 .. n : digit(col, j - 1, w) = C[j]
  <2>1. \A j \in 1 .. Len(exps) : digit(expcol(exps, r, w), j - 1, w) = digit(exps[j], r, w)
    BY CellDigits
  <2>. HIDE DEF C, col
  <2>. QED
    BY <1>1, <1>2, <2>1 DEF col
<1>5. Digits(bases, col, w) = C
  <2>1. C = [j \in 1 .. n |-> C[j]]
    BY <1>1 DEF Column
  <2>2. Digits(bases, col, w) = [j \in 1 .. n |-> digit(col, j - 1, w)]
    BY DEF Digits, n
  <2>. HIDE DEF C, col
  <2>. QED
    BY <1>4, <2>1, <2>2
<1>6. ASSUME col = 0 PROVE ProductOfPowers(bases, C, m) = 1 % m
  <2>1. \A j \in 1 .. n : C[j] = 0
    <3>1. ASSUME NEW i \in Nat PROVE digit(0, i, w) = 0
      <4>1. w * i \in Nat /\ 0 \in Nat
        OBVIOUS
      <4>2. 0 < TwoTo[w * i]
        <5>1. \A y \in Nat : TwoTo[y] \in Nat \ {0}
          BY TwoToStep
        <5>. QED
          BY <4>1, <5>1
      <4>. QED
        BY <4>1, <4>2, DigitBeyond
    <3>2. \A j \in 1 .. n : j - 1 \in Nat
      BY <1>1
    <3>. QED
      BY <1>4, <1>6, <3>1, <3>2
  <2>2. NoneBut(0, bases, C)
    <3>. HIDE DEF C
    <3>. QED
      BY <2>1 DEF NoneBut, n
  <2>. HIDE DEF C
  <2>. QED
    BY <1>3, <2>2, ProductOfNone
<1>. QED
  BY <1>3, <1>5, <1>6

\* The loop over the columns squares, and multiplies with a cell.
Squarings(G, exps, m, f) ==
  f = [i \in 0 .. Longest(exps) |->
         IF i = 0 THEN 1
         ELSE LET a == f[i - 1]
                  col == expcol(exps, Longest(exps) - i, 1)
              IN  IF col = 0 THEN MulMod(a, a, m) ELSE MulMod(MulMod(a, a, m), G[col], m)]

\* The bits of the exponents from the highest down to a place.
Upper(exps, k) == [j \in 1 .. Len(exps) |-> exps[j] \div TwoTo[k]]

LEMMA SquaringStep ==
  ASSUME NEW bases \in Seq(Nat), NEW exps \in Seq(Nat), Len(exps) = Len(bases),
         NEW m \in Nat \ {0}, NEW k \in Nat
  PROVE  /\ Lists(bases, Upper(exps, k))
         /\ ProductOfPowers(bases, Upper(exps, k), m) =
              LET a == ProductOfPowers(bases, Upper(exps, k + 1), m)
                  col == expcol(exps, k, 1)
              IN  IF col = 0 THEN MulMod(a, a, m)
                             ELSE MulMod(MulMod(a, a, m), precompute(bases, m)[col], m)
<1>. DEFINE n == Len(bases)
            U == Upper(exps, k)
            V == Upper(exps, k + 1)
            C == Column(exps, k, 1)
            W == [j \in 1 .. n |-> V[j] * 2]
            a == ProductOfPowers(bases, V, m)
            col == expcol(exps, k, 1)
            c == ProductOfPowers(bases, C, m)
            g == precompute(bases, m)[col]
<1>1. n \in Nat /\ Len(exps) = n /\ \A j \in 1 .. n : exps[j] \in Nat
  OBVIOUS
<1>. HIDE DEF n
<1>2. \A j \in 1 .. n : U[j] \in Nat /\ V[j] \in Nat /\ W[j] = V[j] * 2 /\ W[j] \in Nat
  <2>1. \A y \in Nat : TwoTo[y] \in Nat \ {0}
    BY TwoToStep
  <2>2. TwoTo[k] \in Nat \ {0} /\ TwoTo[k + 1] \in Nat \ {0}
    BY <2>1
  <2>3. \A x \in Nat : x \div TwoTo[k] \in Nat /\ x \div TwoTo[k + 1] \in Nat
    BY <2>2, Remainder
  <2>4. \A j \in 1 .. n : U[j] = exps[j] \div TwoTo[k] /\ V[j] = exps[j] \div TwoTo[k + 1]
    BY <1>1 DEF Upper
  <2>5. \A j \in 1 .. n : U[j] \in Nat /\ V[j] \in Nat
    BY <1>1, <2>3, <2>4
  <2>. HIDE DEF U, V
  <2>. QED
    BY <2>5
<1>3. Lists(bases, U) /\ Lists(bases, V) /\ Lists(bases, W)
  <2>. HIDE DEF U, V, W
  <2>. QED
    BY <1>2 DEF Lists, n
<1>4. /\ Lists(bases, C) /\ Digits(bases, col, 1) = C
      /\ col = 0 => c = 1 % m
  <2>1. PICK w \in Nat : w = 1
    OBVIOUS
  <2>2. /\ Lists(bases, Column(exps, k, w))
        /\ Digits(bases, expcol(exps, k, w), w) = Column(exps, k, w)
        /\ expcol(exps, k, w) = 0 => ProductOfPowers(bases, Column(exps, k, w), m) = 1 % m
    BY CellIsColumn
  <2>. QED
    BY <2>1, <2>2
<1>5. \A j \in 1 .. n : U[j] = W[j] + C[j]
  <2>1. TwoTo[1] = 2 /\ 1 * k = k /\ 1 * (k + 1) = k + 1 /\ 1 \in Nat
    <3>1. TwoTo[0 + 1] = 2 * TwoTo[0] /\ 0 + 1 = 1
      BY TwoToStep
    <3>. QED
      BY <3>1, TwoToStep
  <2>2. ASSUME NEW x \in Nat PROVE x \div TwoTo[k] = (x \div TwoTo[k + 1]) * 2 + digit(x, k, 1)
    <3>1. PICK w \in Nat : w = 1
      OBVIOUS
    <3>2. x \div TwoTo[w * k] = (x \div TwoTo[w * (k + 1)]) * TwoTo[w] + digit(x, k, w)
      BY DigitSplit
    <3>. QED
      BY <2>1, <3>1, <3>2
  <2>. QED
    BY <1>1, <2>2 DEF Upper, Column
<1>6. col \in Masks(bases)
  <2>1. PICK w \in Nat : w = 1
    OBVIOUS
  <2>2. expcol(exps, k, w) \in 0 .. TwoTo[w * Len(exps)] - 1
    BY CellDigits
  <2>3. 1 * n = n
    BY <1>1
  <2>. QED
    BY <1>1, <2>1, <2>2, <2>3 DEF Masks, n
<1>7. g \in Nat /\ g % m = c
  <2>1. /\ precompute(bases, m)[col] \in Nat
        /\ precompute(bases, m)[col] % m = ProductOfPowers(bases, Digits(bases, col, 1), m)
    <3>. HIDE DEF col
    <3>. QED
      BY <1>6, PrecomputeIsProduct
  <2>. HIDE DEF col, C
  <2>. QED
    BY <1>4, <2>1
<1>. HIDE DEF U, V, W, C, col, g
<1>8. a \in 0 .. m - 1 /\ a \in Nat /\ c \in Nat
  <2>1. \A e : Lists(bases, e) => ProductOfPowers(bases, e, m) \in 0 .. m - 1
    BY NaturalProduct
  <2>2. \A x \in 0 .. m - 1 : x \in Nat
    OBVIOUS
  <2>. QED
    BY <1>3, <1>4, <2>1, <2>2
<1>9. ProductOfPowers(bases, W, m) = MulMod(a, a, m)
  <2>1. ProductOfPowers(bases, W, m) = Powers(a, m)[2]
    <3>1. \A j \in 1 .. Len(bases) : W[j] = V[j] * 2
      BY <1>2 DEF n
    <3>2. PICK t \in Nat : t = 2
      OBVIOUS
    <3>3. \A j \in 1 .. Len(bases) : W[j] = V[j] * t
      BY <3>1, <3>2
    <3>4. ProductOfPowers(bases, W, m) = Powers(ProductOfPowers(bases, V, m), m)[t]
      BY <1>3, <3>3, ProductMultiply
    <3>. QED
      BY <3>2, <3>4
  <2>. HIDE DEF a
  <2>2. Powers(a, m)[1] = a /\ Powers(a, m)[1 + 1] = MulMod(Powers(a, m)[1], a, m)
    BY <1>8, PowersOne, PowersStep
  <2>. QED
    BY <2>1, <2>2
<1>10. ProductOfPowers(bases, U, m) = MulMod(MulMod(a, a, m), c, m)
  <2>1. \A j \in 1 .. Len(bases) : U[j] = W[j] + C[j]
    BY <1>5 DEF n
  <2>2. ProductOfPowers(bases, U, m) = MulMod(ProductOfPowers(bases, W, m), c, m)
    BY <1>3, <1>4, <2>1, ProductAdd
  <2>. QED
    BY <1>9, <2>2
<1>. HIDE DEF a, c
<1>11. MulMod(a, a, m) \in 0 .. m - 1 /\ MulMod(a, a, m) \in Nat
  BY <1>8, MulModReduced
<1>12. CASE col = 0
  <2>1. ProductOfPowers(bases, U, m) = MulMod(a, a, m)
    BY <1>4, <1>10, <1>11, <1>12, MulModOne
  <2>. QED
    BY <1>3, <1>12, <2>1 DEF U, V, a, col
<1>13. CASE col # 0
  <2>1. ProductOfPowers(bases, U, m) = MulMod(MulMod(a, a, m), g, m)
    BY <1>7, <1>10, <1>11, MulModReduced
  <2>. QED
    BY <1>3, <1>13, <2>1 DEF U, V, a, col, g
<1>. QED
  BY <1>12, <1>13

\* MultiExpCacher::exp: the columns of bits of the exponents, from the highest,
\* with a square in front of each, make up the product of the powers.
THEOREM SimultaneousIsProduct ==
  ASSUME NEW L \in Nat, NEW m \in Nat, m > 1, NEW bases \in Seq(Nat), NEW exps,
         Within(exps, L), Len(exps) = Len(bases), Len(bases) # 0
  PROVE  simultaneous(precompute(bases, m), exps, m) = ProductOfPowers(bases, exps, m)
<1>. DEFINE t == Longest(exps)
            G == precompute(bases, m)
            P(k) == ProductOfPowers(bases, Upper(exps, k), m)
            Next(a, k) == LET col == expcol(exps, k, 1)
                          IN  IF col = 0 THEN MulMod(a, a, m) ELSE MulMod(MulMod(a, a, m), G[col], m)
            Is(f) == Squarings(G, exps, m, f)
            p == [i \in 0 .. t |-> P(t - i)]
            g == CHOOSE f : Is(f)
<1>1. t \in Nat /\ Within(exps, t) /\ exps \in Seq(Nat) /\ m \in Nat \ {0}
  <2>1. t \in 0 .. L /\ Within(exps, t)
    BY LongestIsEnough
  <2>. HIDE DEF t
  <2>. QED
    BY <2>1 DEF Within
<1>2. \A k \in Nat : P(k) = Next(P(k + 1), k) /\ Lists(bases, Upper(exps, k))
  BY <1>1, SquaringStep
<1>3. P(t) = 1
  <2>1. ASSUME NEW j \in 1 .. Len(bases) PROVE Upper(exps, t)[j] = 0
    <3>. DEFINE x == exps[j]
                y == TwoTo[t]
    <3>1. x \in Nat /\ x < y /\ y \in Nat \ {0}
      <4>1. \A z \in Nat : TwoTo[z] \in Nat \ {0}
        BY TwoToStep
      <4>. HIDE DEF t
      <4>. QED
        BY <1>1, <4>1 DEF Within
    <3>2. Upper(exps, t)[j] = x \div y
      BY DEF Upper
    <3>. HIDE DEF x, y
    <3>3. x = y * 0 + x /\ x \in 0 .. y - 1
      BY <3>1
    <3>4. x \div y = 0
      BY <3>1, <3>3, QuotientIsUnique
    <3>. QED
      BY <3>2, <3>4
  <2>2. NoneBut(0, bases, Upper(exps, t)) /\ Lists(bases, Upper(exps, t))
    BY <1>1, <1>2, <2>1 DEF NoneBut
  <2>3. P(t) = 1 % m
    BY <1>1, <2>2, ProductOfNone
  <2>. QED
    BY <2>3
<1>4. P(0) = ProductOfPowers(bases, exps, m)
  <2>1. \A j \in 1 .. Len(bases) : Upper(exps, 0)[j] = exps[j]
    <3>1. \A x \in Nat : x \div 1 = x
      OBVIOUS
    <3>2. \A j \in 1 .. Len(bases) : exps[j] \in Nat /\ Upper(exps, 0)[j] = exps[j] \div TwoTo[0]
      BY <1>1 DEF Upper
    <3>. QED
      BY <3>1, <3>2, TwoToStep
  <2>2. Lists(bases, exps)
    BY <1>1 DEF Lists
  <2>. QED
    BY <1>1, <2>1, <2>2, ProductSame
<1>. HIDE DEF t
<1>5. \A f : Is(f) <=> f = [i \in 0 .. t |-> IF i = 0 THEN 1 ELSE Next(f[i - 1], t - i)]
  BY Zenon DEF Squarings, t
<1>. HIDE DEF P, Next, Is
<1>6. \A i \in 1 .. t : P(t - i) = Next(P(t - (i - 1)), t - i)
  <2>1. \A i \in 1 .. t : t - i \in Nat /\ (t - i) + 1 = t - (i - 1)
    BY <1>1
  <2>. QED
    BY <1>2, <2>1
<1>7. Is(p)
  <2>1. \A i \in 0 .. t : i # 0 => i \in 1 .. t /\ i - 1 \in 0 .. t
    BY <1>1
  <2>2. \A i \in 0 .. t : P(t - i) = IF i = 0 THEN 1 ELSE Next(p[i - 1], t - i)
    <3>1. t - 0 = t
      BY <1>1
    <3>. QED
      BY <1>3, <1>6, <2>1, <3>1
  <2>3. p = [i \in 0 .. t |-> IF i = 0 THEN 1 ELSE Next(p[i - 1], t - i)]
    BY <2>2
  <2>. HIDE DEF p
  <2>. QED
    BY <1>5, <2>3
<1>8. Is(g)
  BY <1>7, Zenon
<1>9. simultaneous(G, exps, m) = g[t]
  BY Zenon DEF simultaneous, Squarings, t, Is
<1>. HIDE DEF g, p
<1>10. g[0] = 1 /\ \A i \in 1 .. t : g[i] = Next(g[i - 1], t - i)
  <2>1. g = [i \in 0 .. t |-> IF i = 0 THEN 1 ELSE Next(g[i - 1], t - i)]
    BY <1>5, <1>8
  <2>2. 0 \in 0 .. t /\ \A i \in 1 .. t : i \in 0 .. t /\ i # 0
    BY <1>1
  <2>. QED
    BY <2>1, <2>2
<1>. DEFINE Good == {i \in 0 .. t : g[i] = P(t - i)}
<1>11. 0 \in Good /\ \A i \in 1 .. t : i - 1 \in Good => i \in Good
  <2>1. t - 0 = t /\ 0 \in 0 .. t /\ \A i \in 1 .. t : i \in 0 .. t
    BY <1>1
  <2>. QED
    BY <1>3, <1>6, <1>10, <2>1
<1>12. \A i \in 0 .. t : i \in Good
  <2>. HIDE DEF Good
  <2>. QED
    BY <1>1, <1>11, Counting
<1>13. g[t] = P(0)
  <2>1. t \in 0 .. t /\ t - t = 0
    BY <1>1
  <2>. QED
    BY <1>12, <2>1
<1>. QED
  BY <1>4, <1>9, <1>13
-----------------------------------------------------------------------------
(* The table of one base.                                                  *)
Row(mult, m, f) ==
  f = [j \in 0 .. TwoTo[K] - 1 |-> IF j = 0 THEN 1 ELSE MulMod(mult, f[j - 1], m)]
RowOf(mult, m) == CHOOSE f : Row(mult, m, f)
Multipliers(base, m, f) ==
  f = [r \in 0 .. numLookups(MAX_EXPLEN) |->
         IF r = 0 THEN base
         ELSE LET mult == f[r - 1] IN MulMod(mult, RowOf(mult, m)[TwoTo[K] - 1], m)]
MultiplierOf(base, m) == CHOOSE f : Multipliers(base, m, f)

\* A row holds the powers of its multiplier.
LEMMA RowIsPowers ==
  ASSUME NEW m \in Nat, m > 1, NEW mult \in Nat
  PROVE  /\ DOMAIN RowOf(mult, m) = 0 .. TwoTo[K] - 1
         /\ \A j \in 0 .. TwoTo[K] - 1 : RowOf(mult, m)[j] = Powers(mult % m, m)[j]
<1>. DEFINE n == TwoTo[K] - 1
            b == mult % m
            P == Powers(b, m)
            Is(f) == Row(mult, m, f)
            p == [j \in 0 .. n |-> P[j]]
            g == RowOf(mult, m)
<1>1. n \in Nat /\ m \in Nat \ {0} /\ b \in Nat
  <2>1. TwoTo[K] \in Nat \ {0}
    BY TwoToStep, ExponentiationAssumption
  <2>2. mult % m \in Nat
    OBVIOUS
  <2>. QED
    BY <2>1, <2>2
<1>2. /\ P[0] = 1 /\ \A j \in Nat : P[j] \in Nat
      /\ \A j \in 1 .. n : P[j] = MulMod(mult, P[j - 1], m)
  <2>. HIDE DEF b
  <2>1. P[0] = 1 % m /\ \A j \in Nat : P[j] \in Nat /\ P[j + 1] = MulMod(P[j], b, m)
    BY <1>1, PowersStep
  <2>2. \A x \in Nat : MulMod(x, b, m) = MulMod(mult, x, m)
    BY <1>1, MulModReduced DEF b
  <2>3. \A j \in 1 .. n : j - 1 \in Nat /\ (j - 1) + 1 = j
    OBVIOUS
  <2>. HIDE DEF P, n
  <2>4. \A j \in 1 .. n : P[j] = MulMod(mult, P[j - 1], m)
    BY <2>1, <2>2, <2>3
  <2>5. 1 % m = 1
    OBVIOUS
  <2>. QED
    BY <2>1, <2>4, <2>5
<1>3. \A f : Is(f) <=> f = [j \in 0 .. n |-> IF j = 0 THEN 1 ELSE MulMod(mult, f[j - 1], m)]
  BY Zenon DEF Row
<1>4. 0 \in 0 .. n /\ \A j \in 1 .. n : j \in 0 .. n /\ j - 1 \in 0 .. n /\ j # 0
  BY <1>1
<1>5. \A j \in 0 .. n : j # 0 => j \in 1 .. n
  OBVIOUS
<1>. HIDE DEF P, n, Is
<1>6. Is(p)
  <2>1. \A j \in 0 .. n : P[j] = IF j = 0 THEN 1 ELSE MulMod(mult, p[j - 1], m)
    BY <1>2, <1>4, <1>5
  <2>2. p = [j \in 0 .. n |-> IF j = 0 THEN 1 ELSE MulMod(mult, p[j - 1], m)]
    BY <2>1
  <2>. HIDE DEF p
  <2>. QED
    BY <1>3, <2>2
<1>7. Is(g)
  BY <1>6, Zenon DEF RowOf, Is
<1>. HIDE DEF g
<1>8. g = [j \in 0 .. n |-> IF j = 0 THEN 1 ELSE MulMod(mult, g[j - 1], m)]
  BY <1>3, <1>7
<1>. DEFINE Good == {j \in 0 .. n : g[j] = P[j]}
<1>9. 0 \in Good /\ \A j \in 1 .. n : j - 1 \in Good => j \in Good
  BY <1>2, <1>4, <1>8
<1>10. \A j \in 0 .. n : j \in Good
  <2>. HIDE DEF Good
  <2>. QED
    BY <1>1, <1>9, Counting
<1>11. DOMAIN g = 0 .. n
  BY <1>8
<1>. QED
  BY <1>10, <1>11 DEF g, P, n

\* The rows of a table have the powers of the base to the powers of 2^K.
LEMMA MultiplierIsPower ==
  ASSUME NEW m \in Nat, m > 1, NEW base \in Nat
  PROVE  \A r \in 0 .. numLookups(MAX_EXPLEN) :
            /\ MultiplierOf(base, m)[r] \in Nat
            /\ MultiplierOf(base, m)[r] % m = Powers(base % m, m)[TwoTo[K * r]]
<1>. DEFINE n == numLookups(MAX_EXPLEN)
            b == base % m
            P == Powers(b, m)
            q == TwoTo[K]
            Next(x) == MulMod(x, RowOf(x, m)[q - 1], m)
            Is(f) == Multipliers(base, m, f)
            p == [r \in 0 .. n |-> IF r = 0 THEN base ELSE P[TwoTo[K * r]]]
            g == MultiplierOf(base, m)
<1>1. n \in Nat /\ q \in Nat \ {0} /\ m \in Nat \ {0} /\ b \in 0 .. m - 1 /\ b \in Nat
  <2>1. MAX_EXPLEN \div K \in Nat /\ q \in Nat \ {0} /\ K \in Nat
    BY ExponentiationAssumption, Remainder, TwoToStep
  <2>2. base % m \in 0 .. m - 1
    OBVIOUS
  <2>. QED
    BY <2>1, <2>2 DEF numLookups
<1>2. \A r \in Nat : TwoTo[K * r] \in Nat
  <2>1. \A r \in Nat : K * r \in Nat
    BY ExponentiationAssumption
  <2>. QED
    BY <2>1, TwoToStep
<1>3. \A j \in Nat : P[j] \in 0 .. m - 1 /\ P[j] \in Nat /\ P[j] % m = P[j]
  <2>1. \A j \in Nat : P[j] \in 0 .. m - 1
    BY <1>1, PowersStep
  <2>2. \A x \in 0 .. m - 1 : x \in Nat /\ x % m = x
    OBVIOUS
  <2>. HIDE DEF P
  <2>. QED
    BY <2>1, <2>2
<1>. HIDE DEF n, q, b, P
<1>4. \A r \in 0 .. n : p[r] \in Nat /\ p[r] % m = P[TwoTo[K * r]]
  <2>1. ASSUME NEW r \in 0 .. n, r # 0 PROVE p[r] \in Nat /\ p[r] % m = P[TwoTo[K * r]]
    <3>1. r \in Nat
      BY <1>1
    <3>. QED
      BY <1>2, <1>3, <2>1, <3>1
  <2>2. P[TwoTo[K * 0]] = b
    <3>1. K * 0 = 0
      BY ExponentiationAssumption
    <3>2. P[1] = b
      BY <1>1, PowersOne DEF P
    <3>. QED
      BY <3>1, <3>2, TwoToStep
  <2>3. 0 \in 0 .. n
    BY <1>1
  <2>4. p[0] \in Nat /\ p[0] % m = P[TwoTo[K * 0]]
    BY <2>2, <2>3 DEF b
  <2>. HIDE DEF p
  <2>. QED
    BY <2>1, <2>4
<1>5. \A x \in Nat : Next(x) = Powers(x % m, m)[q]
  <2>1. ASSUME NEW x \in Nat PROVE Next(x) = Powers(x % m, m)[q]
    <3>. DEFINE y == x % m
                k == q - 1
                z == Powers(y, m)[k]
    <3>1. y \in Nat /\ k \in Nat /\ k + 1 = q /\ k \in 0 .. TwoTo[K] - 1
      <4>1. x % m \in Nat
        OBVIOUS
      <4>. QED
        BY <1>1, <4>1 DEF q
    <3>2. RowOf(x, m)[k] = z
      BY <3>1, RowIsPowers
    <3>. HIDE DEF y, k
    <3>3. z \in Nat /\ Powers(y, m)[k + 1] = MulMod(z, y, m)
      BY <1>1, <3>1, PowersStep
    <3>. HIDE DEF z
    <3>4. MulMod(x, z, m) = MulMod(z, y, m)
      BY <1>1, <3>3, MulModReduced DEF y
    <3>. QED
      BY <3>1, <3>2, <3>3, <3>4 DEF y, k
  <2>. HIDE DEF Next
  <2>. QED
    BY <2>1
<1>. HIDE DEF Next, p
<1>6. \A r \in 1 .. n : Next(p[r - 1]) = P[TwoTo[K * r]]
  <2>1. ASSUME NEW r \in 1 .. n PROVE Next(p[r - 1]) = P[TwoTo[K * r]]
    <3>. DEFINE s == r - 1
                e == TwoTo[K * s]
                x == p[s]
    <3>1. s \in 0 .. n /\ s \in Nat /\ r = s + 1
      BY <1>1
    <3>2. x \in Nat /\ x % m = P[e] /\ e \in Nat
      BY <1>2, <1>4, <3>1
    <3>. HIDE DEF e, x
    <3>3. Next(x) = Powers(P[e], m)[q]
      BY <1>5, <3>2
    <3>4. Powers(b, m)[e * q] = Powers(Powers(b, m)[e], m)[q]
      BY <1>1, <3>2, PowersMultiply
    <3>5. TwoTo[K * r] = e * q
      <4>. DEFINE u == K * s
      <4>1. u \in Nat /\ K \in Nat /\ K * r = u + K
        BY <3>1, ExponentiationAssumption
      <4>. HIDE DEF u
      <4>2. TwoTo[u + K] = TwoTo[u] * TwoTo[K]
        BY <4>1, TwoToAdd
      <4>. QED
        BY <4>1, <4>2 DEF e, u, q
    <3>. QED
      BY <3>3, <3>4, <3>5 DEF P, x
  <2>. QED
    BY <2>1
<1>7. \A f : Is(f) <=> f = [r \in 0 .. n |-> IF r = 0 THEN base ELSE Next(f[r - 1])]
  BY Zenon DEF Multipliers, Next, n, q
<1>. HIDE DEF Is
<1>8. \A r \in 0 .. n : r # 0 => r \in 1 .. n
  BY <1>1
<1>9. 0 \in 0 .. n /\ \A r \in 1 .. n : r \in 0 .. n /\ r # 0
  BY <1>1
<1>10. Is(p)
  <2>1. \A r \in 0 .. n : (IF r = 0 THEN base ELSE P[TwoTo[K * r]]) = IF r = 0 THEN base ELSE Next(p[r - 1])
    BY <1>6, <1>8
  <2>2. p = [r \in 0 .. n |-> IF r = 0 THEN base ELSE Next(p[r - 1])]
    BY <2>1, Zenon DEF p
  <2>. QED
    BY <1>7, <2>2
<1>11. Is(g)
  BY <1>10, Zenon DEF MultiplierOf, Is
<1>. HIDE DEF g
<1>12. g = [r \in 0 .. n |-> IF r = 0 THEN base ELSE Next(g[r - 1])]
  BY <1>7, <1>11
<1>13. p = [r \in 0 .. n |-> IF r = 0 THEN base ELSE Next(p[r - 1])]
  BY <1>7, <1>10
<1>. DEFINE Good == {r \in 0 .. n : g[r] = p[r]}
<1>14. 0 \in Good /\ \A r \in 1 .. n : r - 1 \in Good => r \in Good
  BY <1>9, <1>12, <1>13
<1>15. \A r \in 0 .. n : r \in Good
  <2>. HIDE DEF Good
  <2>. QED
    BY <1>1, <1>14, Counting
<1>. QED
  BY <1>4, <1>15 DEF g, P, b, n

LEMMA TableCell ==
  ASSUME NEW m \in Nat, m > 1, NEW base \in Nat
  PROVE  /\ DOMAIN powerTable(base, m) = 0 .. numLookups(MAX_EXPLEN) - 1
         /\ \A r \in 0 .. numLookups(MAX_EXPLEN) - 1 : \A j \in 0 .. TwoTo[K] - 1 :
              powerTable(base, m)[r][j] = Powers(Powers(base % m, m)[TwoTo[K * r]], m)[j]
<1>. DEFINE n == numLookups(MAX_EXPLEN)
            g == MultiplierOf(base, m)
<1>1. powerTable(base, m) = [r \in 0 .. n - 1 |-> RowOf(g[r], m)]
  BY Zenon DEF powerTable, RowOf, Row, MultiplierOf, Multipliers
<1>2. n \in Nat
  <2>1. MAX_EXPLEN \div K \in Nat
    BY ExponentiationAssumption, Remainder
  <2>. QED
    BY <2>1 DEF numLookups
<1>3. \A r \in 0 .. n : g[r] \in Nat /\ g[r] % m = Powers(base % m, m)[TwoTo[K * r]]
  BY MultiplierIsPower
<1>. HIDE DEF n, g
<1>4. ASSUME NEW r \in 0 .. n - 1, NEW j \in 0 .. TwoTo[K] - 1
      PROVE  powerTable(base, m)[r][j] = Powers(Powers(base % m, m)[TwoTo[K * r]], m)[j]
  <2>1. r \in 0 .. n
    BY <1>2
  <2>. DEFINE x == g[r]
  <2>2. x \in Nat /\ x % m = Powers(base % m, m)[TwoTo[K * r]]
    BY <1>3, <2>1
  <2>3. powerTable(base, m)[r] = RowOf(x, m)
    BY <1>1
  <2>. HIDE DEF x
  <2>4. RowOf(x, m)[j] = Powers(x % m, m)[j]
    BY <2>2, RowIsPowers
  <2>. QED
    BY <2>2, <2>3, <2>4
<1>5. DOMAIN powerTable(base, m) = 0 .. n - 1
  BY <1>1
<1>. QED
  BY <1>4, <1>5 DEF n

\* The loop over the words of an exponent.
Words(table, n, m, f) ==
  f = [r \in 0 .. NumBits(n) \div K + 1 |->
        IF r = 0 THEN 1
        ELSE LET A == f[r - 1]
                 word == digit(n, r - 1, K)
             IN  CASE A = OVERRUN \/ (word > 0 /\ r - 1 \notin DOMAIN table) -> OVERRUN
                   [] A # OVERRUN /\ word = 0 -> A
                   [] OTHER -> MulMod(A, table[r - 1][word], m)]

\* The words of an exponent below one.
Below(n, r) == n % TwoTo[K * r]

\* Words beyond the length of an exponent are 0, and the table has a row for
\* each of the others.
OneMoreWord(m, base, n, s) ==
  LET b == base % m
      table == powerTable(base, m)
      word == digit(n, s, K)
      A == Powers(b, m)[Below(n, s)]
      B == Powers(b, m)[Below(n, s + 1)]
  IN  /\ A \in Nat /\ word \in Nat
      /\ word > 0 => s \in DOMAIN table
      /\ B = IF word = 0 THEN A ELSE MulMod(A, table[s][word], m)

LEMMA WordStep ==
  ASSUME NEW m \in Nat, NEW base \in Nat, NEW n \in Nat, NEW s \in Nat,
         m > 1, n < TwoTo[MAX_EXPLEN]
  PROVE  OneMoreWord(m, base, n, s)
<1>. DEFINE b == base % m
            table == powerTable(base, m)
            P == Powers(b, m)
            word == digit(n, s, K)
            p == TwoTo[K * s]
            a == n % p
<1>. SUFFICES LET A == P[Below(n, s)]
                  B == P[Below(n, s + 1)]
              IN  /\ A \in Nat /\ word \in Nat
                  /\ word > 0 => s \in DOMAIN table
                  /\ B = IF word = 0 THEN A ELSE MulMod(A, table[s][word], m)
  BY Zenon DEF OneMoreWord
<1>1. K \in Nat \ {0} /\ MAX_EXPLEN \in Nat /\ b \in Nat /\ m \in Nat \ {0} /\ K * s \in Nat
  <2>1. K \in Nat \ {0} /\ MAX_EXPLEN \in Nat
    BY ExponentiationAssumption
  <2>. QED
    BY <2>1
<1>2. p \in Nat \ {0}
  BY <1>1, TwoToStep
<1>3. word \in 0 .. TwoTo[K] - 1 /\ word \in Nat /\ n % TwoTo[K * (s + 1)] = a + word * p
  <2>1. PICK w \in Nat : w = K
    BY <1>1
  <2>2. /\ digit(n, s, w) \in 0 .. TwoTo[w] - 1 /\ digit(n, s, w) \in Nat
        /\ n % TwoTo[w * (s + 1)] = (n % TwoTo[w * s]) + digit(n, s, w) * TwoTo[w * s]
    BY DigitSplit
  <2>. QED
    BY <2>1, <2>2
<1>4. a \in Nat
  BY <1>2
<1>5. word > 0 => s \in 0 .. numLookups(MAX_EXPLEN) - 1
  <2>1. SUFFICES ASSUME word > 0 PROVE s \in 0 .. numLookups(MAX_EXPLEN) - 1
    OBVIOUS
  <2>2. p <= n
    <3>1. SUFFICES ASSUME n < p PROVE FALSE
      BY <1>2
    <3>2. word = 0
      BY <1>1, <3>1, DigitBeyond
    <3>. QED
      BY <2>1, <3>2
  <2>3. K * s < MAX_EXPLEN
    <3>. DEFINE u == K * s
                v == TwoTo[MAX_EXPLEN]
    <3>1. SUFFICES ASSUME MAX_EXPLEN <= u PROVE FALSE
      BY <1>1
    <3>2. u \in Nat /\ p = TwoTo[u]
      BY <1>1
    <3>. HIDE DEF u, p
    <3>3. v <= p /\ v \in Nat
      BY <1>1, <3>1, <3>2, TwoToMonotone, TwoToStep
    <3>4. n < v
      OBVIOUS
    <3>. HIDE DEF v
    <3>. QED
      BY <1>2, <2>2, <3>3, <3>4
  <2>4. s <= MAX_EXPLEN \div K
    <3>. DEFINE d == MAX_EXPLEN \div K
                r == MAX_EXPLEN % K
    <3>1. MAX_EXPLEN = K * d + r /\ r \in 0 .. K - 1 /\ d \in Nat
      BY <1>1, Remainder
    <3>. HIDE DEF d, r
    <3>2. SUFFICES ASSUME d < s PROVE FALSE
      BY <3>1 DEF d
    <3>3. PICK c \in Nat : s = d + 1 + c
      BY <3>1, <3>2, s - d - 1 \in Nat, s = d + 1 + (s - d - 1)
    <3>4. K * s = K * d + K + K * c /\ K * c \in Nat
      BY <1>1, <3>1, <3>3
    <3>. QED
      BY <1>1, <2>3, <3>1, <3>4
  <2>5. MAX_EXPLEN \div K \in Nat
    BY <1>1, Remainder
  <2>. HIDE DEF word, p
  <2>. QED
    BY <2>4, <2>5 DEF numLookups
<1>6. DOMAIN table = 0 .. numLookups(MAX_EXPLEN) - 1
  BY TableCell
<1>7. P[a] \in Nat /\ P[a] \in 0 .. m - 1
  BY <1>1, <1>4, PowersStep
<1>8. CASE word = 0
  <2>1. word * p = 0
    BY <1>2, <1>8
  <2>. HIDE DEF word, p, P
  <2>2. a + word * p = a
    BY <1>4, <2>1
  <2>. QED
    BY <1>3, <1>7, <1>8, <2>2 DEF P, word, p, Below
<1>9. CASE word # 0
  <2>1. s \in 0 .. numLookups(MAX_EXPLEN) - 1
    <3>1. word > 0
      BY <1>3, <1>9
    <3>. QED
      BY <1>5, <3>1
  <2>2. table[s][word] = Powers(P[p], m)[word]
    <3>. HIDE DEF word
    <3>. QED
      BY <1>3, <2>1, TableCell
  <2>. HIDE DEF word, a, p, table
  <2>3. Powers(b, m)[a + word * p] = MulMod(P[a], P[word * p], m)
    <3>. DEFINE e == word * p
    <3>1. e \in Nat
      BY <1>2, <1>3
    <3>. HIDE DEF e
    <3>2. P[a + e] = MulMod(P[a], P[e], m)
      <4>. HIDE DEF b
      <4>. QED
        BY <1>1, <1>4, <3>1, PowersAdd
    <3>. QED
      BY <3>2 DEF e
  <2>4. P[word * p] = Powers(P[p], m)[word]
    <3>1. P[p * word] = Powers(P[p], m)[word]
      <4>. HIDE DEF b
      <4>. QED
        BY <1>1, <1>2, <1>3, PowersMultiply
    <3>2. p * word = word * p
      BY <1>2, <1>3
    <3>. QED
      BY <3>1, <3>2
  <2>5. P[a + word * p] = MulMod(P[a], table[s][word], m)
    BY <2>2, <2>3, <2>4
  <2>. HIDE DEF P
  <2>. QED
    BY <1>3, <1>6, <1>7, <1>9, <2>1, <2>5 DEF P, word, a, p, table, Below
<1>. QED
  BY <1>8, <1>9

\* PowerCache::modPow: the words of the exponent, each looked up in its row,
\* make up the power, and no row is read past the table's end.
THEOREM TableModPowIsPower ==
  ASSUME NEW m \in Nat, m > 1, NEW base \in Nat, NEW n \in Nat, n < TwoTo[MAX_EXPLEN]
  PROVE  tableModPow(powerTable(base, m), n, m) = Powers(base % m, m)[n]
<1>. DEFINE t == NumBits(n) \div K + 1
            b == base % m
            table == powerTable(base, m)
            P(r) == Powers(b, m)[Below(n, r)]
            Next(A, s) == LET word == digit(n, s, K)
                          IN  CASE A = OVERRUN \/ (word > 0 /\ s \notin DOMAIN table) -> OVERRUN
                                [] A # OVERRUN /\ word = 0 -> A
                                [] OTHER -> MulMod(A, table[s][word], m)
            Is(f) == Words(table, n, m, f)
            p == [r \in 0 .. t |-> P(r)]
            g == CHOOSE f : Is(f)
<1>1. t \in Nat /\ n < TwoTo[K * t] /\ K \in Nat
  <2>. DEFINE x == NumBits(n)
              d == x \div K
              r == x % K
  <2>1. K \in Nat \ {0} /\ x \in Nat /\ n < TwoTo[x] /\ TwoTo[x] \in Nat
    BY ExponentiationAssumption, NumBitsIsLength, TwoToStep
  <2>. HIDE DEF x
  <2>2. x = K * d + r /\ r \in 0 .. K - 1 /\ d \in Nat
    BY <2>1, Remainder
  <2>. HIDE DEF d, r
  <2>. DEFINE u == K * (d + 1)
  <2>3. u \in Nat /\ x <= u
    <3>1. K * (d + 1) = K * d + K /\ K * d \in Nat
      BY <2>1, <2>2
    <3>. QED
      BY <2>1, <2>2, <3>1
  <2>. HIDE DEF u
  <2>4. TwoTo[x] <= TwoTo[u] /\ TwoTo[u] \in Nat
    BY <2>1, <2>3, TwoToMonotone, TwoToStep
  <2>5. n < TwoTo[u]
    BY <2>1, <2>4
  <2>6. t = d + 1
    BY DEF x, d
  <2>. HIDE DEF t
  <2>. QED
    BY <2>1, <2>2, <2>5, <2>6 DEF u
<1>2. ASSUME NEW s \in Nat PROVE P(s + 1) = Next(P(s), s)
  <2>. DEFINE word == digit(n, s, K)
              A == P(s)
  <2>1. /\ A \in Nat /\ word \in Nat
        /\ word > 0 => s \in DOMAIN table
        /\ P(s + 1) = IF word = 0 THEN A ELSE MulMod(A, table[s][word], m)
    <3>1. OneMoreWord(m, base, n, s)
      BY WordStep
    <3>. QED
      BY <3>1, Zenon DEF OneMoreWord
  <2>. HIDE DEF A, word
  <2>2. A # OVERRUN
    BY <2>1 DEF OVERRUN
  <2>. HIDE DEF P, table
  <2>3. (CASE A = OVERRUN \/ (word > 0 /\ s \notin DOMAIN table) -> OVERRUN
           [] A # OVERRUN /\ word = 0 -> A
           [] OTHER -> MulMod(A, table[s][word], m)) =
        IF word = 0 THEN A ELSE MulMod(A, table[s][word], m)
    <3>1. CASE word = 0
      BY <2>1, <2>2, <3>1
    <3>2. CASE word # 0
      <4>1. word > 0 /\ ~ (A = OVERRUN \/ (word > 0 /\ s \notin DOMAIN table))
        BY <2>1, <2>2, <3>2
      <4>. QED
        BY <3>2, <4>1
    <3>. QED
      BY <3>1, <3>2
  <2>. QED
    BY <2>1, <2>3 DEF A, word
<1>3. P(0) = 1
  <2>1. K * 0 = 0 /\ n % 1 = 0 /\ b \in Nat /\ m \in Nat \ {0} /\ 1 % m = 1
    BY <1>1
  <2>. HIDE DEF b
  <2>2. Powers(b, m)[0] = 1
    BY <2>1, PowersStep
  <2>. QED
    BY <2>1, <2>2, TwoToStep DEF Below
<1>4. P(t) = Powers(b, m)[n]
  <2>. DEFINE y == TwoTo[K * t]
  <2>1. \A z \in Nat : n < z => n % z = n
    OBVIOUS
  <2>2. K * t \in Nat
    BY <1>1
  <2>3. y \in Nat
    BY <2>2, TwoToStep
  <2>. HIDE DEF y
  <2>4. n % y = n
    BY <1>1, <2>1, <2>3 DEF y
  <2>. QED
    BY <2>4 DEF y, Below
<1>5. \A f : Is(f) <=> f = [r \in 0 .. t |-> IF r = 0 THEN 1 ELSE Next(f[r - 1], r - 1)]
  BY Zenon DEF Words
<1>6. tableModPow(table, n, m) = g[t]
  BY Zenon DEF tableModPow, Words
<1>. HIDE DEF P, Next, Is, t
<1>7. \A r \in 1 .. t : P(r) = Next(P(r - 1), r - 1)
  <2>1. \A r \in 1 .. t : r - 1 \in Nat /\ (r - 1) + 1 = r
    OBVIOUS
  <2>. QED
    BY <1>2, <2>1
<1>8. /\ 0 \in 0 .. t /\ t \in 0 .. t
      /\ \A r \in 1 .. t : r \in 0 .. t /\ r - 1 \in 0 .. t /\ r # 0
      /\ \A r \in 0 .. t : r # 0 => r \in 1 .. t
  BY <1>1
<1>9. Is(p)
  <2>1. \A r \in 0 .. t : P(r) = IF r = 0 THEN 1 ELSE Next(p[r - 1], r - 1)
    BY <1>3, <1>7, <1>8
  <2>2. p = [r \in 0 .. t |-> IF r = 0 THEN 1 ELSE Next(p[r - 1], r - 1)]
    BY <2>1
  <2>. HIDE DEF p
  <2>. QED
    BY <1>5, <2>2
<1>10. Is(g)
  BY <1>9, Zenon
<1>. HIDE DEF g, p
<1>11. g = [r \in 0 .. t |-> IF r = 0 THEN 1 ELSE Next(g[r - 1], r - 1)]
  BY <1>5, <1>10
<1>. DEFINE Good == {r \in 0 .. t : g[r] = P(r)}
<1>12. 0 \in Good /\ \A r \in 1 .. t : r - 1 \in Good => r \in Good
  BY <1>3, <1>7, <1>8, <1>11
<1>13. \A r \in 0 .. t : r \in Good
  <2>. HIDE DEF Good
  <2>. QED
    BY <1>1, <1>12, Counting
<1>. QED
  BY <1>4, <1>6, <1>8, <1>13
-----------------------------------------------------------------------------
(* The table of several bases.                                             *)
LEMMA PowersOfOne ==
  ASSUME NEW m \in Nat \ {0}, NEW k \in Nat
  PROVE  Powers(1 % m, m)[k] = 1 % m
<1>. DEFINE one == 1 % m
            Good == {j \in Nat : Powers(one, m)[j] = one}
<1>1. one \in 0 .. m - 1 /\ one \in Nat
  OBVIOUS
<1>2. MulMod(one, one, m) = one
  BY <1>1, MulModOne
<1>. HIDE DEF one
<1>3. Powers(one, m)[0] = one /\ \A j \in Nat : Powers(one, m)[j + 1] = MulMod(Powers(one, m)[j], one, m)
  BY <1>1, PowersStep DEF one
<1>4. 0 \in Good
  BY <1>3
<1>5. ASSUME NEW j \in 1 .. k, j - 1 \in Good PROVE j \in Good
  <2>1. j - 1 \in Nat /\ (j - 1) + 1 = j /\ j \in Nat
    OBVIOUS
  <2>. QED
    BY <1>2, <1>3, <1>5, <2>1
<1>6. \A j \in 0 .. k : j \in Good
  <2>. HIDE DEF Good
  <2>. QED
    BY <1>4, <1>5, Counting
<1>. QED
  BY <1>6 DEF one

LEMMA DivideMonotone ==
  ASSUME NEW a \in Nat, NEW b \in Nat, NEW w \in Nat \ {0}, a <= b
  PROVE  a \div w <= b \div w
<1>. DEFINE c == a \div w
            d == b \div w
            r == a % w
            s == b % w
<1>1. a = w * c + r /\ r \in 0 .. w - 1 /\ c \in Nat /\ b = w * d + s /\ s \in 0 .. w - 1 /\ d \in Nat
  BY Remainder
<1>. HIDE DEF c, d, r, s
<1>2. SUFFICES ASSUME d < c PROVE FALSE
  BY <1>1 DEF c, d
<1>3. PICK e \in Nat : c = d + 1 + e
  BY <1>1, <1>2, c - d - 1 \in Nat, c = d + 1 + (c - d - 1)
<1>4. w * c = w * d + w + w * e /\ w * e \in Nat /\ w * d \in Nat
  BY <1>1, <1>3
<1>. QED
  BY <1>1, <1>4

\* As many digits as it takes.
LEMMA EnoughDigits ==
  ASSUME NEW a \in Nat, NEW b \in Nat, NEW w \in Nat \ {0}
  PROVE  /\ CeilDiv(a, w) \in Nat /\ a <= w * CeilDiv(a, w)
         /\ a # 0 => CeilDiv(a, w) # 0
         /\ a <= b => CeilDiv(a, w) <= CeilDiv(b, w)
<1>. DEFINE x == a + w - 1
            c == x \div w
            r == x % w
<1>1. x \in Nat
  OBVIOUS
<1>2. CeilDiv(a, w) = c
  BY DEF CeilDiv
<1>3. x = w * c + r /\ r \in 0 .. w - 1 /\ c \in Nat
  <2>. HIDE DEF x
  <2>. QED
    BY <1>1, Remainder
<1>. HIDE DEF c, r
<1>4. w * c \in Nat
  BY <1>3
<1>5. a <= w * c
  BY <1>3, <1>4
<1>6. a # 0 => c # 0
  <2>1. w * 0 = 0
    OBVIOUS
  <2>. QED
    BY <1>5, <2>1
<1>7. ASSUME a <= b PROVE c <= CeilDiv(b, w)
  <2>. DEFINE y == b + w - 1
  <2>1. y \in Nat /\ x <= y
    BY <1>7
  <2>. HIDE DEF x, y
  <2>2. x \div w <= y \div w
    BY <1>1, <2>1, DivideMonotone
  <2>. QED
    BY <2>2 DEF CeilDiv, y, c
<1>. QED
  BY <1>2, <1>3, <1>5, <1>6, <1>7

RowsOf(bases, m, f) ==
  f = [r \in 0 .. rows(WIDTH[Len(bases)], MAX_EXPLEN) - 1 |->
        IF r = 0
        THEN [c \in 0 .. TwoTo[WIDTH[Len(bases)] * Len(bases)] - 1 |->
               ProductOfPowers(bases, [j \in DOMAIN bases |-> digit(c, j - 1, WIDTH[Len(bases)])], m)]
        ELSE [c \in 0 .. TwoTo[WIDTH[Len(bases)] * Len(bases)] - 1 |->
               PowerMod(f[r - 1][c], TwoTo[WIDTH[Len(bases)]], m)]]

\* What a cell holds in a row: the power of the product of the bases.
CellPower(bases, m, w, r, c) == Powers(ProductOfPowers(bases, Digits(bases, c, w), m), m)[TwoTo[w * r]]

LEMMA CellPowerStep ==
  ASSUME NEW bases \in Seq(Nat), NEW m \in Nat \ {0}, NEW w \in Nat, NEW c \in Nat
  PROVE  /\ ProductOfPowers(bases, Digits(bases, c, w), m) \in 0 .. m - 1
         /\ CellPower(bases, m, w, 0, c) = ProductOfPowers(bases, Digits(bases, c, w), m)
         /\ \A r \in Nat : CellPower(bases, m, w, r + 1, c) =
                             PowerMod(CellPower(bases, m, w, r, c), TwoTo[w], m)
<1>. DEFINE x == ProductOfPowers(bases, Digits(bases, c, w), m)
<1>1. Lists(bases, Digits(bases, c, w))
  <2>1. Len(bases) \in Nat /\ \A j \in 1 .. Len(bases) : j - 1 \in Nat
    OBVIOUS
  <2>2. \A i \in Nat : digit(c, i, w) \in Nat
    BY DigitSplit
  <2>. QED
    BY <2>1, <2>2 DEF Lists, Digits
<1>2. x \in 0 .. m - 1
  BY <1>1, NaturalProduct
<1>3. x \in Nat
  BY <1>2
<1>. HIDE DEF x
<1>4. \A r : CellPower(bases, m, w, r, c) = Powers(x, m)[TwoTo[w * r]]
  BY DEF CellPower, x
<1>5. CellPower(bases, m, w, 0, c) = x
  <2>1. w * 0 = 0
    OBVIOUS
  <2>2. Powers(x, m)[1] = x
    BY <1>2, PowersOne
  <2>. QED
    BY <1>4, <2>1, <2>2, TwoToStep
<1>6. ASSUME NEW r \in Nat
      PROVE  CellPower(bases, m, w, r + 1, c) = PowerMod(CellPower(bases, m, w, r, c), TwoTo[w], m)
  <2>. DEFINE u == w * r
              e == TwoTo[u]
              q == TwoTo[w]
              y == Powers(x, m)[e]
  <2>1. u \in Nat /\ w * (r + 1) = u + w
    OBVIOUS
  <2>. HIDE DEF u
  <2>2. e \in Nat /\ q \in Nat
    BY <2>1, TwoToStep
  <2>3. TwoTo[u + w] = e * q
    BY <2>1, TwoToAdd
  <2>. HIDE DEF e, q
  <2>4. Powers(x, m)[e * q] = Powers(y, m)[q] /\ y \in 0 .. m - 1
    <3>1. Powers(x, m)[e * q] = Powers(y, m)[q]
      BY <1>3, <2>2, PowersMultiply
    <3>2. y \in 0 .. m - 1
      BY <1>3, <2>2, PowersStep
    <3>. QED
      BY <3>1, <3>2
  <2>5. y \in Int /\ y % m = y
    <3>1. \A z \in 0 .. m - 1 : z \in Int /\ z % m = z
      OBVIOUS
    <3>. HIDE DEF y
    <3>. QED
      BY <2>4, <3>1
  <2>. HIDE DEF y
  <2>6. PowerMod(y, q, m) = Powers(y, m)[q]
    <3>1. PowerMod(y, q, m) = Powers(y % m, m)[q]
      BY <2>2, <2>5, PowerModIsPower
    <3>. QED
      BY <2>5, <3>1
  <2>. QED
    BY <1>4, <2>1, <2>3, <2>4, <2>6 DEF u, e, q, y
<1>. QED
  BY <1>2, <1>5, <1>6 DEF x

LEMMA PrecompCell ==
  ASSUME NEW bases \in Seq(Nat), NEW m \in Nat \ {0}, Len(bases) \in DOMAIN WIDTH
  PROVE  LET w == WIDTH[Len(bases)]
         IN  /\ DOMAIN precomp(bases, m) = 0 .. rows(w, MAX_EXPLEN) - 1
             /\ \A r \in 0 .. rows(w, MAX_EXPLEN) - 1 : \A c \in 0 .. TwoTo[w * Len(bases)] - 1 :
                  precomp(bases, m)[r][c] = CellPower(bases, m, w, r, c)
<1>. DEFINE w == WIDTH[Len(bases)]
            n == rows(w, MAX_EXPLEN) - 1
            cells == 0 .. TwoTo[w * Len(bases)] - 1
            P(r) == [c \in cells |-> CellPower(bases, m, w, r, c)]
            Next(row) == [c \in cells |-> PowerMod(row[c], TwoTo[w], m)]
            Is(f) == RowsOf(bases, m, f)
            p == [r \in 0 .. n |-> P(r)]
            g == precomp(bases, m)
<1>1. n \in Nat /\ w \in Nat
  <2>1. w \in Nat \ {0} /\ MAX_EXPLEN \in Nat /\ MAX_EXPLEN # 0
    BY ExponentiationAssumption
  <2>2. CeilDiv(MAX_EXPLEN, w) \in Nat /\ CeilDiv(MAX_EXPLEN, w) # 0
    <3>. HIDE DEF w
    <3>. QED
      BY <2>1, EnoughDigits
  <2>. QED
    BY <2>1, <2>2 DEF rows
<1>2. \A c \in cells : c \in Nat
  OBVIOUS
<1>3. P(0) = [c \in cells |-> ProductOfPowers(bases, [j \in DOMAIN bases |-> digit(c, j - 1, w)], m)]
  <2>1. ASSUME NEW c \in cells
        PROVE  CellPower(bases, m, w, 0, c) = ProductOfPowers(bases, [j \in DOMAIN bases |-> digit(c, j - 1, w)], m)
    <3>1. CellPower(bases, m, w, 0, c) = ProductOfPowers(bases, Digits(bases, c, w), m)
      <4>1. c \in Nat
        BY <1>2
      <4>. HIDE DEF w, cells
      <4>. QED
        BY <1>1, <4>1, CellPowerStep
    <3>2. Digits(bases, c, w) = [j \in DOMAIN bases |-> digit(c, j - 1, w)]
      BY DEF Digits
    <3>. HIDE DEF w
    <3>. QED
      BY <3>1, <3>2
  <2>. HIDE DEF cells
  <2>. QED
    BY <2>1
<1>4. ASSUME NEW r \in 1 .. n PROVE P(r) = Next(P(r - 1))
  <2>1. ASSUME NEW c \in cells
        PROVE  CellPower(bases, m, w, r, c) = PowerMod(CellPower(bases, m, w, r - 1, c), TwoTo[w], m)
    <3>. DEFINE s == r - 1
    <3>1. c \in Nat /\ s \in Nat /\ s + 1 = r
      BY <1>1, <1>2
    <3>. HIDE DEF w, cells, s
    <3>2. CellPower(bases, m, w, s + 1, c) = PowerMod(CellPower(bases, m, w, s, c), TwoTo[w], m)
      BY <1>1, <3>1, CellPowerStep
    <3>. QED
      BY <3>1, <3>2 DEF s
  <2>. HIDE DEF cells, w
  <2>. QED
    BY <2>1
<1>5. \A f : Is(f) <=> f = [r \in 0 .. n |-> IF r = 0 THEN P(0) ELSE Next(f[r - 1])]
  <2>1. \A f : Is(f) <=> f = [r \in 0 .. n |->
           IF r = 0
           THEN [c \in cells |-> ProductOfPowers(bases, [j \in DOMAIN bases |-> digit(c, j - 1, w)], m)]
           ELSE Next(f[r - 1])]
    BY Zenon DEF RowsOf
  <2>. HIDE DEF P, Next, Is, n, cells, w
  <2>. QED
    BY <1>3, <2>1, Zenon
<1>6. g = CHOOSE f : Is(f)
  BY Zenon DEF precomp, RowsOf
<1>. HIDE DEF P, Next, Is, n, g
<1>7. /\ 0 \in 0 .. n
      /\ \A r \in 1 .. n : r \in 0 .. n /\ r - 1 \in 0 .. n /\ r # 0
      /\ \A r \in 0 .. n : r # 0 => r \in 1 .. n
  BY <1>1
<1>8. Is(p)
  <2>1. \A r \in 0 .. n : P(r) = IF r = 0 THEN P(0) ELSE Next(p[r - 1])
    BY <1>4, <1>7
  <2>2. p = [r \in 0 .. n |-> IF r = 0 THEN P(0) ELSE Next(p[r - 1])]
    BY <2>1
  <2>. HIDE DEF p
  <2>. QED
    BY <1>5, <2>2
<1>9. Is(g)
  BY <1>6, <1>8, Zenon
<1>. HIDE DEF p
<1>10. g = [r \in 0 .. n |-> IF r = 0 THEN P(0) ELSE Next(g[r - 1])]
  BY <1>5, <1>9
<1>. DEFINE Good == {r \in 0 .. n : g[r] = P(r)}
<1>11. 0 \in Good /\ \A r \in 1 .. n : r - 1 \in Good => r \in Good
  BY <1>4, <1>7, <1>10
<1>12. \A r \in 0 .. n : r \in Good
  <2>. HIDE DEF Good
  <2>. QED
    BY <1>1, <1>11, Counting
<1>13. DOMAIN g = 0 .. n
  BY <1>10
<1>14. \A r \in 0 .. n : \A c \in cells : g[r][c] = CellPower(bases, m, w, r, c)
  BY <1>12 DEF P
<1>. QED
  BY <1>13, <1>14 DEF g, n

\* The digits of the exponents below one, and what the next one adds.
Lower(exps, w, r) == [j \in 1 .. Len(exps) |-> exps[j] % TwoTo[w * r]]

LEMMA LowerStep ==
  ASSUME NEW bases \in Seq(Nat), NEW exps \in Seq(Nat), NEW m \in Nat \ {0}, NEW w \in Nat,
         NEW r \in Nat, Len(exps) = Len(bases)
  PROVE  LET a == ProductOfPowers(bases, Lower(exps, w, r), m)
             col == expcol(exps, r, w)
         IN  /\ Lists(bases, Lower(exps, w, r)) /\ a \in 0 .. m - 1
             /\ col \in 0 .. TwoTo[w * Len(bases)] - 1
             /\ ProductOfPowers(bases, Lower(exps, w, r + 1), m) =
                  IF col = 0 THEN a ELSE MulMod(a, CellPower(bases, m, w, r, col), m)
<1>. DEFINE n == Len(bases)
            k == TwoTo[w * r]
            U == Lower(exps, w, r + 1)
            V == Lower(exps, w, r)
            C == Column(exps, r, w)
            W == [j \in 1 .. n |-> C[j] * k]
            a == ProductOfPowers(bases, V, m)
            c == ProductOfPowers(bases, C, m)
            col == expcol(exps, r, w)
<1>1. n \in Nat /\ Len(exps) = n /\ \A j \in 1 .. n : exps[j] \in Nat
  OBVIOUS
<1>2. k \in Nat \ {0} /\ TwoTo[w * (r + 1)] \in Nat \ {0}
  <2>1. w * r \in Nat /\ w * (r + 1) \in Nat
    OBVIOUS
  <2>2. \A y \in Nat : TwoTo[y] \in Nat \ {0}
    BY TwoToStep
  <2>. QED
    BY <2>1, <2>2
<1>3. \A x \in Nat : /\ x % TwoTo[w * (r + 1)] = (x % k) + digit(x, r, w) * k
                     /\ digit(x, r, w) \in Nat
  <2>1. ASSUME NEW x \in Nat
        PROVE  x % TwoTo[w * (r + 1)] = (x % TwoTo[w * r]) + digit(x, r, w) * TwoTo[w * r]
    BY DigitSplit
  <2>2. ASSUME NEW x \in Nat
        PROVE  digit(x, r, w) \in Nat
    BY DigitSplit
  <2>. QED
    BY <2>1, <2>2, Zenon
<1>. HIDE DEF n
<1>4. /\ \A j \in 1 .. n : /\ U[j] = exps[j] % TwoTo[w * (r + 1)] /\ V[j] = exps[j] % k
                           /\ C[j] = digit(exps[j], r, w) /\ W[j] = C[j] * k
  BY <1>1 DEF Lower, Column
<1>. HIDE DEF U, V, C, W, k
<1>5. \A j \in 1 .. n : U[j] = V[j] + W[j] /\ U[j] \in Nat /\ V[j] \in Nat /\ C[j] \in Nat /\ W[j] \in Nat
  <2>1. \A x \in Nat : x % k \in Nat
    BY <1>2
  <2>2. \A x, y \in Nat : x * y \in Nat /\ x + y \in Nat
    OBVIOUS
  <2>3. ASSUME NEW j \in 1 .. n
        PROVE  U[j] = V[j] + W[j] /\ U[j] \in Nat /\ V[j] \in Nat /\ C[j] \in Nat /\ W[j] \in Nat
    <3>1. V[j] \in Nat /\ C[j] \in Nat
      BY <1>1, <1>3, <1>4, <2>1
    <3>2. W[j] \in Nat
      BY <1>2, <1>4, <2>2, <3>1
    <3>3. U[j] = V[j] + W[j]
      <4>. DEFINE h == TwoTo[w * (r + 1)]
      <4>1. \A x \in Nat : x % h = (x % k) + digit(x, r, w) * k
        BY <1>3
      <4>2. U[j] = exps[j] % h /\ V[j] = exps[j] % k /\ W[j] = digit(exps[j], r, w) * k
        BY <1>4
      <4>. HIDE DEF h
      <4>. QED
        BY <1>1, <4>1, <4>2
    <3>. QED
      BY <2>2, <3>1, <3>2, <3>3
  <2>. QED
    BY <2>3
<1>6. Lists(bases, V) /\ Lists(bases, C) /\ Lists(bases, W)
  BY <1>5 DEF Lists, n
<1>7. /\ Digits(bases, col, w) = C
      /\ col = 0 => c = 1 % m
  <2>1. /\ Digits(bases, expcol(exps, r, w), w) = Column(exps, r, w)
        /\ expcol(exps, r, w) = 0 => ProductOfPowers(bases, Column(exps, r, w), m) = 1 % m
    BY CellIsColumn
  <2>. QED
    BY <2>1 DEF C
<1>8. col \in 0 .. TwoTo[w * n] - 1
  <2>1. expcol(exps, r, w) \in 0 .. TwoTo[w * Len(exps)] - 1
    BY CellDigits
  <2>. QED
    BY <1>1, <2>1
<1>. HIDE DEF col
<1>9. a \in 0 .. m - 1 /\ a \in Nat /\ c \in Nat
  <2>1. \A e : Lists(bases, e) => ProductOfPowers(bases, e, m) \in 0 .. m - 1
    BY NaturalProduct
  <2>2. \A x \in 0 .. m - 1 : x \in Nat
    OBVIOUS
  <2>. QED
    BY <1>6, <2>1, <2>2
<1>10. ProductOfPowers(bases, W, m) = Powers(c, m)[k]
  <2>1. \A j \in 1 .. Len(bases) : W[j] = C[j] * k
    BY <1>4 DEF n
  <2>2. k \in Nat
    BY <1>2
  <2>. QED
    BY <1>6, <2>1, <2>2, ProductMultiply
<1>11. ProductOfPowers(bases, U, m) = MulMod(a, Powers(c, m)[k], m)
  <2>1. \A j \in 1 .. Len(bases) : U[j] = V[j] + W[j]
    BY <1>5 DEF n
  <2>2. ProductOfPowers(bases, U, m) = MulMod(a, ProductOfPowers(bases, W, m), m)
    BY <1>6, <2>1, ProductAdd
  <2>. QED
    BY <1>10, <2>2
<1>12. CellPower(bases, m, w, r, col) = Powers(c, m)[k]
  BY <1>7 DEF CellPower, k
<1>. HIDE DEF a, c
<1>13. ProductOfPowers(bases, U, m) = IF col = 0 THEN a ELSE MulMod(a, CellPower(bases, m, w, r, col), m)
  <2>1. CASE col = 0
    <3>1. Powers(c, m)[k] = 1 % m
      BY <1>2, <1>7, <2>1, PowersOfOne
    <3>2. MulMod(a, 1 % m, m) = a
      BY <1>9, MulModOne
    <3>. QED
      BY <1>11, <2>1, <3>1, <3>2
  <2>2. CASE col # 0
    BY <1>11, <1>12, <2>2
  <2>. QED
    BY <2>1, <2>2
<1>. QED
  BY <1>6, <1>8, <1>9, <1>13 DEF U, V, a, col, n

\* The loop over the digits multiplies with one cell of each row.
DigitLoop(table, exps, m, f) ==
  f = [r \in 0 .. CeilDiv(Longest(exps), WIDTH[Len(exps)]) |->
        IF r = 0 THEN 1
        ELSE LET col == expcol(exps, r - 1, WIDTH[Len(exps)])
             IN  IF col = 0 THEN f[r - 1] ELSE MulMod(f[r - 1], table[r - 1][col], m)]

\* MultiExpCache: the digits of the exponents, each lot of them looked up in its
\* row, make up the product of the powers, and the assertion holds.
THEOREM MultiexpIsProduct ==
  ASSUME NEW m \in Nat, m > 1, NEW bases \in Seq(Nat), NEW exps, Within(exps, MAX_EXPLEN),
         Len(exps) = Len(bases), Len(bases) # 0, Len(bases) \in DOMAIN WIDTH
  PROVE  multiexp_n(precomp(bases, m), exps, m) = ProductOfPowers(bases, exps, m)
<1>. DEFINE w == WIDTH[Len(bases)]
            L == Longest(exps)
            t == CeilDiv(L, w)
            n == rows(w, MAX_EXPLEN)
            table == precomp(bases, m)
            P(r) == ProductOfPowers(bases, Lower(exps, w, r), m)
            Next(x, r) == LET col == expcol(exps, r, w)
                          IN  IF col = 0 THEN x ELSE MulMod(x, table[r][col], m)
            Is(f) == DigitLoop(table, exps, m, f)
            p == [r \in 0 .. t |-> P(r)]
            g == CHOOSE f : Is(f)
<1>1. /\ w \in Nat \ {0} /\ MAX_EXPLEN \in Nat /\ MAX_EXPLEN # 0 /\ m \in Nat \ {0}
      /\ exps \in Seq(Nat) /\ L \in 0 .. MAX_EXPLEN /\ L \in Nat /\ Within(exps, L)
  <2>1. w \in Nat \ {0} /\ MAX_EXPLEN \in Nat /\ MAX_EXPLEN # 0
    BY ExponentiationAssumption
  <2>2. L \in 0 .. MAX_EXPLEN /\ Within(exps, L)
    BY <2>1, LongestIsEnough
  <2>. HIDE DEF L, w
  <2>. QED
    BY <2>1, <2>2 DEF Within
<1>2. t \in Nat /\ L <= w * t /\ n \in Nat /\ n # 0 /\ t <= n
  <2>. HIDE DEF L, w
  <2>1. L <= MAX_EXPLEN
    BY <1>1
  <2>2. CeilDiv(L, w) \in Nat /\ L <= w * CeilDiv(L, w) /\ CeilDiv(L, w) <= CeilDiv(MAX_EXPLEN, w)
    BY <1>1, <2>1, EnoughDigits
  <2>3. CeilDiv(MAX_EXPLEN, w) \in Nat /\ CeilDiv(MAX_EXPLEN, w) # 0
    BY <1>1, EnoughDigits
  <2>. QED
    BY <2>2, <2>3 DEF rows
<1>3. /\ DOMAIN table = 0 .. n - 1
      /\ \A r \in 0 .. n - 1 : \A c \in 0 .. TwoTo[w * Len(bases)] - 1 :
            table[r][c] = CellPower(bases, m, w, r, c)
  BY <1>1, PrecompCell
<1>4. Cardinality(DOMAIN table) = n
  <2>. HIDE DEF n, table
  <2>1. 0 \in Int /\ n - 1 \in Int /\ 0 <= n - 1
    BY <1>2
  <2>2. Cardinality(0 .. n - 1) = (n - 1) - 0 + 1
    <3>. DEFINE z == n - 1
    <3>1. z \in Int /\ 0 <= z
      BY <2>1
    <3>. HIDE DEF z
    <3>2. Cardinality(0 .. z) = z - 0 + 1
      BY <3>1, FS_Interval
    <3>. QED
      BY <3>2 DEF z
  <2>. QED
    BY <1>2, <1>3, <2>2
<1>5. ASSUME NEW r \in Nat
      PROVE  /\ Lists(bases, Lower(exps, w, r)) /\ P(r) \in 0 .. m - 1
             /\ r < n => P(r + 1) = Next(P(r), r)
  <2>. DEFINE a == P(r)
              col == expcol(exps, r, w)
  <2>1. w \in Nat
    BY <1>1
  <2>2. /\ Lists(bases, Lower(exps, w, r)) /\ a \in 0 .. m - 1
        /\ col \in 0 .. TwoTo[w * Len(bases)] - 1
        /\ P(r + 1) = IF col = 0 THEN a ELSE MulMod(a, CellPower(bases, m, w, r, col), m)
    <3>. HIDE DEF w, L, t, n, table, Is, Next, p, g
    <3>1. bases \in Seq(Nat) /\ exps \in Seq(Nat) /\ m \in Nat \ {0} /\ w \in Nat /\ r \in Nat /\ Len(exps) = Len(bases)
      BY <1>1, <2>1
    <3>2. Lists(bases, Lower(exps, w, r))
      BY <3>1, LowerStep
    <3>3. a \in 0 .. m - 1
      BY <3>1, LowerStep
    <3>4. col \in 0 .. TwoTo[w * Len(bases)] - 1
      BY <3>1, LowerStep
    <3>5. P(r + 1) = IF col = 0 THEN a ELSE MulMod(a, CellPower(bases, m, w, r, col), m)
      BY <3>1, LowerStep
    <3>. QED
      BY <3>2, <3>3, <3>4, <3>5
  <2>3. r < n => r \in 0 .. n - 1
    BY <1>2
  <2>. HIDE DEF a, col, n, table, w
  <2>4. r < n => table[r][col] = CellPower(bases, m, w, r, col)
    BY <1>3, <2>2, <2>3
  <2>. QED
    BY <2>2, <2>4 DEF a, col
<1>6. P(0) = 1
  <2>1. w * 0 = 0 /\ \A x \in Nat : x % 1 = 0
    BY <1>1
  <2>2. \A j \in 1 .. Len(bases) : exps[j] \in Nat /\ Lower(exps, w, 0)[j] = exps[j] % TwoTo[w * 0]
    BY <1>1 DEF Lower
  <2>3. \A j \in 1 .. Len(bases) : Lower(exps, w, 0)[j] = 0
    BY <2>1, <2>2, TwoToStep
  <2>4. NoneBut(0, bases, Lower(exps, w, 0)) /\ Lists(bases, Lower(exps, w, 0))
    BY <1>5, <2>3 DEF NoneBut
  <2>5. P(0) = 1 % m
    BY <1>1, <2>4, ProductOfNone
  <2>. QED
    BY <2>5
<1>7. P(t) = ProductOfPowers(bases, exps, m)
  <2>1. \A j \in 1 .. Len(bases) : Lower(exps, w, t)[j] = exps[j]
    <3>. DEFINE u == w * t
                y == TwoTo[u]
    <3>1. u \in Nat /\ L <= u
      BY <1>1, <1>2
    <3>2. \A j \in 1 .. Len(bases) : exps[j] \in Nat /\ exps[j] < TwoTo[L] /\ Lower(exps, w, t)[j] = exps[j] % y
      BY <1>1 DEF Lower, Within
    <3>. HIDE DEF u, t, L
    <3>3. TwoTo[L] <= y /\ TwoTo[L] \in Nat /\ y \in Nat
      BY <1>1, <3>1, TwoToMonotone, TwoToStep
    <3>. HIDE DEF y
    <3>4. \A x \in Nat : x < y => x % y = x
      BY <3>3
    <3>5. \A j \in 1 .. Len(bases) : exps[j] < y
      BY <3>2, <3>3
    <3>. QED
      BY <3>2, <3>4, <3>5
  <2>2. Lists(bases, exps)
    BY <1>1 DEF Lists
  <2>. QED
    BY <1>1, <2>1, <2>2, ProductSame
<1>8. \A f : Is(f) <=> f = [r \in 0 .. t |-> IF r = 0 THEN 1 ELSE Next(f[r - 1], r - 1)]
  BY Zenon DEF DigitLoop
<1>9. multiexp_n(table, exps, m) = IF t > Cardinality(DOMAIN table) THEN ASSERTION ELSE g[t]
  <2>. DEFINE d == CeilDiv(L, WIDTH[Len(exps)])
  <2>1. multiexp_n(table, exps, m) = IF d > Cardinality(DOMAIN table) THEN ASSERTION ELSE g[d]
    BY Zenon DEF multiexp_n, DigitLoop
  <2>2. d = t
    OBVIOUS
  <2>. HIDE DEF d, t, g, table
  <2>. QED
    BY <2>1, <2>2, Zenon
<1>10. ~ (t > Cardinality(DOMAIN table))
  <2>. HIDE DEF t, n, table
  <2>. QED
    BY <1>2, <1>4
<1>. HIDE DEF P, Next, Is, t, n, table
<1>11. \A r \in 1 .. t : P(r) = Next(P(r - 1), r - 1)
  <2>1. \A r \in 1 .. t : r - 1 \in Nat /\ (r - 1) + 1 = r /\ r - 1 < n
    BY <1>2
  <2>. QED
    BY <1>5, <2>1
<1>12. /\ 0 \in 0 .. t /\ t \in 0 .. t
       /\ \A r \in 1 .. t : r \in 0 .. t /\ r - 1 \in 0 .. t /\ r # 0
       /\ \A r \in 0 .. t : r # 0 => r \in 1 .. t
  BY <1>2
<1>13. Is(p)
  <2>1. \A r \in 0 .. t : P(r) = IF r = 0 THEN 1 ELSE Next(p[r - 1], r - 1)
    BY <1>6, <1>11, <1>12
  <2>2. p = [r \in 0 .. t |-> IF r = 0 THEN 1 ELSE Next(p[r - 1], r - 1)]
    BY <2>1
  <2>. HIDE DEF p
  <2>. QED
    BY <1>8, <2>2
<1>14. Is(g)
  BY <1>13, Zenon
<1>. HIDE DEF g, p
<1>15. g = [r \in 0 .. t |-> IF r = 0 THEN 1 ELSE Next(g[r - 1], r - 1)]
  BY <1>8, <1>14
<1>. DEFINE Good == {r \in 0 .. t : g[r] = P(r)}
<1>16. 0 \in Good /\ \A r \in 1 .. t : r - 1 \in Good => r \in Good
  BY <1>6, <1>11, <1>12, <1>15
<1>17. \A r \in 0 .. t : r \in Good
  <2>. HIDE DEF Good
  <2>. QED
    BY <1>2, <1>16, Counting
<1>18. g[t] = P(t)
  BY <1>12, <1>17
<1>. QED
  BY <1>7, <1>9, <1>10, <1>18 DEF table
-----------------------------------------------------------------------------
(* The answers.                                                            *)

\* What a call is about: bases that can be inverted, of one group.
Call(names, bases, m) ==
  /\ m \in Nat /\ m > 1 /\ bases \in Seq(Nat)
  /\ Len(bases) = Len(names) /\ Len(names) # 0
  /\ \A i \in 1 .. Len(names) :
        /\ bases[i] = Value[names[i]] /\ Modulus[names[i]] = m /\ Value[names[i]] \in Nat
        /\ Invertible(bases[i], m)

LEMMA EveryCall ==
  ASSUME NEW names \in BaseLists
  PROVE  /\ Call(names, Values(names), ModulusOf(names))
         /\ \A exps \in Exponents[Len(names)] :
              /\ exps \in Seq(Int) /\ Len(exps) = Len(names)
              /\ \A i \in 1 .. Len(names) : exps[i] < TwoTo[MAX_EXPLEN]
<1>. DEFINE n == Len(names)
            m == ModulusOf(names)
            bases == Values(names)
<1>1. /\ names \in Seq(DOMAIN Value) /\ names # <<>>
      /\ \A i \in DOMAIN names : Modulus[names[i]] = m
      /\ \A exps \in Exponents[n] :
            /\ exps \in Seq(Int) /\ Len(exps) = n
            /\ \A i \in DOMAIN exps : exps[i] < TwoTo[MAX_EXPLEN]
  BY ExponentiationAssumption
<1>2. n \in Nat /\ n # 0 /\ DOMAIN names = 1 .. n /\ \A i \in 1 .. n : names[i] \in DOMAIN Value
  BY <1>1
<1>3. \A i \in 1 .. n : /\ Modulus[names[i]] = m /\ m \in Nat /\ m > 1 /\ Value[names[i]] \in Nat
                        /\ Invertible(Value[names[i]], m)
  <2>1. \A name \in DOMAIN Value :
           /\ Modulus[name] \in Nat /\ Modulus[name] > 1 /\ Value[name] \in Nat
           /\ \E x \in 1 .. Modulus[name] - 1 : ((Value[name] % Modulus[name]) * x) % Modulus[name] = 1
    BY ExponentiationAssumption
  <2>2. \A name \in DOMAIN Value : Invertible(Value[name], Modulus[name])
    BY <2>1, Zenon DEF Invertible
  <2>. HIDE DEF n, m
  <2>. QED
    BY <1>1, <1>2, <2>1, <2>2
<1>4. bases = [i \in 1 .. n |-> Value[names[i]]]
  BY <1>2 DEF Values
<1>. HIDE DEF n, m, bases
<1>5. bases \in Seq(Nat) /\ Len(bases) = n /\ \A i \in 1 .. n : bases[i] = Value[names[i]]
  <2>1. bases \in [1 .. n -> Nat]
    BY <1>3, <1>4
  <2>. QED
    BY <1>2, <1>4, <2>1
<1>6. m \in Nat /\ m > 1
  <2>1. 1 \in 1 .. n
    BY <1>2
  <2>. QED
    BY <1>3, <2>1
<1>7. Call(names, bases, m)
  BY <1>2, <1>3, <1>5, <1>6 DEF Call, n
<1>8. \A exps \in Exponents[n] :
         exps \in Seq(Int) /\ Len(exps) = n /\ \A i \in 1 .. n : exps[i] < TwoTo[MAX_EXPLEN]
  <2>1. \A exps \in Seq(Int) : DOMAIN exps = 1 .. Len(exps)
    OBVIOUS
  <2>. QED
    BY <1>1, <2>1
<1>. QED
  BY <1>7, <1>8 DEF n, m, bases

\* The product that is asked for.
Multiplied(names, exps, m, f) ==
  f = [i \in 0 .. Len(names) |->
        IF i = 0 THEN 1 ELSE (f[i - 1] * Repeated(Value[names[i]], exps[i], m)) % m]

LEMMA OneModulo == \A m \in Nat : m > 1 => m \in Nat \ {0} /\ 1 % m = 1
OBVIOUS

LEMMA RightIsProduct ==
  ASSUME NEW names, NEW bases, NEW exps \in Seq(Int), NEW m, m = ModulusOf(names),
         Call(names, bases, m), Len(exps) = Len(names)
  PROVE  /\ RightAnswer(names, exps) = ProductOfPowers(bases, exps, m)
         /\ \A i \in 1 .. Len(names) : PowerMod(bases[i], exps[i], m) \in 0 .. m - 1
<1>. DEFINE n == Len(names)
            P == Product(bases, exps, m)
            Next(x, i) == (x * Repeated(Value[names[i]], exps[i], m)) % m
            Is(f) == Multiplied(names, exps, m, f)
            p == [i \in 0 .. n |-> P[i]]
            g == CHOOSE f : Is(f)
<1>1. /\ n \in Nat /\ n # 0 /\ m \in Nat \ {0} /\ 1 % m = 1 /\ Len(bases) = n
      /\ \A i \in 1 .. n : /\ bases[i] \in Int /\ exps[i] \in Int /\ bases[i] = Value[names[i]]
                           /\ Invertible(bases[i], m)
  <2>1. m \in Nat /\ m > 1 /\ bases \in Seq(Nat) /\ Len(bases) = n /\ n # 0
    BY DEF Call
  <2>2. \A i \in 1 .. n : bases[i] = Value[names[i]] /\ Invertible(bases[i], m)
    BY DEF Call
  <2>3. n \in Nat
    <3>1. Len(bases) \in Nat
      BY <2>1
    <3>. QED
      BY <2>1, <3>1
  <2>5. m \in Nat \ {0} /\ 1 % m = 1
    BY <2>1, OneModulo
  <2>4. \A i \in 1 .. n : bases[i] \in Int /\ exps[i] \in Int
    BY <2>1
  <2>. QED
    BY <2>1, <2>2, <2>3, <2>4, <2>5
<1>2. \A i \in 1 .. n : /\ PowerMod(bases[i], exps[i], m) = Repeated(Value[names[i]], exps[i], m)
                        /\ PowerMod(bases[i], exps[i], m) \in 0 .. m - 1
  <2>1. \A b, e \in Int : Invertible(b, m) => /\ PowerMod(b, e, m) = Repeated(b, e, m)
                                              /\ Repeated(b, e, m) \in 0 .. m - 1
    BY <1>1, PowerModIsRepeated
  <2>. HIDE DEF n
  <2>. QED
    BY <1>1, <2>1
<1>3. /\ ProductOfPowers(bases, exps, m) = P[n] /\ P[0] = 1
      /\ \A i \in 0 .. n : i # 0 => P[i] = MulMod(P[i - 1], PowerMod(bases[i], exps[i], m), m)
  <2>1. /\ ProductOfPowers(bases, exps, m) = P[Len(bases)] /\ P[0] = 1 % m
        /\ \A i \in 0 .. Len(bases) :
             i # 0 => P[i] = MulMod(P[i - 1], PowerMod(bases[i], exps[i], m), m)
    BY <1>1, <1>2, ProductStep
  <2>. HIDE DEF P, n
  <2>. QED
    BY <1>1, <2>1
<1>4. \A f : Is(f) <=> f = [i \in 0 .. n |-> IF i = 0 THEN 1 ELSE Next(f[i - 1], i)]
  BY Zenon DEF Multiplied
<1>5. RightAnswer(names, exps) = g[n]
  BY Zenon DEF RightAnswer, Multiplied
<1>. HIDE DEF P, n, Is
<1>6. /\ 0 \in 0 .. n /\ n \in 0 .. n
      /\ \A i \in 1 .. n : i \in 0 .. n /\ i - 1 \in 0 .. n /\ i # 0
      /\ \A i \in 0 .. n : i # 0 => i \in 1 .. n
  BY <1>1
<1>7. \A i \in 0 .. n : i # 0 => P[i] = Next(P[i - 1], i)
  BY <1>2, <1>3, <1>6 DEF MulMod
<1>. HIDE DEF Next
<1>8. Is(p)
  <2>1. \A i \in 0 .. n : P[i] = IF i = 0 THEN 1 ELSE Next(p[i - 1], i)
    BY <1>3, <1>6, <1>7
  <2>2. p = [i \in 0 .. n |-> IF i = 0 THEN 1 ELSE Next(p[i - 1], i)]
    BY <2>1
  <2>. HIDE DEF p
  <2>. QED
    BY <1>4, <2>2
<1>9. Is(g)
  BY <1>8, Zenon
<1>. HIDE DEF g, p
<1>10. g = [i \in 0 .. n |-> IF i = 0 THEN 1 ELSE Next(g[i - 1], i)]
  BY <1>4, <1>9
<1>. DEFINE Good == {i \in 0 .. n : g[i] = P[i]}
<1>11. 0 \in Good /\ \A i \in 1 .. n : i - 1 \in Good => i \in Good
  BY <1>3, <1>6, <1>7, <1>10
<1>12. \A i \in 0 .. n : i \in Good
  <2>. HIDE DEF Good
  <2>. QED
    BY <1>1, <1>11, Counting
<1>13. g[n] = P[n]
  BY <1>6, <1>12
<1>. QED
  BY <1>2, <1>3, <1>5, <1>13 DEF n

\* The product of one power.
LEMMA RightOfOne ==
  ASSUME NEW b, NEW bases, NEW exps, NEW m \in Nat \ {0}, Len(bases) = 1, bases[1] = b,
         PowerMod(bases[1], exps[1], m) \in 0 .. m - 1
  PROVE  ProductOfPowers(bases, exps, m) = PowerMod(b, exps[1], m)
<1>. DEFINE P == Product(bases, exps, m)
            x == PowerMod(bases[1], exps[1], m)
<1>1. \A i \in 1 .. Len(bases) : PowerMod(bases[i], exps[i], m) \in 0 .. m - 1
  BY 1 .. 1 = {1}
<1>2. /\ ProductOfPowers(bases, exps, m) = P[Len(bases)] /\ P[0] = 1 % m
      /\ \A i \in 0 .. Len(bases) :
           i # 0 => P[i] = MulMod(P[i - 1], PowerMod(bases[i], exps[i], m), m)
  BY <1>1, ProductStep
<1>3. 1 \in 0 .. Len(bases) /\ 1 - 1 = 0 /\ 1 # 0
  OBVIOUS
<1>. HIDE DEF P
<1>4. P[1] = MulMod(1 % m, x, m)
  BY <1>2, <1>3
<1>. HIDE DEF x
<1>5. MulMod(1 % m, x, m) = x
  BY MulModOne DEF x
<1>. QED
  BY <1>2, <1>4, <1>5 DEF x

\* What each way to an answer gives: the product.
LEMMA EveryWayIsRight ==
  ASSUME NEW names \in BaseLists, NEW exps \in Exponents[Len(names)],
         NEW bases, bases = Values(names), NEW m, m = ModulusOf(names),
         NEW right, right = RightAnswer(names, exps)
  PROVE  /\ Len(bases) = Len(names) /\ Len(exps) = Len(names) /\ DOMAIN exps = 1 .. Len(names)
         /\ ProductOfPowers(bases, exps, m) = right
         /\ Len(names) = 1 =>
              /\ PowerMod(bases[1], exps[1], m) = right
              /\ bases[1] = Value[names[1]] /\ m = Modulus[names[1]]
              /\ exps[1] \in Int
              /\ exps[1] >= 0 => tableModPow(powerTable(bases[1], m), exps[1], m) = right
         /\ (\A i \in DOMAIN exps : exps[i] >= 0) =>
              /\ simultaneous(precompute(bases, m), exps, m) = right
              /\ Len(names) \in DOMAIN WIDTH => multiexp_n(precomp(bases, m), exps, m) = right
<1>1. /\ Call(names, bases, m)
      /\ exps \in Seq(Int) /\ Len(exps) = Len(names)
      /\ \A i \in 1 .. Len(names) : exps[i] < TwoTo[MAX_EXPLEN]
  BY EveryCall
<1>2. /\ m \in Nat /\ m > 1 /\ bases \in Seq(Nat) /\ Len(bases) = Len(names) /\ Len(names) # 0
      /\ Len(names) = 1 => bases[1] = Value[names[1]] /\ bases[1] \in Nat
                           /\ Modulus[names[1]] = m /\ Invertible(bases[1], m)
  <2>1. /\ m \in Nat /\ m > 1 /\ bases \in Seq(Nat) /\ Len(bases) = Len(names) /\ Len(names) # 0
    BY <1>1 DEF Call
  <2>2. Len(names) = 1 => 1 \in 1 .. Len(names)
    OBVIOUS
  <2>3. \A i \in 1 .. Len(names) :
           /\ bases[i] = Value[names[i]] /\ Modulus[names[i]] = m /\ Value[names[i]] \in Nat
           /\ Invertible(bases[i], m)
    BY <1>1, Zenon DEF Call
  <2>. QED
    BY <2>1, <2>2, <2>3
<1>3. DOMAIN exps = 1 .. Len(names)
  <2>1. \A s \in Seq(Int) : DOMAIN s = 1 .. Len(s)
    OBVIOUS
  <2>. QED
    BY <1>1, <2>1
<1>4. /\ right = ProductOfPowers(bases, exps, m)
      /\ \A i \in 1 .. Len(names) : PowerMod(bases[i], exps[i], m) \in 0 .. m - 1
  BY <1>1, RightIsProduct
<1>5. m \in Nat \ {0}
  BY <1>2, OneModulo
<1>6. MAX_EXPLEN \in Nat
  BY ExponentiationAssumption
<1>7. ASSUME Len(names) = 1
      PROVE  /\ PowerMod(bases[1], exps[1], m) = right
             /\ bases[1] = Value[names[1]] /\ m = Modulus[names[1]]
             /\ exps[1] \in Int
             /\ exps[1] >= 0 => tableModPow(powerTable(bases[1], m), exps[1], m) = right
  <2>. DEFINE b == bases[1]
              e == exps[1]
  <2>1. 1 \in 1 .. Len(names)
    BY <1>7
  <2>2. /\ b \in Nat /\ b \in Int /\ e \in Int /\ Invertible(b, m) /\ e < TwoTo[MAX_EXPLEN]
        /\ PowerMod(bases[1], exps[1], m) \in 0 .. m - 1
    BY <1>1, <1>2, <1>4, <1>7, <2>1
  <2>3. right = PowerMod(b, e, m)
    <3>1. Len(bases) = 1 /\ bases[1] = b
      BY <1>2, <1>7
    <3>. HIDE DEF b
    <3>2. ProductOfPowers(bases, exps, m) = PowerMod(b, exps[1], m)
      BY <1>5, <2>2, <3>1, RightOfOne
    <3>. QED
      BY <1>4, <3>2
  <2>4. e >= 0 => tableModPow(powerTable(b, m), e, m) = PowerMod(b, e, m)
    <3>. SUFFICES ASSUME e >= 0 PROVE tableModPow(powerTable(b, m), e, m) = PowerMod(b, e, m)
      OBVIOUS
    <3>1. e \in Nat /\ ~ (e < 0)
      BY <2>2
    <3>. HIDE DEF b, e
    <3>2. tableModPow(powerTable(b, m), e, m) = Powers(b % m, m)[e]
      BY <1>2, <2>2, <3>1, TableModPowIsPower
    <3>3. PowerMod(b, e, m) = Powers(b % m, m)[e]
      BY <1>5, <2>2, <3>1, PowerModIsPower
    <3>. QED
      BY <3>2, <3>3
  <2>. QED
    BY <1>2, <1>7, <2>2, <2>3, <2>4
<1>8. ASSUME \A i \in DOMAIN exps : exps[i] >= 0
      PROVE  /\ simultaneous(precompute(bases, m), exps, m) = right
             /\ Len(names) \in DOMAIN WIDTH => multiexp_n(precomp(bases, m), exps, m) = right
  <2>1. Within(exps, MAX_EXPLEN)
    <3>. DEFINE k == Len(exps)
    <3>1. k \in Nat /\ exps \in [1 .. k -> Int]
      BY <1>1
    <3>2. exps \in [1 .. k -> Nat]
      <4>1. \A i \in 1 .. k : exps[i] \in Int /\ exps[i] >= 0
        BY <1>1, <1>3, <1>8, <3>1
      <4>. HIDE DEF k
      <4>. QED
        BY <3>1, <4>1
    <3>3. exps \in Seq(Nat)
      <4>. HIDE DEF k
      <4>. QED
        BY <3>1, <3>2
    <3>. QED
      BY <1>1, <3>3 DEF Within
  <2>2. Len(exps) = Len(bases) /\ Len(bases) # 0
    BY <1>1, <1>2
  <2>3. simultaneous(precompute(bases, m), exps, m) = ProductOfPowers(bases, exps, m)
    BY <1>2, <1>6, <2>1, <2>2, SimultaneousIsProduct
  <2>4. Len(bases) \in DOMAIN WIDTH =>
          multiexp_n(precomp(bases, m), exps, m) = ProductOfPowers(bases, exps, m)
    BY <1>2, <2>1, <2>2, MultiexpIsProduct
  <2>. QED
    BY <1>2, <1>4, <2>3, <2>4
<1>. QED
  BY <1>1, <1>2, <1>3, <1>4, <1>7, <1>8

-----------------------------------------------------------------------------
(* The caches.  Each table is a function of what it is stored under, so that *)
(* a table that is found is the one that would be made.                      *)
TablesAreRight ==
  /\ DOMAIN multiexp_cache = Threads
  /\ \A th \in Threads : \A key \in DOMAIN multiexp_cache[th] :
        multiexp_cache[th][key] = precompute(key[1], key[2])
  /\ \A name \in DOMAIN cache : cache[name] = powerTable(Value[name], Modulus[name])
  /\ \A names \in DOMAIN multiCache :
        /\ Len(names) \in DOMAIN WIDTH
        /\ multiCache[names] = precomp(Values(names), ModulusOf(names))

LEMMA InitTables == ExponentiationInit => TablesAreRight
BY DEF ExponentiationInit, TablesAreRight

\* What is found after a table was stored.
LEMMA Stored ==
  ASSUME NEW f, NEW key, NEW table, NEW x \in DOMAIN With(f, key, table)
  PROVE  IF x = key THEN With(f, key, table)[x] = table
                    ELSE x \in DOMAIN f /\ With(f, key, table)[x] = f[x]
BY DEF With

\* A table is stored under what it was made of; no other is touched.
LEMMA NextTables == TablesAreRight /\ [ExponentiationNext]_exponentiationVars => TablesAreRight'
<1>. SUFFICES ASSUME TablesAreRight, [ExponentiationNext]_exponentiationVars
              PROVE  TablesAreRight'
  OBVIOUS
<1>1. ASSUME NEW th \in Threads, CallMultiExp(th)
      PROVE  TablesAreRight'
  <2>1. PICK names \in BaseLists :
          /\ multiexp_cache' =
               [multiexp_cache EXCEPT ![th] =
                  With(@, Key(Values(names), ModulusOf(names)),
                       precompute(Values(names), ModulusOf(names)))]
          /\ UNCHANGED <<cache, multiCache>>
    BY <1>1, Zenon DEF CallMultiExp
  <2>. DEFINE bases == Values(names)
              m == ModulusOf(names)
              key == Key(bases, m)
              table == precompute(bases, m)
              stored == With(multiexp_cache[th], key, table)
  <2>2. multiexp_cache' = [multiexp_cache EXCEPT ![th] = stored]
    BY <2>1, Zenon
  <2>3. key[1] = bases /\ key[2] = m
    BY DEF Key
  <2>. HIDE DEF key, bases, m
  <2>4. \A k \in DOMAIN stored : stored[k] = precompute(k[1], k[2])
    <3>. DEFINE cached == multiexp_cache[th]
    <3>1. stored = With(cached, key, table)
      OBVIOUS
    <3>. HIDE DEF stored, cached, table
    <3>2. \A k \in DOMAIN stored :
             IF k = key THEN stored[k] = table ELSE k \in DOMAIN cached /\ stored[k] = cached[k]
      BY <3>1, Stored
    <3>3. \A k \in DOMAIN cached : cached[k] = precompute(k[1], k[2])
      BY Zenon DEF TablesAreRight, cached
    <3>. QED
      BY <2>3, <3>2, <3>3, Zenon DEF table
  <2>. HIDE DEF stored
  <2>5. /\ DOMAIN multiexp_cache' = Threads
        /\ \A t \in Threads : multiexp_cache'[t] = IF t = th THEN stored ELSE multiexp_cache[t]
    BY <2>2 DEF TablesAreRight
  <2>. QED
    BY <2>1, <2>4, <2>5 DEF TablesAreRight
<1>2. ASSUME StorePowers
      PROVE  TablesAreRight'
  <2>1. PICK names \in BaseLists :
          /\ cache' = With(cache, names[1], powerTable(Value[names[1]], ModulusOf(names)))
          /\ UNCHANGED <<multiexp_cache, multiCache>>
    BY <1>2, Zenon DEF StorePowers
  <2>. DEFINE key == names[1]
              table == powerTable(Value[key], Modulus[key])
  <2>2. cache' = With(cache, key, table)
    BY <2>1, Zenon DEF ModulusOf
  <2>. HIDE DEF table
  <2>3. \A name \in DOMAIN cache' :
           IF name = key THEN cache'[name] = table
                         ELSE name \in DOMAIN cache /\ cache'[name] = cache[name]
    BY <2>2, Stored
  <2>4. \A name \in DOMAIN cache' : cache'[name] = powerTable(Value[name], Modulus[name])
    <3>. HIDE DEF key
    <3>. QED
      BY <2>3, Zenon DEF table, TablesAreRight
  <2>. QED
    BY <2>1, <2>4 DEF TablesAreRight
<1>3. ASSUME StoreProducts
      PROVE  TablesAreRight'
  <2>1. PICK names \in BaseLists :
          /\ Len(names) \in DOMAIN WIDTH
          /\ multiCache' = With(multiCache, names, precomp(Values(names), ModulusOf(names)))
          /\ UNCHANGED <<multiexp_cache, cache>>
    BY <1>3, Zenon DEF StoreProducts
  <2>. DEFINE table == precomp(Values(names), ModulusOf(names))
  <2>2. multiCache' = With(multiCache, names, table)
    BY <2>1
  <2>. HIDE DEF table
  <2>3. \A list \in DOMAIN multiCache' :
           IF list = names THEN multiCache'[list] = table
                           ELSE list \in DOMAIN multiCache /\ multiCache'[list] = multiCache[list]
    BY <2>2, Stored
  <2>4. \A list \in DOMAIN multiCache' :
           /\ Len(list) \in DOMAIN WIDTH
           /\ multiCache'[list] = precomp(Values(list), ModulusOf(list))
    BY <2>1, <2>3, Zenon DEF table, TablesAreRight
  <2>. QED
    BY <2>1, <2>4 DEF TablesAreRight
<1>4. ASSUME UNCHANGED exponentiationVars
      PROVE  TablesAreRight'
  BY <1>4 DEF TablesAreRight, exponentiationVars
<1>. QED
  BY <1>1, <1>2, <1>3, <1>4 DEF ExponentiationNext

\* Whichever cache serves a call, the answer is the product.
LEMMA TablesAnswerRight == TablesAreRight => AnswersAreRight
<1>. SUFFICES ASSUME TablesAreRight, NEW names \in BaseLists, NEW exps \in Exponents[Len(names)]
              PROVE  LET right == RightAnswer(names, exps)
                     IN  /\ Len(names) = 1 => EnvModPow(names[1], exps[1]) = right
                         /\ \A th \in Threads : EnvMultiExp(th, names, exps) = right
                         /\ \A th \in Threads, cacheBases \in BOOLEAN :
                               MultiExp(th, Values(names), exps, ModulusOf(names), cacheBases) = right
  BY Zenon DEF AnswersAreRight
<1>. DEFINE right == RightAnswer(names, exps)
            bases == Values(names)
            m == ModulusOf(names)
            NotNegative == \A i \in DOMAIN exps : exps[i] >= 0
<1>1. /\ Len(bases) = Len(names) /\ Len(exps) = Len(names) /\ DOMAIN exps = 1 .. Len(names)
      /\ ProductOfPowers(bases, exps, m) = right
      /\ Len(names) = 1 =>
           /\ PowerMod(bases[1], exps[1], m) = right
           /\ bases[1] = Value[names[1]] /\ m = Modulus[names[1]]
           /\ exps[1] \in Int
           /\ exps[1] >= 0 => tableModPow(powerTable(bases[1], m), exps[1], m) = right
      /\ NotNegative =>
           /\ simultaneous(precompute(bases, m), exps, m) = right
           /\ Len(names) \in DOMAIN WIDTH => multiexp_n(precomp(bases, m), exps, m) = right
  <2>. HIDE DEF right, bases, m
  <2>1. bases = Values(names) /\ m = ModulusOf(names) /\ right = RightAnswer(names, exps)
    BY DEF right, bases, m
  <2>. QED
    BY <2>1, EveryWayIsRight
<1>. HIDE DEF right, bases, m
<1>2. ASSUME Len(names) = 1
      PROVE  EnvModPow(names[1], exps[1]) = right
  <2>1. CASE names[1] \in DOMAIN cache /\ exps[1] >= 0
    <3>1. EnvModPow(names[1], exps[1]) = tableModPow(cache[names[1]], exps[1], Modulus[names[1]])
      BY <2>1 DEF EnvModPow
    <3>2. cache[names[1]] = powerTable(Value[names[1]], Modulus[names[1]])
      BY <2>1, Zenon DEF TablesAreRight
    <3>. QED
      BY <1>1, <1>2, <2>1, <3>1, <3>2
  <2>2. CASE ~ (names[1] \in DOMAIN cache /\ exps[1] >= 0)
    <3>1. EnvModPow(names[1], exps[1]) = PowerMod(Value[names[1]], exps[1], Modulus[names[1]])
      BY <2>2 DEF EnvModPow
    <3>. QED
      BY <1>1, <1>2, <3>1
  <2>. QED
    BY <2>1, <2>2
<1>3. ASSUME NEW th \in Threads, NEW cacheBases \in BOOLEAN
      PROVE  MultiExp(th, bases, exps, m, cacheBases) = right
  <2>. DEFINE cached == multiexp_cache[th]
              key == Key(bases, m)
              G == IF key \in DOMAIN cached THEN cached[key] ELSE precompute(bases, m)
  <2>1. G = precompute(bases, m)
    <3>1. key[1] = bases /\ key[2] = m
      BY DEF Key
    <3>2. key \in DOMAIN cached => cached[key] = precompute(key[1], key[2])
      BY Zenon DEF TablesAreRight
    <3>. HIDE DEF key, cached
    <3>. QED
      BY <3>1, <3>2
  <2>2. MultiExp(th, bases, exps, m, cacheBases) =
          CASE Len(bases) # Len(exps) -> SIZE_ERROR
            [] Len(bases) = Len(exps) /\ Len(bases) = 1 -> PowerMod(bases[1], exps[1], m)
            [] Len(bases) = Len(exps) /\ multiexp_ok(bases, exps, cacheBases) -> simultaneous(G, exps, m)
            [] OTHER -> ProductOfPowers(bases, exps, m)
    BY Zenon DEF MultiExp
  <2>. HIDE DEF G
  <2>3. multiexp_ok(bases, exps, cacheBases) => NotNegative /\ Len(bases) # 1
    BY DEF multiexp_ok
  <2>. HIDE DEF NotNegative
  <2>. QED
    BY <1>1, <2>1, <2>2, <2>3
<1>4. ASSUME NEW th \in Threads
      PROVE  EnvMultiExp(th, names, exps) = right
  <2>1. CASE names \in DOMAIN multiCache /\ NotNegative
    <3>1. EnvMultiExp(th, names, exps) = multiexp_n(multiCache[names], exps, m)
      BY <2>1 DEF EnvMultiExp, m
    <3>2. Len(names) \in DOMAIN WIDTH /\ multiCache[names] = precomp(bases, m)
      BY <2>1, Zenon DEF TablesAreRight, bases, m
    <3>. HIDE DEF NotNegative
    <3>. QED
      BY <1>1, <2>1, <3>1, <3>2
  <2>2. CASE ~ (names \in DOMAIN multiCache /\ NotNegative)
    <3>1. EnvMultiExp(th, names, exps) = MultiExp(th, bases, exps, m, TRUE)
      BY <2>2 DEF EnvMultiExp, bases, m
    <3>. QED
      BY <1>3, <3>1
  <2>. QED
    BY <2>1, <2>2
<1>. QED
  BY <1>2, <1>3, <1>4, Zenon DEF right, bases, m
=============================================================================
