----------------------------- MODULE LoopProofs -----------------------------
(***************************************************************************)
(* What the other proofs know of least numbers and of functions defined by *)
(* recursion: that a loop which hands on its state defines a function, and *)
(* so does a recursion that goes down the natural numbers.  And what they  *)
(* know of remainders.                                                     *)
(***************************************************************************)
EXTENDS Integers, WellFoundedInduction, TLAPS

\* A set of natural numbers has a least one.
LEMMA LeastNumber ==
  ASSUME NEW N, N \subseteq Nat, N # {}
  PROVE  \E n \in N : \A m \in N : n <= m
<1>. DEFINE less == {p \in Nat \X Nat : p[1] < p[2]}
<1>1. IsWellFoundedOn(less, Nat)
  BY NatLessThanWellFounded, Zenon DEF OpToRel
<1>2. PICK n \in N : \A m \in N : ~ (<<m, n>> \in less)
  <2>. HIDE DEF less
  <2>. QED
    BY <1>1, WFMin
<1>3. \A m \in N : m < n => <<m, n>> \in less
  OBVIOUS
<1>. HIDE DEF less
<1>4. \A m \in N : ~ (m < n)
  BY <1>2, <1>3
<1>. QED
  BY <1>4
-----------------------------------------------------------------------------
(* Loops.                                                                  *)
Loop(X, D, next, out, f) == f = [x \in X |-> IF x \in D THEN f[next[x]] ELSE out[x]]

\* A loop that goes on from the states in D to the next state, and ends in the
\* others, defines a function, whether it ends from every state or not.
LEMMA TailRecursion ==
  ASSUME NEW X, NEW D, NEW next \in [X -> X], NEW out
  PROVE  \E f : Loop(X, D, next, out, f)
<1>. DEFINE Run(x, n, s) == /\ s \in [0 .. n -> X] /\ s[0] = x
                            /\ \A i \in 0 .. n - 1 : s[i] \in D /\ s[i + 1] = next[s[i]]
            Ends(x) == {y \in X \ D : \E n \in Nat : \E s : Run(x, n, s) /\ s[n] = y}
            end(x) == CHOOSE y : y \in Ends(x)
            f == [x \in X |-> out[end(x)]]
<1>1. ASSUME NEW x \in X, x \in D PROVE Ends(x) = Ends(next[x])
  <2>1. ASSUME NEW y \in X \ D, NEW n \in Nat, NEW s, Run(x, n, s), s[n] = y
        PROVE  y \in Ends(next[x])
    <3>1. n # 0
      BY <1>1, <2>1
    <3>. DEFINE u == [i \in 0 .. n - 1 |-> s[i + 1]]
    <3>2. Run(next[x], n - 1, u)
      <4>1. u \in [0 .. n - 1 -> X]
        BY <2>1, <3>1
      <4>2. u[0] = next[x]
        <5>1. 0 \in 0 .. n - 1
          BY <3>1
        <5>. QED
          BY <2>1, <5>1
      <4>3. ASSUME NEW i \in 0 .. (n - 1) - 1
            PROVE  u[i] \in D /\ u[i + 1] = next[u[i]]
        <5>1. /\ i \in 0 .. n - 1 /\ i + 1 \in 0 .. n - 1
          OBVIOUS
        <5>2. u[i] = s[i + 1] /\ u[i + 1] = s[(i + 1) + 1]
          BY <5>1
        <5>. QED
          BY <2>1, <5>1, <5>2
      <4>. QED
        BY <4>1, <4>2, <4>3
    <3>3. u[n - 1] = y
      BY <2>1, <3>1
    <3>4. n - 1 \in Nat
      BY <3>1
    <3>. HIDE DEF u, Run
    <3>. QED
      BY <3>2, <3>3, <3>4
  <2>2. ASSUME NEW y \in X \ D, NEW n \in Nat, NEW s, Run(next[x], n, s), s[n] = y
        PROVE  y \in Ends(x)
    <3>. DEFINE u == [i \in 0 .. n + 1 |-> IF i = 0 THEN x ELSE s[i - 1]]
    <3>1. Run(x, n + 1, u)
      <4>1. u \in [0 .. n + 1 -> X]
        <5>1. \A i \in 0 .. n + 1 : i # 0 => i - 1 \in 0 .. n
          OBVIOUS
        <5>. QED
          BY <2>2, <5>1
      <4>2. u[0] = x
        OBVIOUS
      <4>3. ASSUME NEW i \in 0 .. (n + 1) - 1
            PROVE  u[i] \in D /\ u[i + 1] = next[u[i]]
        <5>1. i \in 0 .. n + 1 /\ i + 1 \in 0 .. n + 1 /\ i + 1 # 0 /\ (i + 1) - 1 = i
          OBVIOUS
        <5>2. u[i + 1] = s[i]
          BY <5>1
        <5>3. CASE i = 0
          BY <1>1, <2>2, <5>2, <5>3
        <5>4. CASE i # 0
          <6>1. i - 1 \in 0 .. n - 1 /\ (i - 1) + 1 = i
            BY <5>4
          <6>2. u[i] = s[i - 1]
            BY <5>1, <5>4
          <6>. QED
            BY <2>2, <5>2, <6>1, <6>2
        <5>. QED
          BY <5>3, <5>4
      <4>. QED
        BY <4>1, <4>2, <4>3
    <3>2. u[n + 1] = y
      BY <2>2
    <3>3. n + 1 \in Nat
      OBVIOUS
    <3>. HIDE DEF u, Run
    <3>. QED
      BY <3>1, <3>2, <3>3
  <2>. HIDE DEF Run
  <2>. QED
    BY <2>1, <2>2
<1>2. ASSUME NEW x \in X, x \notin D PROVE Ends(x) = {x}
  <2>1. x \in Ends(x)
    <3>1. Run(x, 0, [i \in {0} |-> x]) /\ [i \in {0} |-> x][0] = x
      OBVIOUS
    <3>. HIDE DEF Run
    <3>. QED
      BY <1>2, <3>1
  <2>2. ASSUME NEW n \in Nat, NEW s, Run(x, n, s) PROVE s[n] = x
    BY <1>2, <2>2
  <2>. HIDE DEF Run
  <2>. QED
    BY <2>1, <2>2
<1>. HIDE DEF Ends
<1>3. \A x \in X : (IF x \in D THEN f[next[x]] ELSE out[x]) = out[end(x)]
  <2>1. ASSUME NEW x \in X, x \in D PROVE f[next[x]] = out[end(x)]
    BY <1>1, <2>1
  <2>2. ASSUME NEW x \in X, x \notin D PROVE out[x] = out[end(x)]
    BY <1>2, <2>2
  <2>. QED
    BY <2>1, <2>2
<1>4. Loop(X, D, next, out, f)
  BY <1>3 DEF Loop
<1>. QED
  BY <1>4
-----------------------------------------------------------------------------
(* Recursion.                                                              *)
Recursion(X, D, next, step, out, f) ==
  f = [x \in X |-> IF x \in D THEN step[<<x, f[next[x]]>>] ELSE out[x]]

\* A recursion that asks for the value of a smaller number defines a function.
LEMMA DescendingRecursion ==
  ASSUME NEW X, \A x \in X : x \in Nat, NEW D \in SUBSET X, NEW S,
         NEW next \in [D -> X], \A x \in D : next[x] < x,
         NEW step \in [D \X S -> S], NEW out \in [X -> S]
  PROVE  \E f \in [X -> S] : Recursion(X, D, next, step, out, f)
<1>. DEFINE Value(g, x) == IF x \in D THEN step[<<x, g[next[x]]>>] ELSE out[x]
            Upto(n, g) == g \in [X -> S] /\ \A x \in X : x < n => g[x] = Value(g, x)
            Bad == {n \in Nat : ~ \E g : Upto(n, g)}
<1>1. ASSUME NEW g \in [X -> S], NEW x \in X PROVE Value(g, x) \in S
  BY <1>1
<1>2. ASSUME NEW n \in Nat, NEW g, Upto(n, g) PROVE \E h : Upto(n + 1, h)
  <2>. DEFINE h == [x \in X |-> Value(g, x)]
  <2>1. g \in [X -> S]
    BY <1>2
  <2>2. h \in [X -> S]
    <3>. HIDE DEF Value
    <3>. QED
      BY <1>1, <2>1
  <2>3. ASSUME NEW x \in X, x < n + 1 PROVE h[x] = Value(h, x)
    <3>1. CASE x \notin D
      BY <3>1
    <3>2. CASE x \in D
      <4>1. next[x] \in X /\ next[x] < x
        BY <3>2
      <4>2. next[x] < n
        BY <2>3, <4>1
      <4>3. g[next[x]] = Value(g, next[x])
        BY <1>2, <4>1, <4>2
      <4>4. h[next[x]] = g[next[x]]
        <5>. HIDE DEF Value
        <5>. QED
          BY <4>1, <4>3
      <4>. QED
        BY <3>2, <4>4
    <3>. QED
      BY <3>1, <3>2
  <2>. HIDE DEF h, Value
  <2>. QED
    BY <2>2, <2>3
<1>3. Upto(0, out)
  <2>1. \A x \in X : ~ (x < 0)
    OBVIOUS
  <2>. HIDE DEF Value
  <2>. QED
    BY <2>1
<1>4. Bad = {}
  <2>. HIDE DEF Upto
  <2>1. SUFFICES ASSUME Bad # {} PROVE FALSE
    OBVIOUS
  <2>2. PICK n \in Bad : \A m \in Bad : n <= m
    BY <2>1, LeastNumber
  <2>3. n \in Nat /\ n # 0
    BY <1>3
  <2>4. n - 1 \in Nat /\ n - 1 \notin Bad /\ (n - 1) + 1 = n
    BY <2>2, <2>3
  <2>5. \E g : Upto(n - 1, g)
    BY <2>4
  <2>6. \E h : Upto(n, h)
    BY <1>2, <2>4, <2>5
  <2>. QED
    BY <2>6
<1>5. ASSUME NEW n \in Nat, NEW g, Upto(n, g), NEW k \in Nat, NEW h, Upto(k, h),
             NEW x \in X, x < n, x < k
      PROVE  g[x] = h[x]
  <2>. DEFINE Differ == {y \in X : y < n /\ y < k /\ g[y] # h[y]}
  <2>1. SUFFICES ASSUME Differ # {} PROVE FALSE
    BY <1>5
  <2>2. PICK y \in Differ : \A z \in Differ : y <= z
    <3>1. Differ \subseteq Nat
      OBVIOUS
    <3>. HIDE DEF Differ
    <3>. QED
      BY <2>1, <3>1, LeastNumber
  <2>3. y \in X /\ y < n /\ y < k /\ g[y] # h[y] /\ y \in Nat
    OBVIOUS
  <2>4. g[y] = Value(g, y) /\ h[y] = Value(h, y)
    BY <1>5, <2>3
  <2>5. y \in D /\ g[next[y]] # h[next[y]]
    BY <2>3, <2>4
  <2>6. next[y] \in X /\ next[y] < y /\ next[y] \in Nat
    BY <2>5
  <2>7. next[y] \in Differ
    BY <2>3, <2>5, <2>6
  <2>. HIDE DEF Differ
  <2>. QED
    BY <2>2, <2>3, <2>6, <2>7
<1>. DEFINE part(n) == CHOOSE g : Upto(n, g)
            f == [x \in X |-> part(x + 1)[x]]
<1>6. ASSUME NEW x \in X PROVE Upto(x + 1, part(x + 1)) /\ x + 1 \in Nat
  <2>1. x + 1 \in Nat /\ x + 1 \notin Bad
    BY <1>4
  <2>2. \E g : Upto(x + 1, g)
    <3>. HIDE DEF Upto
    <3>. QED
      BY <2>1
  <2>. HIDE DEF Upto
  <2>. QED
    BY <2>1, <2>2
<1>7. f \in [X -> S]
  <2>1. ASSUME NEW x \in X PROVE part(x + 1)[x] \in S
    <3>1. part(x + 1) \in [X -> S]
      BY <1>6
    <3>. QED
      BY <3>1
  <2>. HIDE DEF part
  <2>. QED
    BY <2>1
<1>8. ASSUME NEW x \in X PROVE f[x] = Value(f, x)
  <2>1. f[x] = Value(part(x + 1), x)
    <3>1. part(x + 1)[x] = Value(part(x + 1), x)
      <4>1. x < x + 1
        OBVIOUS
      <4>. HIDE DEF Value, part
      <4>. QED
        BY <1>6, <4>1
    <3>. HIDE DEF Value, part
    <3>. QED
      BY <3>1
  <2>2. ASSUME x \in D PROVE part(x + 1)[next[x]] = f[next[x]]
    <3>1. next[x] \in X /\ next[x] < x /\ next[x] < x + 1 /\ next[x] < next[x] + 1
      BY <2>2
    <3>2. part(x + 1)[next[x]] = part(next[x] + 1)[next[x]]
      <4>. HIDE DEF Upto, part
      <4>. QED
        BY <1>5, <1>6, <3>1
    <3>. HIDE DEF part
    <3>. QED
      BY <3>1, <3>2
  <2>. HIDE DEF f, part
  <2>. QED
    BY <2>1, <2>2
<1>9. Recursion(X, D, next, step, out, f)
  <2>1. f = [x \in X |-> f[x]]
    BY <1>7
  <2>2. f = [x \in X |-> Value(f, x)]
    <3>. HIDE DEF f, Value
    <3>. QED
      BY <1>8, <2>1
  <2>. HIDE DEF f
  <2>. QED
    BY <2>2 DEF Recursion
<1>. HIDE DEF f
<1>. QED
  BY <1>7, <1>9
-----------------------------------------------------------------------------
(* Counting.                                                               *)

\* What holds of 0 and is handed on from each number to the next holds up to n.
LEMMA Counting ==
  ASSUME NEW n \in Nat, NEW Good, 0 \in Good, \A i \in 1 .. n : i - 1 \in Good => i \in Good
  PROVE  \A i \in 0 .. n : i \in Good
<1>. DEFINE Bad == {i \in 0 .. n : i \notin Good}
<1>1. SUFFICES ASSUME Bad # {} PROVE FALSE
  OBVIOUS
<1>2. PICK i \in Bad : \A j \in Bad : i <= j
  <2>1. Bad \subseteq Nat
    OBVIOUS
  <2>. HIDE DEF Bad
  <2>. QED
    BY <1>1, <2>1, LeastNumber
<1>3. i \in 0 .. n /\ i # 0
  OBVIOUS
<1>4. i \in 1 .. n /\ i - 1 \in 0 .. n /\ i - 1 \notin Bad
  BY <1>2, <1>3
<1>. QED
  BY <1>4

\* A loop that counts to n defines a function.
CountedLoop(n, first, step, f) ==
  f = [i \in 0 .. n |-> IF i = 0 THEN first ELSE step[<<i, f[i - 1]>>]]

LEMMA CountedLoopExists ==
  ASSUME NEW n \in Nat, NEW S, NEW first \in S, NEW step \in [(1 .. n) \X S -> S]
  PROVE  \E f \in [0 .. n -> S] : CountedLoop(n, first, step, f)
<1>. DEFINE X == 0 .. n
            D == 1 .. n
            next == [i \in D |-> i - 1]
            out == [i \in X |-> first]
<1>1. /\ next \in [D -> X] /\ (\A i \in D : next[i] < i)
      /\ D \in SUBSET X /\ \A i \in X : i \in Nat
  OBVIOUS
<1>2. step \in [D \X S -> S] /\ out \in [X -> S]
  OBVIOUS
<1>3. PICK f \in [X -> S] : Recursion(X, D, next, step, out, f)
  <2>. HIDE DEF X, D, next, out
  <2>. QED
    BY <1>1, <1>2, DescendingRecursion
<1>4. \A i \in X : (IF i \in D THEN step[<<i, f[next[i]]>>] ELSE out[i]) =
                     IF i = 0 THEN first ELSE step[<<i, f[i - 1]>>]
  <2>1. \A i \in X : i \in D => next[i] = i - 1 /\ i # 0
    OBVIOUS
  <2>2. \A i \in X : i \notin D => i = 0 /\ out[i] = first
    OBVIOUS
  <2>. HIDE DEF X, D, next, out
  <2>. QED
    BY <2>1, <2>2
<1>5. f = [i \in X |-> IF i = 0 THEN first ELSE step[<<i, f[i - 1]>>]]
  <2>1. f = [i \in X |-> IF i \in D THEN step[<<i, f[next[i]]>>] ELSE out[i]]
    BY <1>3, Zenon DEF Recursion
  <2>. HIDE DEF X, D, next, out
  <2>. QED
    BY <1>4, <2>1, Zenon
<1>. QED
  BY <1>3, <1>5, Zenon DEF CountedLoop

-----------------------------------------------------------------------------
(* Remainders.                                                             *)
LEMMA Remainder ==
  ASSUME NEW a \in Nat, NEW m \in Nat \ {0}
  PROVE  a = m * (a \div m) + (a % m) /\ a % m \in 0 .. m - 1 /\ a \div m \in Nat
OBVIOUS

LEMMA SameRemainder ==
  ASSUME NEW a \in Nat, NEW q \in Nat, NEW m \in Nat \ {0}
  PROVE  (a + m * q) % m = a % m
<1>1. PICK r \in 0 .. m - 1, k \in Nat : a = m * k + r /\ a % m = r
  BY Remainder
<1>2. a + m * q = m * (k + q) + r
  BY <1>1
<1>3. (m * (k + q) + r) % m = r
  OBVIOUS
<1>. QED
  BY <1>1, <1>2, <1>3

\* Modulo a prime every number but 0 has an inverse: the least remainder of a
\* multiple of a divides p, for the next one after p would be less.
LEMMA InverseModPrime ==
  ASSUME NEW p \in Nat, p > 1, \A d \in 2 .. p - 1 : p % d # 0, NEW a \in Nat, a % p # 0
  PROVE  \E b \in Nat : (a * b) % p = 1
<1>. DEFINE N == {(a * k) % p : k \in Nat} \ {0}
<1>1. \A k \in Nat : a * k \in Nat /\ (a * k) % p \in 0 .. p - 1
  <2>1. \A k \in Nat : a * k \in Nat
    OBVIOUS
  <2>2. \A x \in Nat : x % p \in 0 .. p - 1
    OBVIOUS
  <2>. QED
    BY <2>1, <2>2
<1>2. N \subseteq Nat /\ a % p \in N
  <2>1. (a * 1) % p = a % p /\ 1 \in Nat
    OBVIOUS
  <2>2. N \subseteq Nat
    BY <1>1
  <2>. QED
    BY <2>1, <2>2
<1>3. PICK m \in N : \A l \in N : m <= l
  <2>. HIDE DEF N
  <2>. QED
    BY <1>2, LeastNumber
<1>4. PICK k \in Nat : m = (a * k) % p
  OBVIOUS
<1>5. m \in 1 .. p - 1
  BY <1>1, <1>4
<1>. HIDE DEF N
<1>6. m = 1
  <2>. SUFFICES ASSUME m # 1 PROVE FALSE
    OBVIOUS
  <2>. DEFINE q == p \div m
              r == p % m
              e == (a * k) \div p
              l == k * (q + 1)
              s == m - r
  <2>1. p = m * q + r /\ r \in 1 .. m - 1 /\ q \in Nat
    <3>1. p % m # 0 /\ m \in Nat \ {0}
      <4>1. m \in 2 .. p - 1
        BY <1>5
      <4>. QED
        BY <4>1
    <3>2. p = m * (p \div m) + (p % m) /\ p % m \in 0 .. m - 1 /\ p \div m \in Nat
      BY <3>1, Remainder
    <3>. HIDE DEF s, l, e
    <3>. QED
      BY <3>1, <3>2
  <2>2. a * k = p * e + m /\ e \in Nat
    <3>1. p \in Nat \ {0} /\ a * k \in Nat
      BY <1>1
    <3>2. a * k = p * ((a * k) \div p) + ((a * k) % p) /\ (a * k) \div p \in Nat
      BY <3>1, Remainder
    <3>. QED
      BY <1>4, <3>2
  <2>. HIDE DEF q, r, e
  <2>3. l \in Nat /\ s \in 1 .. m - 1
    BY <2>1, <1>5
  <2>4. a * l = s + p * (e * (q + 1) + 1)
    <3>1. a * l = (a * k) * (q + 1)
      BY <2>1
    <3>2. (p * e + m) * (q + 1) = p * (e * (q + 1)) + (m * q + m)
      BY <1>5, <2>1, <2>2
    <3>3. m * q + m = p + s
      BY <1>5, <2>1
    <3>. DEFINE u == e * (q + 1)
    <3>4. u \in Nat /\ p * (u + 1) = p * u + p
      BY <2>1, <2>2
    <3>. HIDE DEF u, l
    <3>5. p * u \in Int /\ s \in Int
      BY <1>5, <2>1, <3>4
    <3>. QED
      BY <2>2, <3>1, <3>2, <3>3, <3>4, <3>5 DEF u
  <2>5. (a * l) % p = s
    <3>1. e * (q + 1) + 1 \in Nat
      BY <2>1, <2>2
    <3>. HIDE DEF l, s
    <3>2. s \in 0 .. p - 1 /\ s % p = s
      BY <1>5, <2>3
    <3>3. \A u \in Nat : (s + p * u) % p = s % p
      <4>1. s \in Nat /\ p \in Nat \ {0}
        BY <3>2
      <4>. QED
        BY <4>1, SameRemainder
    <3>. QED
      BY <2>4, <3>1, <3>2, <3>3
  <2>. HIDE DEF s, l
  <2>6. s \in N
    <3>1. (a * l) % p \in {(a * j) % p : j \in Nat}
      BY <2>3, Zenon
    <3>2. s # 0
      BY <2>3
    <3>. QED
      BY <2>5, <3>1, <3>2 DEF N
  <2>. QED
    BY <1>3, <1>5, <2>3, <2>6
<1>. QED
  BY <1>4, <1>6
=============================================================================
