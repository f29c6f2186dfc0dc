--------------------------- MODULE Exponentiation ---------------------------
(* The tables behind exponentiation.  MultiExp keeps, for each thread, the   *)
(* products of two to four bases (MultiExp.cpp).  A compiled program keeps,  *)
(* under the names of its bases, the powers of one base (PowerCache) and the *)
(* products of powers of two to four (MultiExpCache), cut for exponents of   *)
(* MAX_EXPLEN bits; Environment answers from them when it can.               *)
EXTENDS Residues, FiniteSetsExt
CONSTANTS Threads,      \* each has a MultiExpCacher of its own
          Value,        \* the value of each name of a base
          Modulus,      \* the modulus of the group of each name
          MAX_EXPLEN,   \* the bits an exponent may have (2048)
          K,            \* the bits of a row of a PowerCache (5)
          WIDTH,        \* the bits of each exponent in a row, by number of bases
          BaseLists,    \* bound: the lists of names of the calls, each of one group
          Exponents,    \* bound: the exponents of the calls, by number of bases
          MAX_TABLES    \* bound: the tables in all caches together
VARIABLES multiexp_cache,  \* of each thread: bases and modulus to products
          cache,           \* PowerCache: a name to its table
          multiCache       \* MultiExpCache: names to their table
exponentiationVars == <<multiexp_cache, cache, multiCache>>

\* What is no residue: an exception, a failed assertion, a read past a table.
SIZE_ERROR == -1
ASSERTION == -2
OVERRUN == -3

MulMod(a, b, m) == (a * b) % m
TwoTo[k \in Nat] == IF k = 0 THEN 1 ELSE 2 * TwoTo[k - 1]
\* The digit with number i, of `width` bits.
digit(n, i, width) == (n \div TwoTo[width * i]) % TwoTo[width]
NumBits(n) == IF n = 0 THEN 0 ELSE CHOOSE b \in 1 .. n : TwoTo[b - 1] <= n /\ n < TwoTo[b]
Longest(exps) == Max({NumBits(exps[i]) : i \in DOMAIN exps})
Values(names) == [i \in DOMAIN names |-> Value[names[i]]]
ModulusOf(names) == Modulus[names[1]]
CeilDiv(a, b) == (a + b - 1) \div b

\* The bases of a call are invertible and of one group, and no exponent has more
\* bits than the tables are made for.
ASSUME ExponentiationAssumption ==
  /\ MAX_EXPLEN \in Nat \ {0} /\ K \in Nat \ {0}
  /\ \A blen \in DOMAIN WIDTH : WIDTH[blen] \in Nat \ {0}
  /\ \A name \in DOMAIN Value :
        /\ Modulus[name] \in Nat /\ Modulus[name] > 1 /\ Value[name] \in Nat
        /\ \E x \in 1 .. Modulus[name] - 1 : ((Value[name] % Modulus[name]) * x) % Modulus[name] = 1
  /\ \A names \in BaseLists :
        /\ names \in Seq(DOMAIN Value) /\ names # <<>>
        /\ \A i \in DOMAIN names : Modulus[names[i]] = ModulusOf(names)
        /\ \A exps \in Exponents[Len(names)] :
              /\ exps \in Seq(Int) /\ Len(exps) = Len(names)
              /\ \A i \in DOMAIN exps : exps[i] < TwoTo[MAX_EXPLEN]

\* What the digits with number r of the exponents make up: the cell of a table.
expcol(exps, r, width) ==
  LET col[j \in 0 .. Len(exps)] ==
        IF j = 0 THEN 0 ELSE col[j - 1] + digit(exps[j], r, width) * TwoTo[width * (j - 1)]
  IN  col[Len(exps)]

----------------------------------------------------------------------------
(* MultiExpCacher::exp: G[c] is the product of the bases whose bits are set  *)
(* in c, from the last to the first, and the exponents are read one column   *)
(* of bits at a time, from the highest.                                      *)
MasksOfTwo(bases) == 0 .. 3
Masks(bases) == 0 .. TwoTo[Len(bases)] - 1
precompute(bases, m) ==
  LET product(c) ==
        LET last[i \in 0 .. Len(bases)] ==
              LET j == Len(bases) - i
              IN  CASE i = 0                                 -> 1
                    [] i > 0 /\ digit(c, j, 1) = 0           -> last[i - 1]
                    [] i > 0 /\ digit(c, j, 1) # 0 /\ c < TwoTo[j + 1] -> bases[j + 1]
                    [] OTHER                                 -> MulMod(bases[j + 1], last[i - 1], m)
        IN  last[Len(bases)]
  IN  [c \in Masks(bases) |-> product(c)]
simultaneous(G, exps, m) ==
  LET t == Longest(exps)
      A[i \in 0 .. t] ==
        IF i = 0 THEN 1
        ELSE LET a == A[i - 1]
                 col == expcol(exps, t - i, 1)
             IN  IF col = 0 THEN MulMod(a, a, m) ELSE MulMod(MulMod(a, a, m), G[col], m)
  IN  A[t]

KeyOfBases(bases, m) == <<bases, 0>>
Key(bases, m) == <<bases, m>>
multiexp_ok(bases, exps, cacheBases) ==
  Len(bases) \in 2 .. 4 /\ cacheBases /\ \A i \in DOMAIN exps : exps[i] >= 0
\* The answer of a call in a thread, by what the thread has cached.
MultiExp(th, bases, exps, m, cacheBases) ==
  LET cached == multiexp_cache[th]
      G == IF Key(bases, m) \in DOMAIN cached THEN cached[Key(bases, m)] ELSE precompute(bases, m)
  IN  CASE Len(bases) # Len(exps) -> SIZE_ERROR
        [] Len(bases) = Len(exps) /\ Len(bases) = 1 -> PowerMod(bases[1], exps[1], m)
        [] Len(bases) = Len(exps) /\ multiexp_ok(bases, exps, cacheBases) -> simultaneous(G, exps, m)
        [] OTHER -> ProductOfPowers(bases, exps, m)

----------------------------------------------------------------------------
(* PowerCache: row r holds the base to each word of K bits, shifted by r * K *)
(* bits.  A row that the table does not have is read past its end.           *)
numLookups(bits) == bits \div K + 1
powerTable(base, m) ==
  LET lookup(mult) == LET row[j \in 0 .. TwoTo[K] - 1] == IF j = 0 THEN 1 ELSE MulMod(mult, row[j - 1], m)
                      IN  row
      multiplier[r \in 0 .. numLookups(MAX_EXPLEN)] ==
        IF r = 0 THEN base
        ELSE LET mult == multiplier[r - 1] IN MulMod(mult, lookup(mult)[TwoTo[K] - 1], m)
  IN  [r \in 0 .. numLookups(MAX_EXPLEN) - 1 |-> lookup(multiplier[r])]
tableModPow(table, n, m) ==
  LET result[r \in 0 .. NumBits(n) \div K + 1] ==
        IF r = 0 THEN 1
        ELSE LET A == result[r - 1]
                 word == digit(n, r - 1, K)
             IN  CASE A = OVERRUN \/ (word > 0 /\ r - 1 \notin DOMAIN table) -> OVERRUN
                   [] A # OVERRUN /\ word = 0 -> A
                   [] OTHER -> MulMod(A, table[r - 1][word], m)
  IN  result[NumBits(n) \div K + 1]
EnvModPow(name, e) ==
  IF name \in DOMAIN cache /\ e >= 0 THEN tableModPow(cache[name], e, Modulus[name])
                                     ELSE PowerMod(Value[name], e, Modulus[name])

----------------------------------------------------------------------------
(* MultiExpCache: cell c of the first row is the product of the bases to the *)
(* digits of c, WIDTH bits for each; each further row is the one before to   *)
(* the 2^WIDTH.  An exponent with more digits than rows fails an assertion.  *)
rows(width, maxlen) == CeilDiv(maxlen, width)
precomp(bases, m) ==
  LET width == WIDTH[Len(bases)]
      cells == 0 .. TwoTo[width * Len(bases)] - 1
      first(c) == ProductOfPowers(bases, [j \in DOMAIN bases |-> digit(c, j - 1, width)], m)
      table[r \in 0 .. rows(width, MAX_EXPLEN) - 1] ==
        IF r = 0 THEN [c \in cells |-> first(c)]
                 ELSE [c \in cells |-> PowerMod(table[r - 1][c], TwoTo[width], m)]
  IN  table
multiexp_n(table, exps, m) ==
  LET width == WIDTH[Len(exps)]
      digits == CeilDiv(Longest(exps), width)
      A[r \in 0 .. digits] ==
        IF r = 0 THEN 1
        ELSE LET col == expcol(exps, r - 1, width)
             IN  IF col = 0 THEN A[r - 1] ELSE MulMod(A[r - 1], table[r - 1][col], m)
  IN  IF digits > Cardinality(DOMAIN table) THEN ASSERTION ELSE A[digits]
EnvMultiExp(th, names, exps) ==
  IF names \in DOMAIN multiCache /\ \A i \in DOMAIN exps : exps[i] >= 0
  THEN multiexp_n(multiCache[names], exps, ModulusOf(names))
  ELSE MultiExp(th, Values(names), exps, ModulusOf(names), TRUE)

----------------------------------------------------------------------------
(* What a call leaves behind.  cachePowers tabulates the bases of what is to *)
(* be proved; a list that is tabulated keeps its table.                      *)
Tables == MapThenSumSet(LAMBDA th : Cardinality(DOMAIN multiexp_cache[th]), Threads)
            + Cardinality(DOMAIN cache) + Cardinality(DOMAIN multiCache)
With(f, key, table) == [x \in DOMAIN f \cup {key} |-> IF x = key THEN table ELSE f[x]]
CallMultiExp(th) ==
  \E names \in BaseLists, cacheBases \in BOOLEAN :
    LET key == Key(Values(names), ModulusOf(names))
    IN  /\ \E exps \in Exponents[Len(names)] : multiexp_ok(Values(names), exps, cacheBases)
        /\ key \notin DOMAIN multiexp_cache[th]
        /\ multiexp_cache' =
             [multiexp_cache EXCEPT ![th] = With(@, key, precompute(Values(names), ModulusOf(names)))]
        /\ UNCHANGED <<cache, multiCache>>
StorePowers ==
  \E names \in BaseLists :
    /\ Len(names) = 1
    /\ cache' = With(cache, names[1], powerTable(Value[names[1]], ModulusOf(names)))
    /\ UNCHANGED <<multiexp_cache, multiCache>>
StoreProducts ==
  \E names \in BaseLists :
    /\ Len(names) \in DOMAIN WIDTH /\ names \notin DOMAIN multiCache
    /\ multiCache' = With(multiCache, names, precomp(Values(names), ModulusOf(names)))
    /\ UNCHANGED <<multiexp_cache, cache>>

ExponentiationInit ==
  /\ multiexp_cache = [th \in Threads |-> [x \in {} |-> {}]]
  /\ cache = [x \in {} |-> {}]
  /\ multiCache = [x \in {} |-> {}]
ExponentiationNext ==
  Tables < MAX_TABLES /\ ((\E th \in Threads : CallMultiExp(th)) \/ StorePowers \/ StoreProducts)

----------------------------------------------------------------------------
(* A base multiplied with itself, and the product of such powers.            *)
Powers(base, m) == LET power[e \in Nat] == IF e = 0 THEN 1 % m ELSE (power[e - 1] * base) % m
                   IN  power
Repeated(b, e, m) == IF e < 0 THEN Powers(InvMod(b % m, m), m)[0 - e] ELSE Powers(b % m, m)[e]
RightAnswer(names, exps) ==
  LET m == ModulusOf(names)
      product[i \in 0 .. Len(names)] ==
        IF i = 0 THEN 1 ELSE (product[i - 1] * Repeated(Value[names[i]], exps[i], m)) % m
  IN  product[Len(names)]

\* In every state of the caches, what a thread is answered for exponents of at
\* most MAX_EXPLEN bits is the product of the bases multiplied out: whichever
\* cache serves the call, whatever modulus the same bases were cached for
\* before, and whether or not the bits of an exponent fill the rows of a table.
AnswersAreRight ==
  \A names \in BaseLists : \A exps \in Exponents[Len(names)] :
    LET right == RightAnswer(names, exps)
    IN  /\ Len(names) = 1 => EnvModPow(names[1], exps[1]) = right
        /\ \A th \in Threads : EnvMultiExp(th, names, exps) = right
        /\ \A th \in Threads, cacheBases \in BOOLEAN :
              MultiExp(th, Values(names), exps, ModulusOf(names), cacheBases) = right
=============================================================================
