----------------------------- MODULE Arithmetic -----------------------------
(* What the protocols compute with: groups, the tables of exponentiation,    *)
(* the four squares of a range proof, which FourSquares::decompose keeps in  *)
(* a cache for the whole process, and the encryption of files.  They share   *)
(* no state, so that a behaviour is about one of them.                       *)
EXTENDS Groups, Exponentiation, FourSquares, CounterMode
CONSTANTS Numbers,      \* bound: the numbers decomposed
          MAX_CACHED    \* bound: how many of them in a behaviour
ASSUME CachedAssumption == MAX_CACHED \in Nat
\* "No case for the following to return is known" (FourSquares.cpp:547): for what
\* is decomposed the search finds a prime.
ASSUME SearchesEnd == Numbers \subseteq Int /\ \A n \in Numbers : decompose[n] # <<>>
VARIABLES decomp_cache, \* a number to its roots
          job           \* what the behaviour is about
vars == <<groupVars, exponentiationVars, decomp_cache, fileVars, job>>

Jobs == {"groups", "powers", "squares", "files"}
Decompose ==
  \E n \in Numbers :
    /\ n \in DOMAIN decomp_cache \/ Cardinality(DOMAIN decomp_cache) < MAX_CACHED
    /\ decomp_cache' = [x \in DOMAIN decomp_cache \cup {n} |->
                          IF x \in DOMAIN decomp_cache THEN decomp_cache[x] ELSE decompose[n]]

Init ==
  /\ GroupsInit /\ ExponentiationInit /\ FileInit
  /\ decomp_cache = [n \in {} |-> <<>>]
  /\ job \in Jobs
Next ==
  /\ UNCHANGED job
  /\ \/ job = "groups" /\ GroupsNext /\ UNCHANGED <<exponentiationVars, decomp_cache, fileVars>>
     \/ job = "powers" /\ ExponentiationNext /\ UNCHANGED <<groupVars, decomp_cache, fileVars>>
     \/ job = "squares" /\ Decompose /\ UNCHANGED <<groupVars, exponentiationVars, fileVars>>
     \/ job = "files" /\ FileNext /\ UNCHANGED <<groupVars, exponentiationVars, decomp_cache>>
Spec == Init /\ [][Next]_vars

----------------------------------------------------------------------------
TypeOK ==
  /\ GroupsTypeOK
  /\ \A th \in Threads : \A key \in DOMAIN multiexp_cache[th] :
        DOMAIN multiexp_cache[th][key] = 0 .. TwoTo[Len(key[1])] - 1
  /\ DOMAIN decomp_cache \subseteq Numbers /\ Cardinality(DOMAIN decomp_cache) <= MAX_CACHED

\* The roots of a number that is not negative are four, and their squares sum
\* to it, whichever case of the algorithm found them; a negative number is
\* answered with itself as its root, which the commitments then refute.
SquaresAreRight ==
  \A n \in DOMAIN decomp_cache :
    LET r == decomp_cache[n]
    IN  /\ Len(r) = 4
        /\ (n >= 0) = (r[1] * r[1] + r[2] * r[2] + r[3] * r[3] + r[4] * r[4] = n)
=============================================================================
