---------------------------- MODULE MCInterpreter ----------------------------
(* Programs from src/ZKP/examples, as tokens, run over groups that are small *)
(* enough to compute in: one of prime order and an RSA group whose order is  *)
(* not known.                                                                *)
EXTENDS Interpreter

DlrProgram == <<
  "computation", ":", "given", ":", "group", ":", "G", "=", "<", "f", ",", "g", ",", "h", ",",
  "h1", ",", "h2", ">", "compute", ":", "random", "exponents", "in", "G", ":", "r", ",", "x",
  ",", "r", "_", "x", ",", "rando", "c", "_", "x", ":=", "g", "^", "x", "*", "h", "^", "r",
  "_", "x", "alpha", ":=", "r", "_", "x", "-", "rando", "*", "r", "other", ":=", "(", "g",
  "^", "x", "*", "h", "^", "r", "_", "x", ")", "^", "x", "*", "h", "^", "alpha", "proof", ":",
  "given", ":", "group", ":", "G", "=", "<", "g", ",", "h", ">", "elements", "in", "G", ":",
  "c", "_", "x", ",", "other", "commitment", "to", "x", ":", "c", "_", "x", "=", "g", "^",
  "x", "*", "h", "^", "r", "_", "x", "prove", "knowledge", "of", ":", "exponents", "in", "G",
  ":", "r", ",", "r", "_", "x", ",", "x", ",", "alpha", ",", "rando", "such", "that", ":",
  "other", "=", "c", "_", "x", "^", "x", "*", "h", "^", "(", "r", "_", "x", "-", "rando", "*",
  "r", ")">>

MultiplicationComputation == <<
  "computation", ":", "given", ":", "group", ":", "G", "=", "<", "f", ",", "g", ",", "h", ",",
  "h1", ",", "h2", ">", "compute", ":", "random", "exponents", "in", "G", ":", "a", ",", "b",
  ",", "r", "_", "x", ",", "r", "_", "a", ",", "r", "_", "b", "x", ":=", "a", "*", "b", "c",
  "_", "x", ":=", "g", "^", "x", "*", "h", "^", "r", "_", "x", "c", "_", "a", ":=", "g", "^",
  "a", "*", "h", "^", "r", "_", "a", "c", "_", "b", ":=", "g", "^", "b", "*", "h", "^", "r",
  "_", "b">>

MultiplicationProof == <<
  "proof", ":", "given", ":", "group", ":", "G", "=", "<", "g", ",", "h", ">", "elements",
  "in", "G", ":", "c", "_", "x", ",", "c", "_", "a", ",", "c", "_", "b", "commitment", "to",
  "x", ":", "c", "_", "x", "=", "g", "^", "x", "*", "h", "^", "r", "_", "x", "commitment",
  "to", "a", ":", "c", "_", "a", "=", "g", "^", "a", "*", "h", "^", "r", "_", "a",
  "commitment", "to", "b", ":", "c", "_", "b", "=", "g", "^", "b", "*", "h", "^", "r", "_",
  "b", "prove", "knowledge", "of", ":", "exponents", "in", "G", ":", "x", ",", "a", ",", "b",
  ",", "r", "_", "x", ",", "r", "_", "a", ",", "r", "_", "b", "such", "that", ":", "x", "=",
  "a", "*", "b">>

RangeProgram == <<
  "proof", ":", "given", ":", "group", ":", "G", "=", "<", "g", ",", "h", ">", "integers",
  ":", "W", "prove", "knowledge", "of", ":", "integers", ":", "J", "such", "that", ":",
  "range", "in", "G", ":", "0", "<=", "J", "<", "W">>

SimpleDlrProgram == <<
  "computation", ":", "given", ":", "group", ":", "G", "=", "<", "g", ",", "h", ">",
  "compute", ":", "random", "exponents", "in", "G", ":", "x", "C", ":=", "g", "^", "x", "y",
  ":=", "1", "/", "x", "D", ":=", "g", "^", "y", "proof", ":", "given", ":", "group", ":",
  "G", "=", "<", "g", ",", "h", ">", "elements", "in", "G", ":", "C", ",", "D", "prove",
  "knowledge", "of", ":", "exponents", "in", "G", ":", "x", ",", "y", "such", "that", ":",
  "g", "=", "C", "^", "y">>

ObtainProgram == <<
  "computation", ":", "given", ":", "group", ":", "pkGroup", "=", "<", "f", ",", "g", "[",
  "1", ":", "l", "+", "k", "]", ",", "h", ">", "exponents", "in", "pkGroup", ":", "x", "[",
  "1", ":", "l", "]", "integers", ":", "stat", ",", "modSize", "compute", ":", "random",
  "integer", "in", "[", "0", ",", "2", "^", "(", "modSize", "+", "stat", ")", ")", ":",
  "vprime", "C", ":=", "h", "^", "vprime", "*", "for", "(", "i", ",", "1", ":", "l", ",", "*",
  ",", "g", "_", "i", "^", "x", "_", "i", ")", "proof", ":", "given", ":", "group", ":",
  "pkGroup", "=", "<", "f", ",", "g", "[", "1", ":", "l", "+", "k", "]", ",", "h", ">",
  "group", ":", "comGroup", "=", "<", "fprime", ",", "gprime", ",", "hprime", ",", "h1", ",",
  "h2", ">", "element", "in", "pkGroup", ":", "C", "elements", "in", "comGroup", ":", "c",
  "[", "1", ":", "l", "]", "for", "(", "i", ",", "1", ":", "l", ",", "commitment", "to", "x",
  "_", "i", ":", "c", "_", "i", "=", "gprime", "^", "x", "_", "i", "*", "hprime", "^", "r",
  "_", "i", ")", "integer", ":", "l", "_", "x", "prove", "knowledge", "of", ":", "integers",
  ":", "x", "[", "1", ":", "l", "]", "exponents", "in", "comGroup", ":", "r", "[", "1", ":",
  "l", "]", "exponents", "in", "pkGroup", ":", "vprime", "such", "that", ":", "for", "(", "i",
  ",", "1", ":", "l", ",", "range", "in", "pkGroup", ":", "(", "-", "(", "2", "^", "l", "_",
  "x", "-", "1", ")", ")", "<=", "x", "_", "i", "<", "2", "^", "l", "_", "x", ")", "C", "=",
  "h", "^", "vprime", "*", "for", "(", "i", ",", "1", ":", "l", ",", "*", ",", "g", "_", "i",
  "^", "x", "_", "i", ")", "for", "(", "i", ",", "1", ":", "l", ",", "c", "_", "i", "=",
  "gprime", "^", "x", "_", "i", "*", "hprime", "^", "r", "_", "i", ")">>

IssueProgram == <<
  "computation", ":", "given", ":", "group", ":", "pkGroup", "=", "<", "f", ",", "g", "[",
  "1", ":", "l", "+", "k", "]", ",", "h", ">", "element", "in", "pkGroup", ":", "C",
  "exponents", "in", "pkGroup", ":", "x", "[", "1", ":", "k", "+", "l", "]", "integers", ":",
  "stat", ",", "modSize", ",", "l", "_", "x", "compute", ":", "random", "integer", "in", "[",
  "0", ",", "2", "^", "(", "modSize", "+", "l", "_", "x", "+", "stat", ")", ")", ":",
  "vdoubleprime", "random", "prime", "of", "length", "l", "_", "x", "+", "2", ":", "e",
  "einverse", ":=", "1", "/", "e", "A", ":=", "(", "f", "*", "C", "*", "h", "^",
  "vdoubleprime", "*", "for", "(", "i", ",", "l", "+", "1", ":", "k", "+", "l", ",", "*", ",",
  "g", "_", "i", "^", "x", "_", "i", ")", ")", "^", "einverse", "proof", ":", "given", ":",
  "group", ":", "pkGroup", "=", "<", "f", ",", "g", "[", "1", ":", "l", "+", "k", "]", ",",
  "h", ">", "elements", "in", "pkGroup", ":", "A", ",", "C", "exponents", "in", "pkGroup",
  ":", "e", ",", "vdoubleprime", ",", "x", "[", "l", "+", "1", ":", "k", "]", "prove",
  "knowledge", "of", ":", "exponents", "in", "pkGroup", ":", "einverse", "such", "that", ":",
  "A", "=", "(", "f", "*", "C", "*", "h", "^", "vdoubleprime", "*", "for", "(", "i", ",", "l",
  "+", "1", ":", "k", "+", "l", ",", "*", ",", "g", "_", "i", "^", "x", "_", "i", ")", ")",
  "^", "einverse">>

ProveProgram == <<
  "computation", ":", "given", ":", "group", ":", "pkGroup", "=", "<", "f", ",", "g", "[",
  "1", ":", "l", "+", "k", "]", ",", "h", ">", "elements", "in", "pkGroup", ":", "A",
  "exponents", "in", "pkGroup", ":", "e", ",", "v", ",", "x", "[", "1", ":", "l", "]",
  "integers", ":", "modSize", ",", "stat", "compute", ":", "random", "integers", "in", "[",
  "0", ",", "2", "^", "(", "modSize", "+", "stat", ")", ")", ":", "r", ",", "r", "_", "C",
  "vprime", ":=", "v", "+", "r", "*", "e", "Aprime", ":=", "A", "*", "h", "^", "r", "C", ":=",
  "h", "^", "r", "_", "C", "*", "for", "(", "i", ",", "1", ":", "l", ",", "*", ",", "g", "_",
  "i", "^", "x", "_", "i", ")", "D", ":=", "for", "(", "i", ",", "l", "+", "1", ":", "l", "+",
  "k", ",", "*", ",", "g", "_", "i", "^", "x", "_", "i", ")", "fCD", ":=", "f", "*", "C", "*",
  "D", "proof", ":", "given", ":", "group", ":", "pkGroup", "=", "<", "f", ",", "g", "[", "1",
  ":", "l", "+", "k", "]", ",", "h", ">", "group", ":", "comGroup", "=", "<", "fprime", ",",
  "gprime", ",", "hprime", ",", "h1", ",", "h2", ">", "elements", "in", "pkGroup", ":", "C",
  ",", "D", ",", "Aprime", ",", "fCD", "elements", "in", "comGroup", ":", "c", "[", "1", ":",
  "l", "]", "for", "(", "i", ",", "1", ":", "l", ",", "commitment", "to", "x", "_", "i", ":",
  "c", "_", "i", "=", "gprime", "^", "x", "_", "i", "*", "hprime", "^", "r", "_", "i", ")",
  "exponents", "in", "pkGroup", ":", "x", "[", "l", "+", "1", ":", "l", "+", "k", "]",
  "integer", ":", "l", "_", "x", "prove", "knowledge", "of", ":", "integers", ":", "x", "[",
  "1", ":", "l", "]", "exponents", "in", "comGroup", ":", "r", "[", "1", ":", "l", "]",
  "exponents", "in", "pkGroup", ":", "e", ",", "vprime", ",", "r", "_", "C", "such", "that",
  ":", "for", "(", "i", ",", "1", ":", "l", ",", "range", "in", "pkGroup", ":", "(", "-", "(",
  "2", "^", "l", "_", "x", "-", "1", ")", ")", "<=", "x", "_", "i", "<", "2", "^", "l", "_",
  "x", ")", "C", "=", "h", "^", "r", "_", "C", "*", "for", "(", "i", ",", "1", ":", "l", ",",
  "*", ",", "g", "_", "i", "^", "x", "_", "i", ")", "for", "(", "i", ",", "1", ":", "l", ",",
  "c", "_", "i", "=", "gprime", "^", "x", "_", "i", "*", "hprime", "^", "r", "_", "i", ")",
  "fCD", "=", "(", "Aprime", "^", "e", ")", "*", "h", "^", "(", "r", "_", "C", "-", "vprime",
  ")">>

PresigProgram == <<
  "proof", ":", "given", ":", "group", ":", "cashGroup", "=", "<", "f", ",", "g", ",", "h", ",",
  "h1", ",", "h2", ">", "elements", "in", "cashGroup", ":", "A", ",", "pk", "_", "u",
  "commitment", "to", "sk", "_", "u", ":", "A", "=", "g", "^", "sk", "_", "u", "*", "h", "^", "r",
  "_", "u", "prove", "knowledge", "of", ":", "exponent", "in", "cashGroup", ":", "sk", "_", "u",
  ",", "r", "_", "u", "such", "that", ":", "pk", "_", "u", "=", "g", "^", "sk", "_", "u", "A",
  "=", "g", "^", "sk", "_", "u", "*", "h", "^", "r", "_", "u">>

EcashProgram == <<
  "computation", ":", "given", ":", "group", ":", "cashGroup", "=", "<", "f", ",", "g", ",",
  "h", ",", "h1", ",", "h2", ">", "exponents", "in", "cashGroup", ":", "s", ",", "t", ",",
  "sk", "_", "u", "integer", ":", "J", "compute", ":", "random", "exponents", "in",
  "cashGroup", ":", "r", "_", "B", ",", "r", "_", "C", ",", "r", "_", "D", ",", "x1", ",",
  "x2", ",", "r", "_", "y", ",", "R", "alpha", ":=", "1", "/", "(", "s", "+", "J", ")",
  "beta", ":=", "1", "/", "(", "t", "+", "J", ")", "C", ":=", "g", "^", "s", "*", "h", "^",
  "r", "_", "C", "D", ":=", "g", "^", "t", "*", "h", "^", "r", "_", "D", "y", ":=", "h1", "^",
  "x1", "*", "h2", "^", "x2", "*", "f", "^", "r", "_", "y", "B", ":=", "g", "^", "sk", "_",
  "u", "*", "h", "^", "r", "_", "B", "S", ":=", "g", "^", "(", "alpha", "+", "x1", ")", "T",
  ":=", "g", "^", "(", "sk", "_", "u", "+", "R", "*", "beta", "+", "x2", ")", "proof", ":",
  "given", ":", "group", ":", "cashGroup", "=", "<", "f", ",", "g", ",", "h", ",", "h1", ",",
  "h2", ">", "element", "in", "cashGroup", ":", "y", "elements", "in", "cashGroup", ":", "y",
  ",", "S", ",", "T", ",", "B", ",", "C", ",", "D", "commitment", "to", "sk", "_", "u", ":",
  "B", "=", "g", "^", "sk", "_", "u", "*", "h", "^", "r", "_", "B", "commitment", "to", "s",
  ":", "C", "=", "g", "^", "s", "*", "h", "^", "r", "_", "C", "commitment", "to", "t", ":",
  "D", "=", "g", "^", "t", "*", "h", "^", "r", "_", "D", "prove", "knowledge", "of", ":",
  "exponents", "in", "cashGroup", ":", "x1", ",", "x2", ",", "r", "_", "y", ",", "sk", "_",
  "u", ",", "alpha", ",", "beta", ",", "s", ",", "t", ",", "r", "_", "B", ",", "r", "_", "C",
  ",", "r", "_", "D", ",", "R", "integer", ":", "J", "such", "that", ":", "y", "=", "h1", "^",
  "x1", "*", "h2", "^", "x2", "*", "f", "^", "r", "_", "y", "S", "=", "g", "^", "(", "alpha",
  "+", "x1", ")", "T", "=", "g", "^", "(", "sk", "_", "u", "+", "x2", "+", "R", "*", "beta",
  ")", "g", "=", "(", "g", "^", "J", "*", "C", ")", "^", "alpha", "*", "h", "^", "(", "-",
  "r", "_", "C", "/", "(", "s", "+", "J", ")", ")", "g", "=", "(", "g", "^", "J", "*", "D",
  ")", "^", "beta", "*", "h", "^", "(", "-", "r", "_", "D", "/", "(", "t", "+", "J", ")", ")">>

\* What ProgramMaker writes for one committed message, one public message and
\* commitments to the bases g and h, into the same file each time.
MadeObtainProgram(g, h) ==
  LET groups == <<"group", ":", "G1", "=", "<", g, ",", h, ">", "group", ":", "pkGroup", "=", "<",
                  "f", ",", "g", "_", "1", ",", "g", "_", "2", ",", "h", ">">>
      form == <<"c", "_", "1", "=", g, "^", "x", "_", "1", "*", h, "^", "r", "_", "1">>
      signed == <<"C", "=", "h", "^", "vprime", "*", "for", "(", "i", ",", "1", ":", "l", ",", "*",
                  ",", "g", "_", "i", "^", "x", "_", "i", ")">>
  IN  <<"computation", ":", "given", ":">> \o groups
      \o <<"integers", ":", "x", "[", "1", ":", "l", "]", ",", "stat", ",", "modSize", "compute",
           ":", "random", "integer", "in", "[", "0", ",", "2", "^", "(", "modSize", "+", "stat",
           ")", ")", ":", "vprime">> \o [signed EXCEPT ![2] = ":="]
      \o <<"proof", ":", "given", ":">> \o groups
      \o <<"element", "in", "pkGroup", ":", "C", "element", "in", "G1", ":", "c", "_", "1",
           "commitment", "to", "x", "_", "1", ":">> \o form
      \o <<"integer", ":", "l", "_", "x", "prove", "knowledge", "of", ":", "integers", ":", "x",
           "[", "1", ":", "l", "]", ",", "r", "[", "1", ":", "l", "]", "exponent", "in", "pkGroup",
           ":", "vprime", "such", "that", ":", "for", "(", "i", ",", "1", ":", "l", ",", "range",
           "in", "pkGroup", ":", "(", "-", "(", "2", "^", "l", "_", "x", "-", "1", ")", ")", "<=",
           "x", "_", "i", "<", "2", "^", "l", "_", "x", ")">> \o signed \o form

P199 == PrimeGroup(199, 11, <<18, 61, 62, 63, 103>>)
\* The keys of two denominations: what the bank has published, and its own.
Squares == <<4, 9, 16, 25, 36>>
R4897 == RSAGroup(4897, 0, Squares)
R4897Secret == RSAGroup(4897, 4756, Squares)
R3901 == RSAGroup(3901, 0, Squares)
R3901Secret == RSAGroup(3901, 3772, Squares)
Both == {"prover", "verifier"}

\* multiplication.txt from its own random values, and only its proof block with
\* commitments to 2, 3 and x.
Multiplication ==
  [program |-> MultiplicationComputation \o MultiplicationProof, file |-> "multiplication",
   inputs |-> <<>>, groups |-> "G" :> P199, early |-> Both,
   values |-> <<>>, known |-> <<>>, honest |-> TRUE]
Com(m, r) == (PowerMod(18, m, 199) * PowerMod(61, r, 199)) % 199
ProductIs(x) ==
  LET coms == "c_x" :> Com(x, 4) @@ "c_a" :> Com(2, 5) @@ "c_b" :> Com(3, 6)
  IN  [program |-> MultiplicationProof, file |-> "product",
       inputs |-> <<>>, groups |-> "G" :> P199, early |-> Both,
       values |-> coms @@ "x" :> x @@ "a" :> 2 @@ "b" :> 3 @@ "r_x" :> 4 @@ "r_a" :> 5 @@ "r_b" :> 6,
       known |-> coms, honest |-> x = 6]
\* A prover that lacks one of the values.
Without(x, job) == [job EXCEPT !.values = [y \in DOMAIN @ \ {x} |-> @[y]], !.honest = FALSE]
Dlr == [Multiplication EXCEPT !.program = DlrProgram, !.file = "dlr", !.early = {"prover"}]
SimpleDlr == [Multiplication EXCEPT !.program = SimpleDlrProgram, !.file = "simpleDLR", !.early = {}]
Range(j) ==
  [program |-> RangeProgram, file |-> "range", inputs |-> <<>>, groups |-> "G" :> R4897, early |-> Both,
   values |-> "J" :> j @@ "W" :> 5, known |-> "W" :> 5, honest |-> j \in 0 .. 4]

\* The range the other way round, which no visitor takes.
StrictRange ==
  [Range(3) EXCEPT
     !.program = [i \in DOMAIN @ |-> IF @[i] = "<=" THEN "<" ELSE IF @[i] = "<" THEN "<=" ELSE @[i]],
     !.file = "strict range", !.honest = FALSE]

\* The CL programs for l private messages, committed to beforehand, and public
\* messages.  The issuer alone knows the order of the RSA group.
secret(i) == i + 1
ComTo(i) == (PowerMod(61, secret(i), 199) * PowerMod(62, i + 2, 199)) % 199
Lengths == "modSize" :> 3 @@ "stat" :> 1 @@ "l_x" :> 2
Coms == "c_1" :> ComTo(1) @@ "c_2" :> ComTo(2)
Secrets == "x_1" :> secret(1) @@ "r_1" :> 3 @@ "x_2" :> secret(2) @@ "r_2" :> 4
Obtain(l, pk) ==
  [program |-> ObtainProgram, file |-> "cl-obtain-ecash", inputs |-> "l" :> l @@ "k" :> 1,
   groups |-> "pkGroup" :> pk @@ "comGroup" :> P199, early |-> Both,
   values |-> Lengths @@ Coms @@ Secrets, known |-> Lengths @@ Coms, honest |-> TRUE]
Publics(l, k) == [x \in {"x_" \o ToString(i) : i \in l + 1 .. l + k} |-> 3]
Issue(l, k, sk) ==
  [program |-> IssueProgram, file |-> "cl-issue", inputs |-> "l" :> l @@ "k" :> k,
   groups |-> "pkGroup" :> sk @@ "comGroup" :> P199, early |-> {"prover"},
   values |-> Lengths @@ "C" :> 1234 @@ Publics(l, k), known |-> <<>>, honest |-> TRUE]
MadeObtain(g, h) ==
  [program |-> MadeObtainProgram(g, h), file |-> "cl-obtain-temp", inputs |-> "l" :> 1 @@ "k" :> 1,
   groups |-> "pkGroup" :> [R4897 EXCEPT !.gens = SubSeq(@, 1, 4)]
              @@ "G1" :> [P199 EXCEPT !.gens = SubSeq(@, 1, 2)], early |-> Both,
   values |-> Lengths @@ "x_1" :> secret(1) @@ "r_1" :> 3 @@ "c_1" :> Com(secret(1), 3),
   known |-> Lengths @@ "c_1" :> Com(secret(1), 3), honest |-> TRUE]

\* A signature (A, 13, 7) on the messages x_1 and 3, shown for x_1 and m.
SignatureBy(sk) ==
  LET signed == ProductOfPowers(<<4, 9, 16, 25>>, <<1, secret(1), 3, 7>>, sk.mod)
  IN  PowerMod(signed, InvMod(13, sk.order), sk.mod)
Prove1(m, pk, sk) ==
  [program |-> ProveProgram, file |-> "cl-prove-ecash", inputs |-> "l" :> 1 @@ "k" :> 1,
   groups |-> "pkGroup" :> pk @@ "comGroup" :> P199, early |-> {"prover"},
   values |-> Lengths @@ "c_1" :> ComTo(1) @@ "x_1" :> secret(1) @@ "r_1" :> 3 @@ "x_2" :> m
              @@ "A" :> SignatureBy(sk) @@ "e" :> 13 @@ "v" :> 7,
   known |-> Lengths @@ "c_1" :> ComTo(1), honest |-> m = 3]
\* That a commitment is to the key of the user.
UserKey == "pk_u" :> PowerMod(61, 7, 199)
Presig ==
  [program |-> PresigProgram, file |-> "presig", inputs |-> <<>>, groups |-> "cashGroup" :> P199,
   early |-> Both, values |-> UserKey @@ "A" :> ProductOfPowers(<<61, 62>>, <<7, 4>>, 199) @@ "sk_u" :> 7 @@ "r_u" :> 4,
   known |-> UserKey, honest |-> TRUE]
Ecash ==
  [program |-> EcashProgram, file |-> "ecash", inputs |-> <<>>, groups |-> "cashGroup" :> P199,
   early |-> Both, values |-> "s" :> 3 @@ "t" :> 5 @@ "sk_u" :> 7 @@ "J" :> 2, known |-> <<>>,
   honest |-> TRUE]

FirstJobs ==
  "multiplication" :> Multiplication @@ "product 6" :> ProductIs(6) @@ "product 7" :> ProductIs(7)
  @@ "dlr" :> Dlr @@ "simpleDLR" :> SimpleDlr @@ "J = 3" :> Range(3) @@ "J = 5" :> Range(5)
  @@ "J = 7" :> Range(7) @@ "obtain 1" :> Obtain(1, R4897) @@ "obtain 2" :> Obtain(2, R4897)
  @@ "issue" :> Issue(1, 1, R4897Secret) @@ "prove 3" :> Prove1(3, R4897, R4897Secret)
  @@ "prove 4" :> Prove1(4, R4897, R4897Secret) @@ "ecash" :> Ecash @@ "presig" :> Presig
  @@ "0 < J" :> StrictRange @@ "no b" :> Without("b", ProductIs(6))
  @@ "made" :> MadeObtain("g1", "h1")
OtherDenomination ==
  "obtain at 3901" :> Obtain(1, R3901) @@ "issue at 3901" :> Issue(1, 1, R3901Secret)
  @@ "prove at 3901" :> Prove1(3, R3901, R3901Secret)
\* The same file with another program.
WrittenAnew == "made otherwise" :> MadeObtain("g1", "h2")
MCSessions == {1, 2}
MCJobOf == FirstJobs @@ OtherDenomination @@ WrittenAnew
MCJobs == <<DOMAIN FirstJobs, {"multiplication", "prove 3"} \union DOMAIN OtherDenomination
                               \union DOMAIN WrittenAnew>>

\* Inputs whose decimals, k before l, are 111 both times.
Many == [R4897Secret EXCEPT !.gens = [i \in 1 .. 14 |-> (i + 1) * (i + 1)]]
MCAlike == "k = 11" :> Issue(1, 11, Many) @@ "l = 11" :> Issue(11, 1, Many)
MCAlikeJobs == <<DOMAIN MCAlike, DOMAIN MCAlike>>

\* As std::sort puts them.
MCNameOrder == <<"G", "G1", "cashGroup", "comGroup", "k", "l", "pkGroup">>
=============================================================================
