---------------------------- MODULE MCArithmetic ----------------------------
(* Groups of a few elements.  g and h are in one group, f1 to f4 in another, *)
(* and f1, f2 have the values of g and h.                                    *)
EXTENDS Arithmetic, TLC

MCValue == "g" :> 4 @@ "h" :> 9 @@ "f1" :> 4 @@ "f2" :> 9 @@ "f3" :> 16 @@ "f4" :> 25
MCModulus == "g" :> 23 @@ "h" :> 23 @@ "f1" :> 77 @@ "f2" :> 77 @@ "f3" :> 77 @@ "f4" :> 77
MCBaseLists ==
  {<<"g">>, <<"f3">>, <<"g", "h">>, <<"f1", "f2">>, <<"f1", "f2", "f3">>,
   <<"f4", "f3", "f2", "f1">>}

\* Rows of 2 bits for one base, and of 3, 2 and 1 bits for two, three and four.
MCWIDTH == [blen \in 2 .. 4 |-> 5 - blen]
MCExponents ==
  << {<<e>> : e \in -3 .. 31},
     {-2, 0, 1, 7, 8, 12, 31} \X {-1, 0, 1, 6, 16, 31},
     {0, 1, 6, 31} \X {-1, 0, 3, 16} \X {0, 5, 31},
     {0, 31} \X {1, 16} \X {0, 9} \X {-1, 6, 31} >>
\* Counters of four words with four values each, and blocks of two bytes.
MCIvs == {<<0, 3, 3, 3>>, <<3, 3, 3, 0>>}
MCSymmetry == Permutations(Threads)
MCNumbers == -2 .. 400 \cup {526, 706, 730, 1414, 1906, 2986, 9634}
=============================================================================
