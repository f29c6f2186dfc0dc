---------------------------- MODULE MCWithdrawal ----------------------------
(* Withdrawal.tla for TLC: sessions that overlap, as in                      *)
(* testWithdrawInterleaved, and one of a size that the bank refuses.         *)
EXTENDS Withdrawal

CONSTANTS s1, s2, s3

Sizes == [s \in {s1, s2, s3} |-> IF s = s3 THEN 500 ELSE 100]
Denoms == [s \in {s1, s2, s3} |-> CASE s = s1 -> 1 [] s = s2 -> 2 [] s = s3 -> 5]
=============================================================================
