----------------------------- MODULE MCSpending -----------------------------
(* Spending.tla for TLC: the instances are in the .cfg files. *)
EXTENDS Spending
=============================================================================
