------------------------------ MODULE MCWallet ------------------------------
(* Wallet.tla for TLC: the instance is in MCWallet.cfg. *)
EXTENDS Wallet
=============================================================================
