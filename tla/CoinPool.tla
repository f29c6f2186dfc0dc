------------------------------ MODULE CoinPool ------------------------------
(***************************************************************************)
(* What a wallet promises its owner, with no word on how it keeps it: the  *)
(* coins of one withdrawal are handed out one at a time, no coin is handed *)
(* out while it is already out, and a coin that is out may be put back.    *)
(* Wallet.tla implements this specification.                               *)
(***************************************************************************)
EXTENDS Integers

CONSTANTS Coins,            \* the indices of the coins of one withdrawal
          Requests            \* the indices a caller may try to put back

VARIABLES outstanding,      \* the coins handed out and not put back
          answer            \* what the last operation returned

poolVars == <<outstanding, answer>>

PoolInit == outstanding = {} /\ answer = [op |-> "none"]

HandOut == \E c \in Coins \ outstanding :
              /\ outstanding' = outstanding \cup {c}
              /\ answer' = [op |-> "next", coin |-> c]

\* Only a pool with nothing left may refuse.
Refuse == /\ outstanding = Coins
          /\ answer' = [op |-> "empty"]
          /\ UNCHANGED outstanding

PutBack == \E c \in Requests \cap outstanding :
              /\ outstanding' = outstanding \ {c}
              /\ answer' = [op |-> "replace", coin |-> c, done |-> TRUE]

\* Only something that is not out may be refused when put back.
RefusePutBack == \E c \in Requests \ outstanding :
                    /\ answer' = [op |-> "replace", coin |-> c, done |-> FALSE]
                    /\ UNCHANGED outstanding

PoolNext == HandOut \/ Refuse \/ PutBack \/ RefusePutBack

PoolSpec == PoolInit /\ [][PoolNext]_poolVars
=============================================================================
