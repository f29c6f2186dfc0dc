---------------------------- MODULE FairExchange ----------------------------
(***************************************************************************)
(* What a fair exchange promises, with no word on messages, contracts or   *)
(* arbiters: a seller is paid for a file only when its buyer has the file  *)
(* or the means to get it, and what was delivered or paid stays so.        *)
(***************************************************************************)
CONSTANT Sessions

VARIABLES delivered,        \* sessions whose buyer has, or can get, the file
          paid              \* sessions whose seller has an endorsed coin

fairVars == <<delivered, paid>>

FairInit == delivered = {} /\ paid = {}

Deliver(s) == delivered' = delivered \cup {s} /\ UNCHANGED paid

Settle(s) == /\ s \in delivered
             /\ paid' = paid \cup {s}
             /\ UNCHANGED delivered

FairNext == \E s \in Sessions : Deliver(s) \/ Settle(s)

FairSpec == FairInit /\ [][FairNext]_fairVars
=============================================================================
