----------------------------- MODULE Withdrawal -----------------------------
(***************************************************************************)
(* Withdrawals of wallets: one UserWithdrawTool and one BankWithdrawTool   *)
(* for each session, and the blind signature between them (CLBlindIssuer,  *)
(* CLBlindRecipient).  All sessions are one user's.  Messages carry no     *)
(* address, so that each may reach any tool that waits for its kind, late, *)
(* twice, or never.                                                        *)
(*                                                                         *)
(* Random numbers are terms: the n-th draw of session s makes s' and t the *)
(* numbers <<s, n>>, the k-th request vprime <<s, k>>; a bank tool's r' is *)
(* its session.  A commitment is what it commits to, and a proof is valid  *)
(* when what it says is true.                                              *)
(***************************************************************************)
EXTENDS Integers, Sequences

CONSTANTS Sessions,
          Size, Denom,      \* [Sessions -> walletSize], [Sessions -> coinDenom]
          NULL,             \* a null pointer, an object not yet assigned
          Once,             \* TRUE: a user's tool makes one request, and then
                            \* waits for its answer
          MaxDraws,         \* bound: calls of createPartialCommitment in a session
          MaxRequests       \* bound: requests of a session

ASSUME WithdrawalAssumption ==
  Once \in BOOLEAN /\ {MaxDraws, MaxRequests} \subseteq Nat

VARIABLES user, bank,       \* the tools
          network,          \* every message sent
          partial,          \* what verify last returned to the user's caller
          wallets           \* the wallets of each session

vars == <<user, bank, network, partial, wallets>>

\* The constructor of BankWithdrawTool looks at NUM_WALLET_SIZES = 7 of the nine
\* entries of allowedWalletSizes.
ValidSize(size) == size \in {1, 5, 10, 25, 50, 100, 250}

\* partialCommitment: the draw its numbers are from, and the contributions
\* multiplied into its entry 4, the commitment to s.
NewUser == [draw |-> 0, added |-> <<>>, s |-> NULL, recipient |-> NULL,
            requests |-> 0, verified |-> FALSE]

NewBank == [contribution |-> NULL]

Init == /\ user = [s \in Sessions |-> NewUser]
        /\ bank = [s \in {t \in Sessions : ValidSize(Size[t])} |-> NewBank]
        /\ network = {}
        /\ partial = [s \in Sessions |-> NULL]
        /\ wallets = [s \in Sessions |-> {}]

Send(m) == network' = network \cup {m}
Arrived(type) == {m.body : m \in {n \in network : n.type = type}}

-----------------------------------------------------------------------------
(* The user.                                                               *)

\* createPartialCommitment: all new numbers.
Committing(s) ==
  /\ user[s].draw < MaxDraws
  /\ Once => user[s].requests = 0
  /\ user' = [user EXCEPT ![s] = [user[s] EXCEPT !.draw = user[s].draw + 1,
                                                 !.added = <<>>]]
  /\ Send([type |-> "commitment", body |-> <<s, user[s].draw + 1>>])
  /\ UNCHANGED <<bank, partial, wallets>>

\* Mutant: the commitment to s stays the one to s'.
AddedNone(added, contribution) == added

\* The commitment is multiplied by g^contribution.
Added(added, contribution) == Append(added, contribution)

\* The commitment to s' with these contributions opens to s.
OpensTo(com, s) == com = [draw |-> s.draw, added |-> <<s.part>>]

\* What getC commits to and proves, for the recipient of a session.
Request(s, x) ==
  [denom |-> Denom[s], com |-> x.recipient.com,
   C |-> [s |-> x.s, t |-> <<s, x.draw>>, vprime |-> x.recipient.vprime]]

\* initiateSignature(contribution), and getCLProof: s is assigned, the commitment
\* to s updated, and a new recipient made, that draws vprime.
Requesting(s) == \E contribution \in Arrived("contribution") :
  /\ user[s].draw > 0
  /\ user[s].requests < MaxRequests
  /\ Once => user[s].requests = 0
  /\ LET added == Added(user[s].added, contribution)
         x == [user[s] EXCEPT
                 !.added = added, !.requests = user[s].requests + 1,
                 !.s = [draw |-> <<s, user[s].draw>>, part |-> contribution],
                 !.recipient = [com |-> [draw |-> <<s, user[s].draw>>, added |-> added],
                                vprime |-> <<s, user[s].requests + 1>>]]
     IN /\ user' = [user EXCEPT ![s] = x]
        /\ Send([type |-> "request", body |-> Request(s, x)])
  /\ UNCHANGED <<bank, partial, wallets>>

\* Mutant: the issuer's proof is looked at in the group of its own key.
ProofVerifiesInAnyGroup(s, answer) == TRUE

\* CLBlindRecipient::verifySig: the proof is verified in the group of the
\* recipient's key.  C and the wallet size are those of the message.
ProofVerifies(s, answer) == answer.denom = Denom[s]

\* verify, when it does not throw: it returns the partial signature.
Verifying(s) == \E answer \in Arrived("answer") :
  /\ user[s].requests > 0
  /\ ProofVerifies(s, answer)
  /\ user' = [user EXCEPT ![s].verified = TRUE]
  /\ partial' = [partial EXCEPT ![s] = answer]
  /\ UNCHANGED <<bank, network, wallets>>

\* getWallet with what verify returned: createSig adds vprime to the partial
\* signature.
GettingWallet(s) ==
  /\ user[s].verified
  /\ wallets' = [wallets EXCEPT ![s] = wallets[s] \cup
       {[s |-> user[s].s, t |-> <<s, user[s].draw>>,
         walletSize |-> Size[s], coinDenom |-> Denom[s],
         signature |-> [by |-> partial[s], vprime |-> user[s].recipient.vprime]]}]
  /\ UNCHANGED <<user, bank, network, partial>>

-----------------------------------------------------------------------------
(* The bank.                                                               *)

\* computeFullCommitment and getBankContribution.  The contribution is drawn
\* once; the full commitment is stored and never looked at.
Contributing(s) ==
  /\ s \in DOMAIN bank
  /\ Arrived("commitment") # {}
  /\ bank' = [bank EXCEPT ![s].contribution = s]
  /\ Send([type |-> "contribution", body |-> s])
  /\ UNCHANGED <<user, partial, wallets>>

\* Mutant: the recipient's proof is looked at in the group of its own key.
RequestVerifiesInAnyGroup(s, request) == OpensTo(request.com, request.C.s)

\* The issuer accepts a proof that C and the commitments, all of the message,
\* hide the same numbers, in the group of the key of its own denomination.
RequestVerifies(s, request) ==
  request.denom = Denom[s] /\ OpensTo(request.com, request.C.s)

\* sign, when it does not throw (the identity is the user's in every session).
Signing(s) == \E request \in Arrived("request") :
  /\ s \in DOMAIN bank
  /\ RequestVerifies(s, request)
  /\ Send([type |-> "answer", body |-> [C |-> request.C, walletSize |-> Size[s],
                                        denom |-> Denom[s], tool |-> s]])
  /\ UNCHANGED <<user, bank, partial, wallets>>

Next == \E s \in Sessions : \/ Committing(s) \/ Requesting(s)
                            \/ Verifying(s) \/ GettingWallet(s)
                            \/ Contributing(s) \/ Signing(s)

Spec == Init /\ [][Next]_vars

\* The callers go on with a withdrawal, and messages arrive in the end.
LiveSpec == /\ Spec
            /\ \A s \in Sessions : /\ WF_vars(Requesting(s))
                                   /\ WF_vars(Verifying(s))
                                   /\ WF_vars(GettingWallet(s))
                                   /\ WF_vars(Contributing(s))
                                   /\ WF_vars(Signing(s))
-----------------------------------------------------------------------------
\* The signature of a wallet is the bank's, on the wallet's own numbers and size
\* and under the key of its denomination: coins made from it verify.
IsGood(w) ==
  LET over == w.signature.by
  IN /\ over.C = [s |-> w.s, t |-> w.t, vprime |-> w.signature.vprime]
     /\ over.walletSize = w.walletSize /\ over.denom = w.coinDenom

\* Every wallet that getWallet returns is good, although the user's tool checks
\* the bank's proof only against the numbers that come with it.
WalletsAreGood == \A s \in Sessions : \A w \in wallets[s] : IsGood(w)

\* A bank tool accepts what a user's tool asks of it: commitments, s and C still
\* agree when they have been updated one by one.
RequestsAreAccepted ==
  \A s \in Sessions : \A request \in Arrived("request") :
     request.denom = Denom[s] => RequestVerifies(s, request)

\* One tool of the bank signs one wallet, however often it is asked.
OneWalletPerTool ==
  \A a, b \in Arrived("answer") :
     a.tool = b.tool => a.C.s = b.C.s /\ a.C.t = b.C.t

\* A withdrawal of a size that the bank offers ends with a good wallet, once the
\* user has committed to its numbers, also if others of the user's withdrawals are
\* of other denominations: Test.cpp:1363-1364 says of these that a second one
\* "doesn't work".
WithdrawalEnds ==
  \A s \in Sessions :
     (ValidSize(Size[s]) /\ user[s].draw > 0) ~> \E w \in wallets[s] : IsGood(w)

\* What the comment says: not both of two withdrawals of different denominations
\* end with a good wallet.  It is not so.
OtherDenominationFails ==
  \A s, t \in Sessions :
     (\E v \in wallets[s], w \in wallets[t] : IsGood(v) /\ IsGood(w)) => Denom[s] = Denom[t]
=============================================================================
