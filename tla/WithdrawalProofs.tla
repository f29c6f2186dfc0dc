-------------------------- MODULE WithdrawalProofs --------------------------
(***************************************************************************)
(* Proofs about Withdrawal.tla, for any sessions and any network: a user   *)
(* whose tools make one request each, and whose sessions are of different  *)
(* denominations, gets wallets that are good.                              *)
(***************************************************************************)
EXTENDS Withdrawal, TLAPS

\* Sessions that overlap are told apart by the keys of their denominations.
DistinctDenoms == \A s, t \in Sessions : Denom[s] = Denom[t] => s = t

\* The fields of a user's tool, and that the tools keep them.
IsUser(x) == /\ DOMAIN x = {"draw", "added", "s", "recipient", "requests", "verified"}
             /\ x.requests \in {0, 1}

Shape == /\ user = [s \in Sessions |-> user[s]]
         /\ partial = [s \in Sessions |-> partial[s]]
         /\ wallets = [s \in Sessions |-> wallets[s]]
         /\ \A s \in Sessions : IsUser(user[s])

\* Nothing is multiplied into a commitment before the request.
FreshCommitment(x) == x.requests = 0 => x.added = <<>>

\* The request on the network is what the fields of its session still say, and
\* its commitment opens to the s that was assigned with it.
Requested(request, t) == /\ user[t].requests = 1
                         /\ request = Request(t, user[t])
                         /\ OpensTo(request.com, request.C.s)
RequestsAreOurs == \A request \in Arrived("request") :
                      \E t \in Sessions : Requested(request, t)

\* A tool of the bank has signed, with its size and denomination, the numbers of
\* the one session that has its denomination.
Answered(answer) == /\ answer.tool \in Sessions
                    /\ answer.walletSize = Size[answer.tool]
                    /\ answer.denom = Denom[answer.tool]
                    /\ user[answer.tool].requests = 1
                    /\ answer.C = Request(answer.tool, user[answer.tool]).C
AnswersAreOurs == \A answer \in Arrived("answer") : Answered(answer)

\* What verify returned is an answer in the group of the session's key.
PartialsVerified == \A s \in Sessions :
  user[s].verified => partial[s] \in Arrived("answer") /\ partial[s].denom = Denom[s]

IInv == /\ Shape
        /\ \A s \in Sessions : FreshCommitment(user[s])
        /\ RequestsAreOurs /\ AnswersAreOurs /\ PartialsVerified /\ WalletsAreGood

\* Sending a message adds its body to those of its type.
LEMMA SendAdds ==
  ASSUME NEW type, NEW b, Send([type |-> type, body |-> b])
  PROVE  /\ Arrived(type)' = Arrived(type) \cup {b}
         /\ \A other : other # type => Arrived(other)' = Arrived(other)
<1>. DEFINE m == [type |-> type, body |-> b]
<1>1. network' = network \cup {m} /\ m.type = type /\ m.body = b
  BY DEF Send
<1>. HIDE DEF m
<1>2. \A other, v : v \in Arrived(other) <=> \E n \in network : n.type = other /\ n.body = v
  BY DEF Arrived
<1>3. \A other, v : v \in Arrived(other)' <=> \E n \in network' : n.type = other /\ n.body = v
  BY DEF Arrived
<1>4. \A v : v \in Arrived(type)' <=> v \in Arrived(type) \cup {b}
  BY <1>1, <1>2, <1>3
<1>5. ASSUME NEW other, other # type
      PROVE  Arrived(other)' = Arrived(other)
  <2>1. \A v : v \in Arrived(other)' <=> v \in Arrived(other)
    BY <1>1, <1>2, <1>3, <1>5
  <2>. QED
    BY <2>1, Zenon
<1>6. Arrived(type)' = Arrived(type) \cup {b}
  BY <1>4, Zenon
<1>. QED
  BY <1>5, <1>6

\* Without a message everything that has arrived stays the same.
LEMMA NothingSent ==
  ASSUME UNCHANGED network
  PROVE  \A type : Arrived(type)' = Arrived(type)
BY DEF Arrived

\* A step that changes no request of a session, and nothing of what was sent,
\* keeps what is said of them.
LEMMA RequestsStay ==
  ASSUME \A t \in Sessions : user[t].requests = 1 =>
            user'[t].requests = 1 /\ Request(t, user'[t]) = Request(t, user[t])
  PROVE  /\ \A request : \A t \in Sessions : Requested(request, t) => Requested(request, t)'
         /\ \A answer : Answered(answer) => Answered(answer)'
<1>1. \A request, t : Requested(request, t)' <=>
          /\ user'[t].requests = 1
          /\ request = Request(t, user'[t]) /\ OpensTo(request.com, request.C.s)
  BY DEF Requested, Request, OpensTo
<1>2. \A answer : Answered(answer)' <=>
          /\ answer.tool \in Sessions
          /\ answer.walletSize = Size[answer.tool]
          /\ answer.denom = Denom[answer.tool]
          /\ user'[answer.tool].requests = 1
          /\ answer.C = Request(answer.tool, user'[answer.tool]).C
  BY DEF Answered, Request
<1>. QED
  BY <1>1, <1>2 DEF Requested, Answered

\* New tools satisfy the invariant.
LEMMA InitIInv == Init => IInv
<1>. SUFFICES ASSUME Init PROVE IInv
  OBVIOUS
<1>1. Shape
  BY DEF Init, Shape, IsUser, NewUser
<1>2. \A s \in Sessions : FreshCommitment(user[s])
  BY DEF Init, FreshCommitment, NewUser
<1>3. RequestsAreOurs /\ AnswersAreOurs
  BY DEF Init, RequestsAreOurs, AnswersAreOurs, Arrived
<1>4. PartialsVerified /\ WalletsAreGood
  BY DEF Init, PartialsVerified, WalletsAreGood, NewUser
<1>. QED
  BY <1>1, <1>2, <1>3, <1>4 DEF IInv

\* createPartialCommitment draws new numbers, and no request was made from the
\* old ones.
LEMMA CommittingIInv ==
  ASSUME IInv, Once, NEW s \in Sessions, Committing(s)
  PROVE  IInv'
<1>. DEFINE x == [user[s] EXCEPT !.draw = user[s].draw + 1, !.added = <<>>]
<1>1. /\ user[s].requests = 0
      /\ user' = [user EXCEPT ![s] = x]
      /\ Send([type |-> "commitment", body |-> <<s, user[s].draw + 1>>])
      /\ UNCHANGED <<bank, partial, wallets>>
  BY DEF Committing
<1>2. IsUser(x) /\ x.requests = 0 /\ x.added = <<>> /\ x.verified = user[s].verified
  BY <1>1 DEF IInv, Shape, IsUser
<1>3. Arrived("request")' = Arrived("request") /\ Arrived("answer")' = Arrived("answer")
  BY <1>1, SendAdds
<1>. HIDE DEF x
<1>4. user'[s] = x /\ \A t \in Sessions \ {s} : user'[t] = user[t]
  BY <1>1 DEF IInv, Shape
<1>5. Shape' /\ \A t \in Sessions : FreshCommitment(user'[t])
  BY <1>1, <1>2, <1>4 DEF IInv, Shape, FreshCommitment
<1>6. \A t \in Sessions : user[t].requests = 1 => user'[t] = user[t]
  BY <1>1, <1>4
<1>7. RequestsAreOurs' /\ AnswersAreOurs'
  BY <1>3, <1>6, RequestsStay DEF IInv, RequestsAreOurs, AnswersAreOurs
<1>8. PartialsVerified'
  BY <1>1, <1>2, <1>3, <1>4 DEF IInv, PartialsVerified
<1>9. WalletsAreGood'
  BY <1>1 DEF IInv, WalletsAreGood
<1>. QED
  BY <1>5, <1>7, <1>8, <1>9 DEF IInv

\* initiateSignature assigns s and updates the commitment to it together.
LEMMA RequestingIInv ==
  ASSUME IInv, Once, NEW s \in Sessions, Requesting(s)
  PROVE  IInv'
<1>1. PICK c \in Arrived("contribution") :
        LET added == Added(user[s].added, c)
            x == [user[s] EXCEPT
                    !.added = added, !.requests = user[s].requests + 1,
                    !.s = [draw |-> <<s, user[s].draw>>, part |-> c],
                    !.recipient = [com |-> [draw |-> <<s, user[s].draw>>, added |-> added],
                                   vprime |-> <<s, user[s].requests + 1>>]]
        IN /\ user' = [user EXCEPT ![s] = x]
           /\ Send([type |-> "request", body |-> Request(s, x)])
  BY DEF Requesting
<1>2. user[s].requests = 0 /\ user[s].added = <<>>
  BY DEF Requesting, IInv, FreshCommitment
<1>. DEFINE number == [draw |-> <<s, user[s].draw>>, part |-> c]
            com == [draw |-> <<s, user[s].draw>>, added |-> <<c>>]
            x == [user[s] EXCEPT !.added = <<c>>, !.requests = 1, !.s = number,
                                 !.recipient = [com |-> com, vprime |-> <<s, 1>>]]
<1>3. /\ user' = [user EXCEPT ![s] = x]
      /\ Send([type |-> "request", body |-> Request(s, x)])
      /\ UNCHANGED <<bank, partial, wallets>>
  <2>1. Added(user[s].added, c) = <<c>> /\ user[s].requests + 1 = 1
    BY <1>2 DEF Added
  <2>. QED
    BY <1>1, <2>1 DEF Requesting
<1>4. IsUser(x) /\ x.requests = 1 /\ x.verified = user[s].verified
  BY DEF IInv, Shape, IsUser
<1>5. x.recipient.com = com /\ x.s = number
  BY DEF IInv, Shape, IsUser
<1>6. OpensTo(Request(s, x).com, Request(s, x).C.s)
  BY <1>5 DEF OpensTo, Request
<1>7. /\ Arrived("request")' = Arrived("request") \cup {Request(s, x)}
      /\ Arrived("answer")' = Arrived("answer")
  BY <1>3, SendAdds
<1>. HIDE DEF x
<1>8. user'[s] = x /\ \A t \in Sessions \ {s} : user'[t] = user[t]
  BY <1>3 DEF IInv, Shape
<1>9. Shape' /\ \A t \in Sessions : FreshCommitment(user'[t])
  BY <1>3, <1>4, <1>8 DEF IInv, Shape, FreshCommitment
<1>10. \A t \in Sessions : user[t].requests = 1 => user'[t] = user[t]
  BY <1>2, <1>8
<1>11. RequestsAreOurs'
  <2>. SUFFICES ASSUME NEW request \in Arrived("request")'
                PROVE  \E t \in Sessions : Requested(request, t)'
    BY DEF RequestsAreOurs
  <2>1. CASE request = Request(s, x)
    <3>1. Requested(request, s)'
      BY <1>4, <1>6, <1>8, <2>1 DEF Requested, Request, OpensTo
    <3>. QED
      BY <3>1
  <2>2. CASE request \in Arrived("request")
    <3>1. PICK t \in Sessions : Requested(request, t)
      BY <2>2 DEF IInv, RequestsAreOurs
    <3>. QED
      BY <1>10, <3>1, RequestsStay
  <2>. QED
    BY <1>7, <2>1, <2>2
<1>12. AnswersAreOurs'
  BY <1>7, <1>10, RequestsStay DEF IInv, AnswersAreOurs
<1>14. PartialsVerified'
  BY <1>3, <1>4, <1>7, <1>8 DEF IInv, PartialsVerified
<1>15. WalletsAreGood'
  BY <1>3 DEF IInv, WalletsAreGood
<1>. QED
  BY <1>9, <1>11, <1>12, <1>14, <1>15 DEF IInv

\* verify returns what it has checked.
LEMMA VerifyingIInv ==
  ASSUME IInv, NEW s \in Sessions, Verifying(s)
  PROVE  IInv'
<1>1. PICK answer \in Arrived("answer") :
        /\ ProofVerifies(s, answer)
        /\ user' = [user EXCEPT ![s].verified = TRUE]
        /\ partial' = [partial EXCEPT ![s] = answer]
        /\ UNCHANGED <<bank, network, wallets>>
  BY DEF Verifying
<1>. DEFINE x == [user[s] EXCEPT !.verified = TRUE]
<1>2. user' = [user EXCEPT ![s] = x]
  BY <1>1
<1>3. IsUser(x) /\ x.requests = user[s].requests /\ x.added = user[s].added
  BY DEF IInv, Shape, IsUser
<1>4. x.draw = user[s].draw /\ x.s = user[s].s /\ x.recipient = user[s].recipient
  BY DEF IInv, Shape, IsUser
<1>. HIDE DEF x
<1>5. user'[s] = x /\ \A t \in Sessions \ {s} : user'[t] = user[t]
  BY <1>2 DEF IInv, Shape
<1>6. \A t \in Sessions : /\ user'[t].requests = user[t].requests
                          /\ Request(t, user'[t]) = Request(t, user[t])
  BY <1>3, <1>4, <1>5 DEF Request
<1>7. Arrived("request")' = Arrived("request") /\ Arrived("answer")' = Arrived("answer")
  BY <1>1, NothingSent
<1>8. Shape' /\ \A t \in Sessions : FreshCommitment(user'[t])
  BY <1>1, <1>2, <1>3, <1>5 DEF IInv, Shape, FreshCommitment
<1>9. RequestsAreOurs' /\ AnswersAreOurs'
  BY <1>6, <1>7, RequestsStay DEF IInv, RequestsAreOurs, AnswersAreOurs
<1>11. PartialsVerified'
  BY <1>1, <1>5, <1>7 DEF IInv, Shape, PartialsVerified, ProofVerifies
<1>12. WalletsAreGood'
  BY <1>1 DEF IInv, WalletsAreGood
<1>. QED
  BY <1>8, <1>9, <1>11, <1>12 DEF IInv

\* What the network has is kept by a step that leaves requests and messages alone.
LEMMA SignaturesStay ==
  ASSUME IInv, UNCHANGED <<user, partial, wallets>>,
         Arrived("request")' = Arrived("request")
  PROVE  /\ Shape' /\ (\A t \in Sessions : FreshCommitment(user'[t]))
         /\ RequestsAreOurs' /\ WalletsAreGood'
         /\ \A answer : Answered(answer) => Answered(answer)'
<1>1. Shape' /\ \A t \in Sessions : FreshCommitment(user'[t])
  BY DEF IInv, Shape, FreshCommitment
<1>2. WalletsAreGood'
  BY DEF IInv, WalletsAreGood
<1>3. RequestsAreOurs'
  BY RequestsStay DEF IInv, RequestsAreOurs
<1>. QED
  BY <1>1, <1>2, <1>3, RequestsStay

\* getWallet adds vprime to what the bank signed, and both belong to the request.
LEMMA GettingWalletIInv ==
  ASSUME IInv, DistinctDenoms, NEW s \in Sessions, GettingWallet(s)
  PROVE  IInv'
<1>. DEFINE w == [s |-> user[s].s, t |-> <<s, user[s].draw>>,
                  walletSize |-> Size[s], coinDenom |-> Denom[s],
                  signature |-> [by |-> partial[s], vprime |-> user[s].recipient.vprime]]
<1>1. /\ user[s].verified
      /\ wallets' = [wallets EXCEPT ![s] = wallets[s] \cup {w}]
      /\ UNCHANGED <<user, bank, network, partial>>
  BY DEF GettingWallet
<1>2. IsGood(w)
  <2>1. Answered(partial[s]) /\ partial[s].denom = Denom[s]
    BY <1>1 DEF IInv, PartialsVerified, AnswersAreOurs
  <2>2. partial[s].tool = s
    BY <2>1 DEF Answered, DistinctDenoms
  <2>3. partial[s].C = Request(s, user[s]).C /\ partial[s].walletSize = Size[s]
    BY <2>1, <2>2 DEF Answered
  <2>. QED
    BY <2>1, <2>3 DEF IsGood, Request
<1>. HIDE DEF w
<1>3. Shape' /\ \A t \in Sessions : FreshCommitment(user'[t])
  BY <1>1 DEF IInv, Shape, FreshCommitment
<1>4. Arrived("request")' = Arrived("request") /\ Arrived("answer")' = Arrived("answer")
  BY <1>1, NothingSent
<1>5. RequestsAreOurs' /\ AnswersAreOurs'
  BY <1>1, <1>4, RequestsStay DEF IInv, RequestsAreOurs, AnswersAreOurs
<1>6. PartialsVerified'
  BY <1>1, <1>4 DEF IInv, PartialsVerified
<1>7. WalletsAreGood'
  <2>. SUFFICES ASSUME NEW t \in Sessions, NEW v \in wallets'[t] PROVE IsGood(v)
    BY DEF WalletsAreGood, IsGood
  <2>1. v \in wallets[t] \/ v = w
    BY <1>1 DEF IInv, Shape
  <2>. QED
    BY <1>2, <2>1 DEF IInv, WalletsAreGood
<1>. QED
  BY <1>3, <1>5, <1>6, <1>7 DEF IInv

\* The bank's contribution is a message that the invariant does not look at.
LEMMA ContributingIInv ==
  ASSUME IInv, NEW s \in Sessions, Contributing(s)
  PROVE  IInv'
<1>1. UNCHANGED <<user, partial, wallets>>
  BY DEF Contributing
<1>2. Arrived("request")' = Arrived("request") /\ Arrived("answer")' = Arrived("answer")
  <2>1. Send([type |-> "contribution", body |-> s])
    BY DEF Contributing
  <2>. QED
    BY <2>1, SendAdds
<1>3. /\ Shape' /\ (\A t \in Sessions : FreshCommitment(user'[t]))
      /\ RequestsAreOurs' /\ WalletsAreGood'
      /\ \A answer : Answered(answer) => Answered(answer)'
  BY <1>1, <1>2, SignaturesStay
<1>4. AnswersAreOurs' /\ PartialsVerified'
  BY <1>1, <1>2, <1>3 DEF IInv, AnswersAreOurs, PartialsVerified
<1>. QED
  BY <1>3, <1>4 DEF IInv

\* sign verifies the request in the group of its own denomination, so that it
\* is the request of its own session.
LEMMA SigningIInv ==
  ASSUME IInv, DistinctDenoms, NEW s \in Sessions, Signing(s)
  PROVE  IInv'
<1>1. PICK request \in Arrived("request") :
        /\ RequestVerifies(s, request)
        /\ Send([type |-> "answer", body |-> [C |-> request.C, walletSize |-> Size[s],
                                              denom |-> Denom[s], tool |-> s]])
        /\ UNCHANGED <<user, bank, partial, wallets>>
  BY DEF Signing
<1>. DEFINE answer == [C |-> request.C, walletSize |-> Size[s],
                       denom |-> Denom[s], tool |-> s]
<1>2. PICK t \in Sessions : Requested(request, t)
  BY DEF IInv, RequestsAreOurs
<1>3. t = s
  <2>1. request.denom = Denom[t]
    BY <1>2 DEF Requested, Request
  <2>. QED
    BY <1>1, <2>1 DEF RequestVerifies, DistinctDenoms
<1>4. Answered(answer)
  BY <1>2, <1>3 DEF Answered, Requested
<1>5. /\ Arrived("request")' = Arrived("request")
      /\ Arrived("answer")' = Arrived("answer") \cup {answer}
  BY <1>1, SendAdds
<1>. HIDE DEF answer
<1>6. /\ Shape' /\ (\A u \in Sessions : FreshCommitment(user'[u]))
      /\ RequestsAreOurs' /\ WalletsAreGood'
      /\ \A a : Answered(a) => Answered(a)'
  BY <1>1, <1>5, SignaturesStay
<1>7. AnswersAreOurs' /\ PartialsVerified'
  BY <1>1, <1>4, <1>5, <1>6 DEF IInv, AnswersAreOurs, PartialsVerified
<1>. QED
  BY <1>6, <1>7 DEF IInv

\* Every step keeps the invariant.
LEMMA NextIInv == Once /\ DistinctDenoms /\ IInv /\ [Next]_vars => IInv'
<1>1. ASSUME Once, DistinctDenoms, IInv, [Next]_vars PROVE IInv'
  <2>1. CASE UNCHANGED vars
    <3>1. UNCHANGED <<user, partial, wallets, network>>
      BY <2>1 DEF vars
    <3>2. Arrived("request")' = Arrived("request") /\ Arrived("answer")' = Arrived("answer")
      BY <3>1, NothingSent
    <3>3. /\ Shape' /\ (\A t \in Sessions : FreshCommitment(user'[t]))
          /\ RequestsAreOurs' /\ WalletsAreGood'
          /\ \A answer : Answered(answer) => Answered(answer)'
      BY <1>1, <3>1, <3>2, SignaturesStay
    <3>4. AnswersAreOurs' /\ PartialsVerified'
      BY <1>1, <3>1, <3>2, <3>3 DEF IInv, AnswersAreOurs, PartialsVerified
    <3>. QED
      BY <3>3, <3>4 DEF IInv
  <2>2. ASSUME NEW s \in Sessions,
               \/ Committing(s) \/ Requesting(s) \/ Verifying(s)
               \/ GettingWallet(s) \/ Contributing(s) \/ Signing(s)
        PROVE  IInv'
    BY <1>1, <2>2, CommittingIInv, RequestingIInv, VerifyingIInv,
       GettingWalletIInv, ContributingIInv, SigningIInv
  <2>. QED
    BY <1>1, <2>1, <2>2 DEF Next
<1>. QED
  BY <1>1

\* The invariant holds throughout.
LEMMA SpecIInv == Once /\ DistinctDenoms /\ Spec => []IInv
<1>1. CASE Once /\ DistinctDenoms
  <2>1. IInv /\ [Next]_vars => IInv'
    BY <1>1, NextIInv
  <2>. QED
    BY InitIInv, <2>1, PTL DEF Spec
<1>2. CASE ~(Once /\ DistinctDenoms)
  BY <1>2, PTL
<1>. QED
  BY <1>1, <1>2

\* UserWithdrawTool::getWallet: what verify checks, that the bank knows what its
\* own message is about in the group of this denomination, is enough.
THEOREM WalletsGood == Once /\ DistinctDenoms /\ Spec => []WalletsAreGood
<1>1. IInv => WalletsAreGood
  BY DEF IInv
<1>. QED
  BY <1>1, SpecIInv, PTL

\* createSignatureRecipient multiplies the bank's contribution into the old
\* commitment and adds it to s': the two agree, so that the bank's tool accepts.
THEOREM RequestsAccepted == Once /\ DistinctDenoms /\ Spec => []RequestsAreAccepted
<1>1. IInv => RequestsAreAccepted
  BY DEF IInv, RequestsAreOurs, Requested, RequestsAreAccepted, RequestVerifies
<1>. QED
  BY <1>1, SpecIInv, PTL

\* BankWithdrawTool::sign keeps nothing of what it has signed, and still signs
\* for one wallet only.
THEOREM OneWallet == Once /\ DistinctDenoms /\ Spec => []OneWalletPerTool
<1>1. IInv => OneWalletPerTool
  BY DEF IInv, AnswersAreOurs, Answered, OneWalletPerTool
<1>. QED
  BY <1>1, SpecIInv, PTL
=============================================================================
