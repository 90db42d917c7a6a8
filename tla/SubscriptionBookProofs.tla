----------------------- MODULE SubscriptionBookProofs -----------------------
(***************************************************************************)
(* What a decision of the bank comes to: the share classes of              *)
(* PrimaryMarket implement SubscriptionBook, and the query for             *)
(* oversubscription foretells the decision.                                *)
(***************************************************************************)
EXTENDS PrimaryMarketProofs

-----------------------------------------------------------------------------
(* The steps that matter to a class's book.                                *)

BookStutters ==
  /\ UNCHANGED <<terms, available_shares>>
  /\ \A c \in Classes : /\ SameButTokens(agreements'[c], agreements[c])
                        /\ Exists(c)' = Exists(c)

\* Agreements that stand are the same, tokens included.
LEMMA SameAgreements ==
  ASSUME NEW ags \in Seq(Agreement)
  PROVE  SameButTokens(ags, ags)
BY DEF SameButTokens

\* A step leaves terms, shares and agreements of all classes alone, except for
\* their tokens, or it creates a class, accepts an offer or decides the
\* agreements of one class.
LEMMA BookSteps ==
  ASSUME TypeOK, [Next]_vars
  PROVE  \/ BookStutters
         \/ \E c \in Classes, t \in Terms : CreateShareClass(c, t)
         \/ \E c \in Classes, i \in Investors, n \in Quantities : AcceptOffer(c, i, n)
         \/ \E c \in Classes : Confirm(c)
<1> USE DEF BookStutters
<1>6. \A c \in Classes : agreements[c] \in Seq(Agreement)
  BY DEF TypeOK
<1>1. ASSUME UNCHANGED <<agreements, class_state, terms, available_shares>>
      PROVE  BookStutters
  BY <1>6, <1>1, SameAgreements DEF Exists
<1>2. CASE UNCHANGED vars
  BY <1>1, <1>2 DEF vars, classes
<1>3. CASE BankStep
  <2> USE <1>1 DEF classes
  <2>1. CASE CloseProject
    BY <2>1 DEF CloseProject
  <2>2. CASE CollectSubscriptions \/ \E c \in Classes : CollectSubscriptionsOf(c)
    <3>1. \A c \in Classes : Exists(c)' = Exists(c)
      BY <2>2 DEF CollectSubscriptions, CollectSubscriptionsOf, Collect, Exists
    <3>2. UNCHANGED <<agreements, terms, available_shares>>
      BY <2>2 DEF CollectSubscriptions, CollectSubscriptionsOf, Collect
    <3> QED
      BY <1>6, <3>1, <3>2, SameAgreements
  <2>3. CASE \E investors \in SUBSET Investors : SelectInvestors(investors)
    BY <2>3 DEF SelectInvestors
  <2>4. CASE \E i \in Suspects : AddBlackListedInvestor(i)
    BY <2>4 DEF AddBlackListedInvestor
  <2>5. CASE \E c \in Classes : SetSATemplate(c)
    BY <2>5 DEF SetSATemplate
  <2>6. ASSUME NEW c \in Classes, SendOriginalOffers(c) PROVE BookStutters
    <3>1. /\ class_state[c] = "created"
          /\ class_state' = [class_state EXCEPT ![c] = "offersSent"]
          /\ UNCHANGED <<agreements, terms, available_shares>>
      BY <2>6 DEF SendOriginalOffers
    <3>2. \A d \in Classes : Exists(d)' = Exists(d)
      BY <3>1 DEF TypeOK, Exists
    <3> QED
      BY <1>6, <3>1, <3>2, SameAgreements
  <2>7. CASE \E i \in Investors, status \in BOOLEAN : SetCompliant(i, status)
    BY <2>7 DEF SetCompliant
  <2>8. CASE \E i \in Investors, amount \in Liquidities : SetLiquidity(i, amount)
    BY <2>8 DEF SetLiquidity
  <2>9. CASE \E i \in Investors : AddWhitelistedInvestor(i)
    BY <2>9 DEF AddWhitelistedInvestor
  <2>10. CASE \E i \in Investors : RemoveWhitelistedInvestor(i)
    BY <2>10 DEF RemoveWhitelistedInvestor
  <2>11. CASE \E c \in Classes, i \in Investors : Expire(c, i)
    BY <2>11 DEF Expire
  <2>12. ASSUME NEW c \in Classes, NEW k \in DOMAIN agreements[c], CreateToken(c, k)
         PROVE  BookStutters
    <3>1. TypeOK'
      BY <1>3, TypeStep DEF Next
    <3>2. /\ \A d \in Classes : SameButTokens(agreements'[d], agreements[d])
          /\ UNCHANGED <<class_state, terms, available_shares>>
      BY <2>12, <3>1, TokenTouchesNothing
    <3> QED
      BY <3>2 DEF Exists
  <2> QED
    BY <1>3, <2>1, <2>2, <2>3, <2>4, <2>5, <2>6, <2>7, <2>8, <2>9, <2>10, <2>11, <2>12
    DEF BankStep, ConfirmSubscriptions, ConfirmSubscriptionAgreements
<1>4. CASE ClockStep
  BY <1>1, <1>4 DEF ClockStep, DeadlinePasses, ExpireOffer, Expire, classes
<1>5. ASSUME NEW i \in Investors, InvestorStep(i)
      PROVE  \/ BookStutters
             \/ \E c \in Classes, n \in Quantities : AcceptOffer(c, i, n)
  <2> USE <1>1 DEF classes
  <2>1. CASE \E s \in NdaStates : SignNdaAndLegReq(i, s)
    BY <2>1 DEF SignNdaAndLegReq
  <2>2. CASE \E s \in NdaStates : DeclineNdaAndLegReq(i, s)
    BY <2>2 DEF DeclineNdaAndLegReq
  <2>3. CASE SignNDA(i)
    BY <2>3 DEF SignNDA
  <2>4. CASE RevokeSignature(i)
    BY <2>4 DEF RevokeSignature
  <2>5. CASE \E c \in Classes : SignShareholderAgreement(c, i)
    BY <2>5 DEF SignShareholderAgreement
  <2>6. CASE \E c \in Classes : DeclineOffer(c, i)
    BY <2>6 DEF DeclineOffer
  <2> QED
    BY <1>5, <2>1, <2>2, <2>3, <2>4, <2>5, <2>6 DEF InvestorStep
<1> QED
  BY <1>2, <1>3, <1>4, <1>5 DEF Next

-----------------------------------------------------------------------------
(* Oversubscription.                                                       *)

CommittedIn(ags) ==
  [k \in DOMAIN ags |-> IF ags[k].state = "subscribed" THEN ags[k].shares ELSE 0]

\* The committed shares of agreements are a sequence of natural numbers.
LEMMA CommittedAreNumbers ==
  ASSUME NEW ags \in Seq(Agreement)
  PROVE  /\ CommittedIn(ags) \in Seq(Nat)
         /\ Len(CommittedIn(ags)) = Len(ags)
         /\ \A k \in 1 .. Len(ags) :
              CommittedIn(ags)[k] = IF ags[k].state = "subscribed" THEN ags[k].shares ELSE 0
<1> DEFINE n == Len(ags)
           x(k) == IF ags[k].state = "subscribed" THEN ags[k].shares ELSE 0
<1>1. n \in Nat /\ DOMAIN ags = 1 .. n /\ \A k \in 1 .. n : ags[k] \in Agreement
  OBVIOUS
<1>2. \A k \in 1 .. n : x(k) \in Nat
  BY <1>1, NumbersAssumption DEF Agreement, Quantities
<1>3. CommittedIn(ags) = [k \in 1 .. n |-> x(k)]
  BY <1>1 DEF CommittedIn
<1> HIDE DEF n
<1> QED
  BY <1>1, <1>2, <1>3 DEF n

\* One agreement: a commitment is met in full exactly if the shares left cover
\* it, and what is not covered leaves nothing.
LEMMA CommitmentMet ==
  ASSUME NEW a \in Agreement, NEW left \in Int, a.state = "subscribed", a.shares > 0
  PROVE  /\ Decided(a, left).state = "fullyAllocated" <=> a.shares <= left
         /\ a.shares <= left => LeftAfter(a, left) = left - a.shares
<1>1. a.shares \in Nat
  BY NumbersAssumption DEF Agreement, Quantities
<1>2. CASE left <= 0
  <2>1. Decided(a, left).state = "notAllocated"
    BY <1>2, Decision DEF Agreement
  <2> QED
    BY <1>1, <1>2, <2>1
<1>3. CASE left > 0 /\ a.shares <= left
  BY <1>3, Decision DEF LeftAfter
<1>4. CASE left > 0 /\ ~ (a.shares <= left)
  BY <1>4, Decision
<1> QED
  BY <1>2, <1>3, <1>4

\* The whole loop: everybody undecided gets all he committed to exactly if the
\* shares available cover all commitments.
LEMMA LoopMeetsCommitments ==
  ASSUME NEW ags \in Seq(Agreement), NEW b \in Nat,
         \A k \in 1 .. Len(ags) : ags[k].state = "subscribed" => ags[k].shares > 0
  PROVE  (\A k \in 1 .. Len(ags) : ags[k].state = "subscribed"
            => Decisions(ags, b)[k].state = "fullyAllocated")
           <=> Total(CommittedIn(ags)) <= b
<1> DEFINE n == Len(ags)
           left == SharesLeft(ags, b)
           com == CommittedIn(ags)
           sum == SumsOf(com)
           Met(k) == ags[k].state = "subscribed"
                       => Decided(ags[k], left[k - 1]).state = "fullyAllocated"
           S == {m \in Nat : m <= n =>
                   /\ (\A k \in 1 .. m : Met(k)) <=> sum[m] <= b
                   /\ sum[m] <= b => left[m] = b - sum[m]}
<1>1. n \in Nat /\ \A k \in 1 .. n : ags[k] \in Agreement
  OBVIOUS
<1>2. \A k \in 1 .. n : ags[k].state = "subscribed" => ags[k].shares > 0
  OBVIOUS
<1>3. /\ left \in [0 .. n -> Int] /\ left[0] = b
      /\ \A k \in 1 .. n : left[k] = LeftAfter(ags[k], left[k - 1])
      /\ \A k \in 0 .. n : left[k] >= 0
  BY SharesLeftAreNumbers, LoopNeverOverdraws
<1>4. /\ com \in Seq(Nat) /\ Len(com) = n
      /\ \A k \in 1 .. n :
           com[k] = IF ags[k].state = "subscribed" THEN ags[k].shares ELSE 0
  BY CommittedAreNumbers
<1>5. \A k \in 1 .. n : Decisions(ags, b)[k] = Decided(ags[k], left[k - 1])
  BY DEF Decisions
<1> HIDE DEF n, left, com
<1>6. /\ sum \in [0 .. n -> Nat] /\ sum[0] = 0
      /\ \A k \in 1 .. n : sum[k] = sum[k - 1] + com[k]
  BY <1>4, SumsOfNumbers
<1> HIDE DEF sum
<1>7. 0 \in S
  BY <1>3, <1>6
<1>8. ASSUME NEW m \in Nat, m \in S
      PROVE  m + 1 \in S
  <2> SUFFICES ASSUME m + 1 <= n
               PROVE  /\ (\A k \in 1 .. m + 1 : Met(k)) <=> sum[m + 1] <= b
                      /\ sum[m + 1] <= b => left[m + 1] = b - sum[m + 1]
    OBVIOUS
  <2> DEFINE a == ags[m + 1]
             l == left[m]
             x == com[m + 1]
  <2>1. m + 1 \in 1 .. n /\ (m + 1) - 1 = m /\ m \in 0 .. n
    BY <1>1, m + 1 <= n
  <2>2. a \in Agreement /\ l \in Nat /\ x \in Nat /\ sum[m] \in Nat
    BY <1>1, <1>3, <1>4, <1>6, <2>1
  <2>3. sum[m + 1] = sum[m] + x /\ left[m + 1] = LeftAfter(a, l)
    BY <1>3, <1>6, <2>1
  <2>4. x = IF a.state = "subscribed" THEN a.shares ELSE 0
    BY <1>4, <2>1
  <2>5. a.state = "subscribed" => a.shares > 0
    BY <1>2, <2>1
  <2>6. /\ (\A k \in 1 .. m : Met(k)) <=> sum[m] <= b
        /\ sum[m] <= b => l = b - sum[m]
    BY <1>8, <2>1, m + 1 <= n
  <2>7. (\A k \in 1 .. m + 1 : Met(k)) <=> (\A k \in 1 .. m : Met(k)) /\ Met(m + 1)
    <3> HIDE DEF Met
    <3>1. 1 .. m + 1 = (1 .. m) \cup {m + 1}
      OBVIOUS
    <3> QED
      BY <3>1
  <2>8. Met(m + 1) <=> (a.state = "subscribed" => Decided(a, l).state = "fullyAllocated")
    BY <2>1
  <2> HIDE DEF Met, S, a, l, x
  <2>9. CASE a.state # "subscribed"
    <3>1. x = 0 /\ left[m + 1] = l
      BY <2>3, <2>4, <2>9 DEF LeftAfter
    <3> QED
      BY <2>2, <2>3, <2>6, <2>7, <2>8, <2>9, <3>1
  <2>10. CASE a.state = "subscribed"
    <3>1. x = a.shares /\ x > 0
      BY <2>4, <2>5, <2>10
    <3>2. /\ Decided(a, l).state = "fullyAllocated" <=> x <= l
          /\ x <= l => LeftAfter(a, l) = l - x
      BY <2>2, <2>10, <3>1, CommitmentMet
    <3>3. CASE sum[m] <= b
      <4>1. l = b - sum[m] /\ (x <= l <=> sum[m + 1] <= b)
        BY <2>2, <2>3, <2>6, <3>3
      <4> QED
        BY <2>2, <2>3, <2>6, <2>7, <2>8, <2>10, <3>2, <3>3, <4>1
    <3>4. CASE ~ (sum[m] <= b)
      <4>1. ~ (sum[m + 1] <= b)
        BY <2>2, <2>3, <3>4
      <4> QED
        BY <2>6, <2>7, <3>4, <4>1
    <3> QED
      BY <3>3, <3>4
  <2> QED
    BY <2>9, <2>10
<1>9. (\A k \in 1 .. n : Met(k)) <=> sum[n] <= b
  <2>1. Nat \subseteq S
    <3> HIDE DEF S
    <3> QED
      BY <1>7, <1>8, SetInduction
  <2> QED
    BY <1>1, <2>1
<1>10. Total(com) = sum[n]
  BY <1>4 DEF Total, sum
<1> QED
  BY <1>5, <1>9, <1>10 DEF n, com

\* A class with fewer shares than none gives nobody anything.
LEMMA OverdrawnGivesNothing ==
  ASSUME NEW ags \in Seq(Agreement), NEW b \in Int, b < 0, NEW k \in 1 .. Len(ags),
         ags[k].state = "subscribed"
  PROVE  Decisions(ags, b)[k].state = "notAllocated"
<1> DEFINE l == SharesLeft(ags, b)[k - 1]
<1>1. k - 1 \in 0 .. Len(ags) /\ ags[k] \in Agreement
  OBVIOUS
<1>2. l = b
  BY <1>1, LoopNeverOverdraws
<1>3. Decisions(ags, b)[k] = Decided(ags[k], l)
  BY DEF Decisions
<1>4. /\ l \in Int /\ l <= 0
      /\ ags[k].state = "subscribed"
  BY <1>2
<1> HIDE DEF l
<1>5. Decided(ags[k], l) = [ags[k] EXCEPT !.state = "notAllocated"]
  BY <1>1, <1>4 DEF Decided
<1> QED
  BY <1>1, <1>3, <1>5 DEF Agreement

\* An acceptance appends one agreement to those of its class.
LEMMA AcceptanceAppends ==
  ASSUME TypeOK, NEW c \in Classes, NEW i \in Investors, NEW n \in Quantities,
         AcceptOffer(c, i, n)
  PROVE  /\ UNCHANGED <<class_state, terms, available_shares>>
         /\ \E a \in Agreement :
              /\ a.shares = n /\ a.state = "subscribed" /\ n >= MinShares
              /\ agreements'[c] = Append(agreements[c], a)
         /\ \A d \in Classes : d # c => agreements'[d] = agreements[d]
<1> DEFINE a == [investor |-> i, shares |-> n, confirmed |-> 0, state |-> "subscribed",
                 tokens |-> <<>>]
<1>1. /\ UNCHANGED <<class_state, terms, available_shares>>
      /\ agreements' = [agreements EXCEPT ![c] = Append(agreements[c], a)]
      /\ n \in MinShares .. MaxShares
  BY DEF AcceptOffer, classes, Affordable
<1>2. a \in Agreement /\ a.shares = n /\ a.state = "subscribed"
  BY NumbersAssumption DEF Agreement, Quantities
<1>3. agreements \in [Classes -> Seq(Agreement)]
  BY DEF TypeOK
<1>4. n >= MinShares
  BY <1>1, NumbersAssumption
<1> HIDE DEF a
<1>5. /\ agreements'[c] = Append(agreements[c], a)
      /\ \A d \in Classes : d # c => agreements'[d] = agreements[d]
  BY <1>1, <1>3
<1> QED
  BY <1>1, <1>2, <1>4, <1>5

\* A confirmation decides the agreements of its class.
LEMMA ConfirmationDecides ==
  ASSUME TypeOK, NEW c \in Classes, Confirm(c)
  PROVE  /\ Exists(c) /\ UNCHANGED <<class_state, terms>>
         /\ agreements'[c] = Decisions(agreements[c], available_shares[c])
         /\ available_shares'[c]
              = SharesLeft(agreements[c], available_shares[c])[Len(agreements[c])]
         /\ \A d \in Classes : d # c => /\ agreements'[d] = agreements[d]
                                        /\ available_shares'[d] = available_shares[d]
<1> DEFINE new == Decisions(agreements[c], available_shares[c])
           l == SharesLeft(agreements[c], available_shares[c])[Len(agreements[c])]
<1>1. /\ Exists(c) /\ UNCHANGED <<class_state, terms>>
      /\ agreements' = [agreements EXCEPT ![c] = new]
      /\ available_shares' = [available_shares EXCEPT ![c] = l]
  BY DEF Confirm, classes, Decisions
<1>2. agreements \in [Classes -> Seq(Agreement)] /\ available_shares \in [Classes -> Int]
  BY DEF TypeOK
<1> HIDE DEF new, l
<1>3. /\ agreements'[c] = new /\ available_shares'[c] = l
      /\ \A d \in Classes : d # c => /\ agreements'[d] = agreements[d]
                                     /\ available_shares'[d] = available_shares[d]
  BY <1>1, <1>2
<1> QED
  BY <1>1, <1>3 DEF new, l

\* Nobody has committed to less than the offers allow.
CommitmentsSuffice ==
  \A c \in Classes : \A k \in DOMAIN agreements[c] : agreements[c][k].shares >= MinShares

CommitmentsInv == TypeOK /\ CommitmentsSuffice

\* Acceptances meet the limit and nothing else writes the number of shares.
LEMMA CommitmentsStep == CommitmentsInv /\ [Next]_vars => CommitmentsInv'
<1> SUFFICES ASSUME TypeOK, CommitmentsSuffice, [Next]_vars PROVE CommitmentsSuffice'
  BY TypeStep DEF CommitmentsInv
<1>1. agreements \in [Classes -> Seq(Agreement)] /\ agreements' \in [Classes -> Seq(Agreement)]
  BY TypeStep DEF TypeOK
<1>2. CASE UNCHANGED agreements
  BY <1>2 DEF CommitmentsSuffice
<1>3. ASSUME NEW c \in Classes,
             \A d \in Classes : d # c => agreements'[d] = agreements[d],
             \A k \in DOMAIN agreements'[c] : agreements'[c][k].shares >= MinShares
      PROVE  CommitmentsSuffice'
  BY <1>3 DEF CommitmentsSuffice
<1>4. ASSUME NEW c \in Classes, NEW i \in Investors, NEW n \in Quantities, AcceptOffer(c, i, n)
      PROVE  CommitmentsSuffice'
  <2>1. PICK a \in Agreement : /\ a.shares >= MinShares
                               /\ agreements'[c] = Append(agreements[c], a)
    BY <1>4, AcceptanceAppends
  <2>2. ASSUME NEW k \in DOMAIN agreements'[c]
        PROVE  agreements'[c][k].shares >= MinShares
    <3>1. CASE k = Len(agreements[c]) + 1
      BY <1>1, <2>1, <3>1
    <3>2. CASE k # Len(agreements[c]) + 1
      <4>1. k \in DOMAIN agreements[c] /\ agreements'[c][k] = agreements[c][k]
        BY <1>1, <2>1, <3>2
      <4> QED
        BY <4>1 DEF CommitmentsSuffice
    <3> QED
      BY <3>1, <3>2
  <2> QED
    BY <1>3, <1>4, <2>2, AcceptanceAppends
<1>5. ASSUME NEW c \in Classes, Confirm(c)
      PROVE  CommitmentsSuffice'
  <2> DEFINE ags == agreements[c]
             new == Decisions(ags, available_shares[c])
  <2>1. agreements'[c] = new /\ \A d \in Classes : d # c => agreements'[d] = agreements[d]
    BY <1>5, ConfirmationDecides
  <2>2. ags \in Seq(Agreement) /\ available_shares[c] \in Int
    BY <1>1 DEF TypeOK
  <2>3. \A k \in DOMAIN ags : ags[k].shares >= MinShares
    BY DEF CommitmentsSuffice
  <2> HIDE DEF ags, new
  <2>4. /\ new \in Seq(Agreement) /\ Len(new) = Len(ags)
        /\ \A k \in 1 .. Len(ags) : new[k].shares = ags[k].shares
    BY <2>2, DecisionsAreAgreements DEF new
  <2>5. \A k \in DOMAIN new : new[k].shares >= MinShares
    BY <2>2, <2>3, <2>4
  <2> QED
    BY <1>3, <2>1, <2>5
<1>6. ASSUME NEW c \in Classes, NEW t \in Terms, CreateShareClass(c, t)
      PROVE  CommitmentsSuffice'
  BY <1>2, <1>6 DEF CreateShareClass
<1>7. CASE BookStutters
  <2> SUFFICES ASSUME NEW c \in Classes, NEW k \in DOMAIN agreements'[c]
               PROVE  agreements'[c][k].shares >= MinShares
    BY DEF CommitmentsSuffice
  <2>1. k \in DOMAIN agreements[c] /\ agreements'[c][k].shares = agreements[c][k].shares
    BY <1>7 DEF BookStutters, SameButTokens
  <2> QED
    BY <2>1 DEF CommitmentsSuffice
<1> QED
  BY <1>4, <1>5, <1>6, <1>7, BookSteps

\* Only a confirmation of its class decides an agreement.
LEMMA DecidedByConfirmation ==
  ASSUME TypeOK, [Next]_vars, NEW c \in Classes, NEW k \in DOMAIN agreements[c],
         agreements[c][k].state = "subscribed", agreements'[c][k].state # "subscribed"
  PROVE  Confirm(c)
<1>1. agreements'[c] # agreements[c]
  OBVIOUS
<1>2. agreements[c] \in Seq(Agreement)
  BY DEF TypeOK
<1>3. ASSUME NEW d \in Classes, NEW i \in Investors, NEW n \in Quantities, AcceptOffer(d, i, n)
      PROVE  FALSE
  <2>1. d = c
    BY <1>1, <1>3, AcceptanceAppends
  <2>2. PICK a \in Agreement : agreements'[c] = Append(agreements[c], a)
    BY <1>3, <2>1, AcceptanceAppends
  <2>3. agreements'[c][k] = agreements[c][k]
    BY <1>2, <2>2
  <2> QED
    BY <2>3
<1>4. ASSUME NEW d \in Classes, Confirm(d)
      PROVE  d = c
  BY <1>1, <1>4, ConfirmationDecides
<1>5. ASSUME NEW d \in Classes, NEW t \in Terms, CreateShareClass(d, t)
      PROVE  FALSE
  BY <1>1, <1>5 DEF CreateShareClass
<1>6. CASE BookStutters
  BY <1>2, <1>6 DEF BookStutters, SameButTokens
<1> QED
  BY <1>3, <1>4, <1>5, <1>6, BookSteps

\* Whenever a class is decided, however many have committed themselves and
\* whatever was allocated before, somebody gets less than he asked for exactly
\* if checkIfShareClassOversubscribed said so before.
THEOREM OversubscriptionForetold == Spec => OversubscriptionIsForetold
<1>1. Init => CommitmentsInv
  BY TypeInit DEF Init, CommitmentsInv, CommitmentsSuffice
<1> DEFINE Open(c) == {k \in DOMAIN agreements[c] : agreements[c][k].state = "subscribed"}
           Short(c) == {k \in Open(c) : agreements'[c][k].state # "fullyAllocated"}
<1>2. ASSUME CommitmentsInv, [Next]_vars, NEW c \in Classes, MinShares > 0,
             NEW o \in Open(c), agreements'[c][o].state # "subscribed"
      PROVE  Oversubscribed(c) <=> Short(c) # {}
  <2> DEFINE ags == agreements[c]
             b == available_shares[c]
  <2>1. TypeOK /\ ags \in Seq(Agreement) /\ b \in Int
    BY <1>2 DEF CommitmentsInv, TypeOK
  <2>2. Confirm(c)
    BY <1>2, <2>1, DecidedByConfirmation
  <2>3. agreements'[c] = Decisions(ags, b)
    BY <2>1, <2>2, ConfirmationDecides
  <2>4. Oversubscribed(c) <=> Total(CommittedIn(ags)) > b
    BY DEF Oversubscribed, Committed, CommittedIn
  <2>5. \A k \in DOMAIN ags : ags[k].shares >= MinShares
    BY <1>2 DEF CommitmentsInv, CommitmentsSuffice
  <2>6. Short(c) = {k \in DOMAIN ags : /\ ags[k].state = "subscribed"
                                       /\ Decisions(ags, b)[k].state # "fullyAllocated"}
    BY <2>3
  <2>7. o \in DOMAIN ags /\ ags[o].state = "subscribed"
    BY <1>2
  <2> HIDE DEF ags, b, Short
  <2>8. DOMAIN ags = 1 .. Len(ags)
    BY <2>1
  <2>9. Total(CommittedIn(ags)) \in Nat
    BY <2>1, CommittedAreNumbers, TotalAppend
  <2>10. CASE b >= 0
    <3>1. \A k \in 1 .. Len(ags) : ags[k].shares > 0
      <4>1. \A a \in Agreement : a.shares \in Nat
        BY NumbersAssumption DEF Agreement, Quantities
      <4> QED
        BY <1>2, <2>1, <2>5, <2>8, <4>1, NumbersAssumption
    <3>2. (\A k \in 1 .. Len(ags) : ags[k].state = "subscribed"
             => Decisions(ags, b)[k].state = "fullyAllocated")
            <=> Total(CommittedIn(ags)) <= b
      <4>1. b \in Nat
        BY <2>1, <2>10
      <4> QED
        BY <2>1, <3>1, <4>1, LoopMeetsCommitments
    <3>3. Short(c) = {} <=> Total(CommittedIn(ags)) <= b
      BY <2>6, <2>8, <3>2
    <3> QED
      BY <2>1, <2>4, <2>9, <3>3
  <2>11. CASE b < 0
    <3>1. Decisions(ags, b)[o].state = "notAllocated"
      BY <2>1, <2>7, <2>8, <2>11, OverdrawnGivesNothing
    <3>2. o \in Short(c)
      BY <2>6, <2>7, <3>1
    <3>3. Total(CommittedIn(ags)) > b
      BY <2>1, <2>9, <2>11
    <3> QED
      BY <2>4, <3>2, <3>3
  <2> QED
    BY <2>1, <2>10, <2>11
<1>3. ASSUME CommitmentsInv, [Next]_vars
      PROVE  [\A c \in Classes :
                MinShares > 0 /\ (\E k \in Open(c) : agreements'[c][k].state # "subscribed")
                  => (Oversubscribed(c) <=> Short(c) # {})]_vars
  BY <1>2, <1>3
<1>4. CommitmentsInv /\ [Next]_vars
        => [\A c \in Classes :
              LET open == {k \in DOMAIN agreements[c] : agreements[c][k].state = "subscribed"}
                  short == {k \in open : agreements'[c][k].state # "fullyAllocated"}
              IN  MinShares > 0 /\ (\E k \in open : agreements'[c][k].state # "subscribed")
                    => (Oversubscribed(c) <=> short # {})]_vars
  BY <1>3
<1> QED
  BY <1>1, <1>4, CommitmentsStep, PTL DEF Spec, OversubscriptionIsForetold

-----------------------------------------------------------------------------
(* What the requests of a book take.                                       *)

AskedUpTo(s, k) ==
  LET asked[j \in 0 .. k] == IF j = 0 THEN 0 ELSE asked[j - 1] + s[j]
  IN  asked

\* The book adds up the first k requests only: the sum is the same.
LEMMA AskedIsSum ==
  ASSUME NEW s \in Seq(Nat), NEW k \in 0 .. Len(s)
  PROVE  AskedUpTo(s, k)[k] = SumsOf(s)[k]
<1> DEFINE sum == SumsOf(s)
           h == AskedUpTo(s, k)
           f == [j \in 0 .. k |-> sum[j]]
           Obeys(g) == g = [j \in 0 .. k |-> IF j = 0 THEN 0 ELSE g[j - 1] + s[j]]
           S == {m \in Nat : m <= k => h[m] = sum[m]}
<1>1. k \in Nat /\ k <= Len(s) /\ Len(s) \in Nat
  OBVIOUS
<1>2. /\ sum \in [0 .. Len(s) -> Nat] /\ sum[0] = 0
      /\ \A j \in 1 .. Len(s) : sum[j] = sum[j - 1] + s[j]
  BY SumsOfNumbers
<1> HIDE DEF sum
<1>3. Obeys(f)
  <2>1. \A j \in 0 .. k : f[j] = sum[j]
    OBVIOUS
  <2>2. \A j \in 1 .. k : j - 1 \in 0 .. k /\ j \in 1 .. Len(s)
    BY <1>1
  <2>3. f = [j \in 0 .. k |-> f[j]]
    OBVIOUS
  <2> HIDE DEF f
  <2>4. \A j \in 0 .. k : f[j] = IF j = 0 THEN 0 ELSE f[j - 1] + s[j]
    BY <1>1, <1>2, <2>1, <2>2
  <2> QED
    BY <2>3, <2>4
<1>4. Obeys(h)
  BY <1>3 DEF AskedUpTo
<1> HIDE DEF h
<1>5. \A j \in 0 .. k : h[j] = IF j = 0 THEN 0 ELSE h[j - 1] + s[j]
  BY <1>4
<1>6. 0 \in S
  BY <1>1, <1>2, <1>5
<1>7. ASSUME NEW m \in Nat, m \in S
      PROVE  m + 1 \in S
  <2> SUFFICES ASSUME m + 1 <= k PROVE h[m + 1] = sum[m + 1]
    OBVIOUS
  <2>1. m + 1 \in 0 .. k /\ m + 1 \in 1 .. Len(s) /\ (m + 1) - 1 = m /\ m <= k
    BY <1>1, m + 1 <= k
  <2> QED
    BY <1>2, <1>5, <1>7, <2>1
<1>8. Nat \subseteq S
  <2> HIDE DEF S
  <2> QED
    BY <1>6, <1>7, SetInduction
<1> QED
  BY <1>1, <1>8 DEF h, sum

\* What the first k requests of s take of n shares.
TakenOf(n, s, k) == IF SumsOf(s)[k] < n THEN SumsOf(s)[k] ELSE n

RequestsIn(ags) == [k \in DOMAIN ags |-> ags[k].shares]

\* The requested shares of agreements are a sequence of natural numbers.
LEMMA RequestsAreNumbers ==
  ASSUME NEW ags \in Seq(Agreement)
  PROVE  /\ RequestsIn(ags) \in Seq(Nat)
         /\ Len(RequestsIn(ags)) = Len(ags)
         /\ \A k \in 1 .. Len(ags) : RequestsIn(ags)[k] = ags[k].shares
<1> DEFINE n == Len(ags)
<1>1. n \in Nat /\ DOMAIN ags = 1 .. n /\ \A k \in 1 .. n : ags[k] \in Agreement
  OBVIOUS
<1>2. \A k \in 1 .. n : ags[k].shares \in Nat
  BY <1>1, NumbersAssumption DEF Agreement, Quantities
<1>3. RequestsIn(ags) = [k \in 1 .. n |-> ags[k].shares]
  BY <1>1 DEF RequestsIn
<1> HIDE DEF n
<1> QED
  BY <1>1, <1>2, <1>3 DEF n

\* The book of a class computes with the same sums.
LEMMA TakenInBook ==
  ASSUME TypeOK, NEW c \in Classes, NEW k \in 0 .. Len(agreements[c])
  PROVE  Book(c)!TakenBy(k) = TakenOf(OnOffer(c), RequestsIn(agreements[c]), k)
<1> DEFINE s == RequestsIn(agreements[c])
<1>1. Requests(c) = s
  BY DEF Requests, RequestsIn
<1>2. agreements[c] \in Seq(Agreement)
  BY DEF TypeOK
<1>3. s \in Seq(Nat) /\ k \in 0 .. Len(s)
  BY <1>2, RequestsAreNumbers
<1> HIDE DEF s
<1>4. AskedUpTo(s, k)[k] = SumsOf(s)[k]
  BY <1>3, AskedIsSum
<1> QED
  BY <1>1, <1>4 DEF Book!TakenBy, AskedUpTo, TakenOf, s

-----------------------------------------------------------------------------
(* The allocation loop serves requests in their order.                     *)

LesserOf(x, n) == IF x < n THEN x ELSE n

\* What is left of n shares when some of them are taken; of fewer than none,
\* nothing is.
LeftOf(n, taken) == IF n < 0 THEN n ELSE n - taken

\* One agreement: with what the requests before it left, it is granted what
\* its own request takes.
LEMMA RequestServed ==
  ASSUME NEW a \in Agreement, a.state = "subscribed", a.confirmed = 0,
         NEW n \in Int, NEW asked \in Nat,
         NEW left, left = LeftOf(n, LesserOf(asked, n))
  PROVE  /\ Decided(a, left).confirmed = LesserOf(asked + a.shares, n) - LesserOf(asked, n)
         /\ LeftAfter(a, left) = LeftOf(n, LesserOf(asked + a.shares, n))
<1>1. a.shares \in Nat
  BY NumbersAssumption DEF Agreement, Quantities
<1>2. left \in Int /\ (left < 0 <=> n < 0)
  BY DEF LesserOf, LeftOf
<1>3. CASE left <= 0
  <2>1. Decided(a, left) = [a EXCEPT !.state = "notAllocated"] /\ LeftAfter(a, left) = left
    BY <1>2, <1>3, Decision DEF LeftAfter
  <2>2. Decided(a, left).confirmed = 0
    BY <2>1 DEF Agreement
  <2>3. LesserOf(asked, n) = n /\ LesserOf(asked + a.shares, n) = n
    BY <1>1, <1>2, <1>3 DEF LesserOf, LeftOf
  <2> QED
    BY <2>1, <2>2, <2>3
<1>4. CASE left > 0 /\ a.shares <= left
  <2>1. Decided(a, left).confirmed = a.shares /\ LeftAfter(a, left) = left - a.shares
    BY <1>2, <1>4, Decision DEF LeftAfter
  <2>2. /\ n >= 0 /\ LesserOf(asked, n) = asked
        /\ LesserOf(asked + a.shares, n) = asked + a.shares
    BY <1>1, <1>2, <1>4 DEF LesserOf, LeftOf
  <2> QED
    BY <1>1, <2>1, <2>2 DEF LeftOf
<1>5. CASE left > 0 /\ ~ (a.shares <= left)
  <2>1. Decided(a, left).confirmed = left /\ LeftAfter(a, left) = 0
    BY <1>2, <1>5, Decision DEF LeftAfter
  <2>2. n >= 0 /\ LesserOf(asked, n) = asked /\ LesserOf(asked + a.shares, n) = n
    BY <1>1, <1>2, <1>5 DEF LesserOf, LeftOf
  <2> QED
    BY <1>1, <2>1, <2>2 DEF LeftOf
<1> QED
  BY <1>2, <1>3, <1>4, <1>5

\* Exactly the first d agreements are decided, each was granted what its
\* request takes of n shares, and b shares are what they left.
ServedInOrder(ags, n, b, d) ==
  /\ \A k \in 1 .. Len(ags) : ags[k].state # "subscribed" <=> k <= d
  /\ \A k \in 1 .. d :
       ags[k].confirmed = TakenOf(n, RequestsIn(ags), k) - TakenOf(n, RequestsIn(ags), k - 1)
  /\ b = LeftOf(n, TakenOf(n, RequestsIn(ags), d))

\* The loop carries on where the last one ended, and decides all that is open.
LEMMA LoopServesInOrder ==
  ASSUME NEW ags \in Seq(Agreement), NEW n \in Int, NEW b \in Int, NEW d \in 0 .. Len(ags),
         ServedInOrder(ags, n, b, d),
         \A k \in 1 .. Len(ags) : ags[k].state = "subscribed" => ags[k].confirmed = 0
  PROVE  ServedInOrder(Decisions(ags, b), n, SharesLeft(ags, b)[Len(ags)], Len(ags))
<1> DEFINE N == Len(ags)
           left == SharesLeft(ags, b)
           req == RequestsIn(ags)
           sum == SumsOf(req)
           T(k) == LesserOf(sum[k], n)
           new == Decisions(ags, b)
           S == {m \in Nat : m <= N => left[m] = IF m <= d THEN b ELSE LeftOf(n, T(m))}
<1>1. N \in Nat /\ d \in 0 .. N /\ \A k \in 1 .. N : ags[k] \in Agreement
  OBVIOUS
<1>2. /\ left \in [0 .. N -> Int] /\ left[0] = b
      /\ \A k \in 1 .. N : left[k] = LeftAfter(ags[k], left[k - 1])
  BY SharesLeftAreNumbers
<1>3. req \in Seq(Nat) /\ Len(req) = N /\ \A k \in 1 .. N : req[k] = ags[k].shares
  BY RequestsAreNumbers
<1>4. \A k : TakenOf(n, req, k) = T(k)
  BY DEF TakenOf, LesserOf
<1>5. /\ \A k \in 1 .. N : ags[k].state # "subscribed" <=> k <= d
      /\ \A k \in 1 .. d : ags[k].confirmed = T(k) - T(k - 1)
      /\ b = LeftOf(n, T(d))
  BY <1>4 DEF ServedInOrder
<1>6. \A k \in 1 .. N : ags[k].state = "subscribed" => ags[k].confirmed = 0
  OBVIOUS
<1>7. /\ new \in Seq(Agreement) /\ Len(new) = N
      /\ \A k \in 1 .. N : /\ new[k].state # "subscribed"
                           /\ new[k].shares = ags[k].shares
                           /\ new[k] = Decided(ags[k], left[k - 1])
  BY DecisionsAreAgreements DEF Decisions
<1> HIDE DEF N, left, req, new
<1>8. /\ sum \in [0 .. N -> Nat] /\ sum[0] = 0
      /\ \A k \in 1 .. N : sum[k] = sum[k - 1] + req[k]
  BY <1>3, SumsOfNumbers
<1> HIDE DEF sum
<1>9. ASSUME NEW k \in 1 .. N, k > d, left[k - 1] = LeftOf(n, T(k - 1))
      PROVE  new[k].confirmed = T(k) - T(k - 1) /\ left[k] = LeftOf(n, T(k))
  <2> DEFINE a == ags[k]
             l == left[k - 1]
             asked == sum[k - 1]
  <2>1. a \in Agreement /\ a.state = "subscribed" /\ a.confirmed = 0
    BY <1>1, <1>5, <1>6, <1>9
  <2>2. asked \in Nat /\ l = LeftOf(n, LesserOf(asked, n))
    BY <1>1, <1>8, <1>9
  <2>3. sum[k] = asked + a.shares
    BY <1>3, <1>8
  <2>4. new[k] = Decided(a, l) /\ left[k] = LeftAfter(a, l)
    BY <1>2, <1>7
  <2>5. T(k) = LesserOf(asked + a.shares, n) /\ T(k - 1) = LesserOf(asked, n)
    BY <2>3
  <2> HIDE DEF a, l, asked, T
  <2>6. /\ Decided(a, l).confirmed = LesserOf(asked + a.shares, n) - LesserOf(asked, n)
        /\ LeftAfter(a, l) = LeftOf(n, LesserOf(asked + a.shares, n))
    BY <2>1, <2>2, RequestServed
  <2> QED
    BY <2>4, <2>5, <2>6
<1> HIDE DEF T
<1>10. 0 \in S
  BY <1>1, <1>2
<1>11. ASSUME NEW m \in Nat, m \in S
       PROVE  m + 1 \in S
  <2> SUFFICES ASSUME m + 1 <= N
               PROVE  left[m + 1] = IF m + 1 <= d THEN b ELSE LeftOf(n, T(m + 1))
    OBVIOUS
  <2>1. m + 1 \in 1 .. N /\ (m + 1) - 1 = m
    BY <1>1, m + 1 <= N
  <2>2. left[m] = IF m <= d THEN b ELSE LeftOf(n, T(m))
    BY <1>1, <1>11, m + 1 <= N
  <2>3. CASE m + 1 <= d
    <3>1. ags[m + 1].state # "subscribed" /\ left[m] = b
      BY <1>1, <1>5, <2>1, <2>2, <2>3
    <3> QED
      BY <1>2, <2>1, <2>3, <3>1 DEF LeftAfter
  <2>4. CASE m + 1 > d
    <3>1. left[m] = LeftOf(n, T(m))
      <4>1. m <= d => m = d
        BY <1>1, <2>4
      <4> QED
        BY <1>5, <2>2, <4>1
    <3>2. left[m + 1] = LeftOf(n, T(m + 1))
      BY <1>9, <2>1, <2>4, <3>1
    <3> QED
      BY <1>1, <2>4, <3>2
  <2> QED
    BY <1>1, <2>3, <2>4
<1>12. \A m \in 0 .. N : left[m] = IF m <= d THEN b ELSE LeftOf(n, T(m))
  <2>1. Nat \subseteq S
    <3> HIDE DEF S
    <3> QED
      BY <1>10, <1>11, SetInduction
  <2> QED
    BY <1>1, <2>1
<1>13. \A k \in 1 .. N : new[k].confirmed = T(k) - T(k - 1)
  <2> SUFFICES ASSUME NEW k \in 1 .. N
               PROVE  new[k].confirmed = T(k) - T(k - 1)
    OBVIOUS
  <2>1. CASE k <= d
    <3>1. k \in 1 .. d /\ ags[k].state # "subscribed"
      BY <1>1, <1>5, <2>1
    <3>2. new[k] = ags[k]
      BY <1>7, <3>1 DEF Decided
    <3> QED
      BY <1>5, <3>1, <3>2
  <2>2. CASE k > d
    <3>1. left[k - 1] = LeftOf(n, T(k - 1))
      <4>1. k - 1 \in 0 .. N /\ (k - 1 <= d => k - 1 = d)
        BY <1>1, <2>2
      <4> QED
        BY <1>5, <1>12, <4>1
    <3> QED
      BY <1>9, <2>2, <3>1
  <2> QED
    BY <1>1, <2>1, <2>2
<1>14. left[N] = LeftOf(n, T(N))
  <2>1. N \in 0 .. N /\ (N <= d => N = d)
    BY <1>1
  <2> QED
    BY <1>5, <1>12, <2>1
<1>15. RequestsIn(new) = req
  <2>1. /\ RequestsIn(new) \in Seq(Nat) /\ Len(RequestsIn(new)) = N
        /\ \A k \in 1 .. N : RequestsIn(new)[k] = new[k].shares
    BY <1>7, RequestsAreNumbers
  <2> HIDE DEF T, S
  <2>2. \A k \in 1 .. N : RequestsIn(new)[k] = req[k]
    BY <1>3, <1>7, <2>1
  <2> DEFINE r == RequestsIn(new)
  <2> HIDE DEF r
  <2>3. r \in Seq(Nat) /\ Len(r) = N /\ \A k \in 1 .. N : r[k] = req[k]
    BY <2>1, <2>2 DEF r
  <2>4. r = req
    BY <1>3, <2>3
  <2> QED
    BY <2>4 DEF r
<1>16. /\ \A k \in 1 .. Len(new) : new[k].state # "subscribed" <=> k <= N
       /\ \A k \in 1 .. N :
            new[k].confirmed = TakenOf(n, req, k) - TakenOf(n, req, k - 1)
       /\ left[N] = LeftOf(n, TakenOf(n, req, N))
  BY <1>1, <1>4, <1>7, <1>13, <1>14
<1>17. ServedInOrder(new, n, left[N], N)
  BY <1>15, <1>16 DEF ServedInOrder
<1> QED
  BY <1>17 DEF N, left, new

\* The sums of a sequence stay what they are when it grows.
LEMMA SumsOfGrowing ==
  ASSUME NEW s \in Seq(Nat), NEW x \in Nat, NEW k \in 0 .. Len(s)
  PROVE  SumsOf(Append(s, x))[k] = SumsOf(s)[k]
<1> DEFINE n == Len(s)
           t == Append(s, x)
           old == SumsOf(s)
           new == SumsOf(t)
           S == {m \in Nat : m <= n => new[m] = old[m]}
<1>1. n \in Nat /\ t \in Seq(Nat) /\ Len(t) = n + 1 /\ \A j \in 1 .. n : t[j] = s[j]
  OBVIOUS
<1>2. /\ old \in [0 .. n -> Nat] /\ old[0] = 0
      /\ \A j \in 1 .. n : old[j] = old[j - 1] + s[j]
  BY SumsOfNumbers
<1> HIDE DEF n, t, old
<1>3. /\ new[0] = 0
      /\ \A j \in 1 .. n + 1 : new[j] = new[j - 1] + t[j]
  BY <1>1, SumsOfNumbers
<1> HIDE DEF new
<1>4. 0 \in S
  BY <1>2, <1>3
<1>5. ASSUME NEW m \in Nat, m \in S
      PROVE  m + 1 \in S
  <2> SUFFICES ASSUME m + 1 <= n PROVE new[m + 1] = old[m + 1]
    OBVIOUS
  <2>1. m + 1 \in 1 .. n /\ m + 1 \in 1 .. n + 1 /\ (m + 1) - 1 = m
    BY <1>1, m + 1 <= n
  <2>2. new[m] = old[m]
    BY <1>1, <1>5, m + 1 <= n
  <2> QED
    BY <1>1, <1>2, <1>3, <2>1, <2>2
<1>6. Nat \subseteq S
  <2> HIDE DEF S
  <2> QED
    BY <1>4, <1>5, SetInduction
<1>7. k \in Nat /\ k <= n
  BY DEF n
<1> QED
  BY <1>6, <1>7 DEF old, new, t

\* A new request at the end of the queue takes nothing from those before it.
LEMMA QueueGrows ==
  ASSUME NEW ags \in Seq(Agreement), NEW a \in Agreement, a.state = "subscribed",
         NEW n, NEW b, NEW d \in 0 .. Len(ags), ServedInOrder(ags, n, b, d)
  PROVE  /\ RequestsIn(Append(ags, a)) = Append(RequestsIn(ags), a.shares)
         /\ ServedInOrder(Append(ags, a), n, b, d)
<1> DEFINE N == Len(ags)
           more == Append(ags, a)
           req == RequestsIn(ags)
           grown == RequestsIn(more)
<1>1. /\ N \in Nat /\ d \in 0 .. N /\ more \in Seq(Agreement) /\ Len(more) = N + 1
      /\ \A k \in 1 .. N : more[k] = ags[k]
      /\ more[N + 1] = a
  OBVIOUS
<1>2. a.shares \in Nat
  BY NumbersAssumption DEF Agreement, Quantities
<1>3. req \in Seq(Nat) /\ Len(req) = N /\ \A k \in 1 .. N : req[k] = ags[k].shares
  BY RequestsAreNumbers
<1> HIDE DEF N, more, req
<1>4. /\ grown \in Seq(Nat) /\ Len(grown) = N + 1
      /\ \A k \in 1 .. N + 1 : grown[k] = more[k].shares
  BY <1>1, RequestsAreNumbers
<1> HIDE DEF grown
<1>5. grown = Append(req, a.shares)
  <2> DEFINE r == Append(req, a.shares)
  <2>1. /\ r \in Seq(Nat) /\ Len(r) = N + 1
        /\ \A k \in 1 .. N : r[k] = req[k]
        /\ r[N + 1] = a.shares
    BY <1>1, <1>2, <1>3
  <2> HIDE DEF r
  <2>2. \A k \in 1 .. N + 1 : grown[k] = r[k]
    <3>1. ASSUME NEW k \in 1 .. N PROVE grown[k] = r[k]
      <4>1. k \in 1 .. N + 1
        BY <1>1
      <4>2. grown[k] = more[k].shares /\ r[k] = ags[k].shares
        BY <1>3, <1>4, <2>1, <4>1
      <4> QED
        BY <1>1, <4>2
    <3>2. grown[N + 1] = r[N + 1]
      BY <1>1, <1>4, <2>1
    <3>3. 1 .. N + 1 = (1 .. N) \cup {N + 1}
      BY <1>1
    <3> QED
      BY <3>1, <3>2, <3>3
  <2>3. grown = r
    BY <1>4, <2>1, <2>2
  <2> QED
    BY <2>3 DEF r
<1>6. \A k \in 0 .. N : TakenOf(n, grown, k) = TakenOf(n, req, k)
  <2> SUFFICES ASSUME NEW k \in 0 .. N
               PROVE  TakenOf(n, grown, k) = TakenOf(n, req, k)
    OBVIOUS
  <2>1. SumsOf(grown)[k] = SumsOf(req)[k]
    BY <1>2, <1>3, <1>5, SumsOfGrowing
  <2> QED
    BY <2>1 DEF TakenOf
<1>7. /\ \A k \in 1 .. N : ags[k].state # "subscribed" <=> k <= d
      /\ \A k \in 1 .. d : ags[k].confirmed = TakenOf(n, req, k) - TakenOf(n, req, k - 1)
      /\ b = LeftOf(n, TakenOf(n, req, d))
  BY DEF ServedInOrder, N, req
<1>8. \A k \in 1 .. Len(more) : more[k].state # "subscribed" <=> k <= d
  <2> SUFFICES ASSUME NEW k \in 1 .. N + 1
               PROVE  more[k].state # "subscribed" <=> k <= d
    BY <1>1
  <2>1. CASE k \in 1 .. N
    BY <1>1, <1>7, <2>1
  <2>2. CASE k = N + 1
    BY <1>1, <2>2
  <2> QED
    BY <1>1, <2>1, <2>2
<1>9. \A k \in 1 .. d :
        more[k].confirmed = TakenOf(n, grown, k) - TakenOf(n, grown, k - 1)
  <2> SUFFICES ASSUME NEW k \in 1 .. d
               PROVE  more[k].confirmed = TakenOf(n, grown, k) - TakenOf(n, grown, k - 1)
    OBVIOUS
  <2>1. k \in 1 .. N /\ k \in 0 .. N /\ k - 1 \in 0 .. N
    BY <1>1
  <2> QED
    BY <1>1, <1>6, <1>7, <2>1
<1>10. b = LeftOf(n, TakenOf(n, grown, d))
  BY <1>1, <1>6, <1>7
<1>11. ServedInOrder(more, n, b, d)
  BY <1>8, <1>9, <1>10 DEF ServedInOrder, grown
<1> QED
  BY <1>5, <1>11 DEF more, req, grown

-----------------------------------------------------------------------------
(* The invariant: every class has served its requests in order.            *)

ServedSoFar(c) ==
  \E d \in 0 .. Len(agreements[c]) :
    ServedInOrder(agreements[c], OnOffer(c), available_shares[c], d)

ServedInv == SharesInv /\ \A c \in Classes : Exists(c) => ServedSoFar(c)

\* What is on offer in a class that exists is a number.
LEMMA OnOfferIsNumber ==
  ASSUME SharesInv, NEW c \in Classes, Exists(c)
  PROVE  OnOffer(c) \in Int
<1> DEFINE s == ConfirmedIn(agreements[c])
<1>1. available_shares[c] + Total(s) = terms[c].shares
  BY DEF SharesInv, SharesConserved, Confirmed, ConfirmedIn
<1>2. agreements[c] \in Seq(Agreement) /\ available_shares[c] \in Int
  BY DEF SharesInv, TypeOK
<1>3. s \in Seq(Nat)
  BY <1>2, ConfirmedAreNumbers
<1> HIDE DEF s
<1>4. Total(s) \in Nat
  BY <1>3, TotalAppend
<1> QED
  BY <1>1, <1>2, <1>4 DEF OnOffer

\* A class that is not there has neither agreements nor shares on offer.
LEMMA NothingBefore ==
  ASSUME SharesInv, NEW c \in Classes, ~ Exists(c)
  PROVE  agreements[c] = <<>> /\ OnOffer(c) = 0
BY DEF SharesInv, NoAgreementsBeforeOffers, Exists, OnOffer

\* What a class keeps that its book does not read off the other classes.
LEMMA ClassUnchanged ==
  ASSUME NEW c \in Classes, Exists(c)' = Exists(c),
         SameButTokens(agreements'[c], agreements[c]),
         UNCHANGED <<terms[c], available_shares[c]>>
  PROVE  /\ (Exists(c) => ServedSoFar(c)) => (Exists(c) => ServedSoFar(c))'
         /\ UNCHANGED <<OnOffer(c), Requests(c), Granted(c)>>
<1> DEFINE old == agreements[c]
           new == agreements'[c]
           n == Len(old)
<1>1. UNCHANGED OnOffer(c)
  BY DEF OnOffer
<1>2. /\ DOMAIN old = 1 .. n /\ DOMAIN new = 1 .. n /\ Len(new) = n
      /\ \A j \in 1 .. n : /\ new[j].shares = old[j].shares
                          /\ new[j].confirmed = old[j].confirmed /\ new[j].state = old[j].state
  BY DEF SameButTokens
<1>3. Requests(c) = RequestsIn(old) /\ Requests(c)' = RequestsIn(new)
  BY DEF Requests, RequestsIn
<1> DEFINE Chosen(s) == {k \in DOMAIN s : s[k].state # "subscribed"}
<1>4. /\ Granted(c) = [k \in Chosen(old) |-> old[k].confirmed]
      /\ Granted(c)' = [k \in Chosen(new) |-> new[k].confirmed]
  BY DEF Granted
<1> HIDE DEF old, new, n
<1>5. RequestsIn(new) = RequestsIn(old)
  BY <1>2 DEF RequestsIn
<1>6. Chosen(new) = Chosen(old) /\ \A k \in Chosen(old) : new[k].confirmed = old[k].confirmed
  BY <1>2
<1> HIDE DEF Chosen
<1>7. [k \in Chosen(new) |-> new[k].confirmed] = [k \in Chosen(old) |-> old[k].confirmed]
  BY <1>6
<1>8. ASSUME NEW d \in 0 .. n, ServedInOrder(old, OnOffer(c), available_shares[c], d)
      PROVE  ServedInOrder(new, OnOffer(c), available_shares[c], d)
  <2>1. \A k \in 1 .. d : k \in 1 .. n
    BY DEF n
  <2> QED
    BY <1>2, <1>5, <1>8, <2>1 DEF ServedInOrder, n
<1>9. ServedSoFar(c) => ServedSoFar(c)'
  BY <1>1, <1>2, <1>8 DEF ServedSoFar, old, new, n
<1> QED
  BY <1>1, <1>3, <1>4, <1>5, <1>7, <1>9

\* What the steps of the market do to one class.
LEMMA StepOfClass ==
  ASSUME SharesInv, [Next]_vars, NEW c \in Classes
  PROVE  \/ /\ Exists(c)' = Exists(c)
            /\ SameButTokens(agreements'[c], agreements[c])
            /\ UNCHANGED <<terms[c], available_shares[c]>>
         \/ \E t \in Terms :
              /\ ~ Exists(c) /\ Exists(c)'
              /\ UNCHANGED agreements[c]
              /\ terms'[c] = t /\ available_shares'[c] = t.shares
         \/ \E i \in Investors, n \in Quantities : AcceptOffer(c, i, n)
         \/ Confirm(c)
<1>1. TypeOK /\ SameButTokens(agreements[c], agreements[c])
  BY SameAgreements DEF SharesInv, TypeOK
<1>2. CASE BookStutters
  BY <1>2 DEF BookStutters
<1>3. ASSUME NEW d \in Classes, NEW t \in Terms, CreateShareClass(d, t)
      PROVE  \/ /\ Exists(c)' = Exists(c)
                /\ SameButTokens(agreements'[c], agreements[c])
                /\ UNCHANGED <<terms[c], available_shares[c]>>
             \/ /\ ~ Exists(c) /\ Exists(c)'
                /\ UNCHANGED agreements[c]
                /\ terms'[c] = t /\ available_shares'[c] = t.shares
  <2>1. UNCHANGED agreements
    BY <1>3 DEF CreateShareClass
  <2>2. /\ ~ Exists(d)
        /\ class_state' = [class_state EXCEPT ![d] = "created"]
        /\ terms' = [terms EXCEPT ![d] = t]
        /\ available_shares' = [available_shares EXCEPT ![d] = t.shares]
    BY <1>3 DEF CreateShareClass
  <2>3. /\ class_state \in [Classes -> {"none", "created", "offersSent",
                                        "subscriptionsCollected"}]
        /\ terms \in [Classes -> ClassTerms \cup {NoTerms}]
        /\ available_shares \in [Classes -> Int]
    BY <1>1 DEF TypeOK
  <2>4. CASE c = d
    <3>1. class_state'[c] = "created" /\ terms'[c] = t /\ available_shares'[c] = t.shares
      BY <2>2, <2>3, <2>4
    <3> QED
      BY <2>1, <2>2, <2>4, <3>1 DEF Exists
  <2>5. CASE c # d
    BY <1>1, <2>1, <2>2, <2>3, <2>5 DEF Exists
  <2> QED
    BY <2>4, <2>5
<1>4. ASSUME NEW d \in Classes, NEW i \in Investors, NEW n \in Quantities,
             AcceptOffer(d, i, n), d # c
      PROVE  /\ Exists(c)' = Exists(c)
             /\ SameButTokens(agreements'[c], agreements[c])
             /\ UNCHANGED <<terms[c], available_shares[c]>>
  BY <1>1, <1>4, AcceptanceAppends DEF Exists
<1>5. ASSUME NEW d \in Classes, Confirm(d), d # c
      PROVE  /\ Exists(c)' = Exists(c)
             /\ SameButTokens(agreements'[c], agreements[c])
             /\ UNCHANGED <<terms[c], available_shares[c]>>
  BY <1>1, <1>5, ConfirmationDecides DEF Exists
<1> QED
  BY <1>1, <1>2, <1>3, <1>4, <1>5, BookSteps

\* A class starts with everything on offer and nothing to decide.
LEMMA ServedByCreation ==
  ASSUME SharesInv, NEW c \in Classes, NEW t \in Terms,
         ~ Exists(c), Exists(c)', UNCHANGED agreements[c],
         terms'[c] = t, available_shares'[c] = t.shares
  PROVE  ServedSoFar(c)' /\ OnOffer(c)' = t.shares
<1>1. agreements'[c] = <<>>
  BY NothingBefore
<1>2. OnOffer(c)' = t.shares /\ t.shares \in Int
  BY TermsAssumption DEF OnOffer, ClassTerms
<1>3. RequestsIn(<<>>) = <<>> /\ <<>> \in Seq(Nat) /\ Len(<<>>) = 0
  BY DEF RequestsIn
<1>4. SumsOf(<<>>)[0] = 0
  BY <1>3, SumsOfNumbers
<1>5. LeftOf(t.shares, TakenOf(t.shares, RequestsIn(<<>>), 0)) = t.shares
  BY <1>2, <1>3, <1>4 DEF TakenOf, LeftOf
<1>6. ServedInOrder(<<>>, t.shares, t.shares, 0)
  BY <1>2, <1>5 DEF ServedInOrder
<1> QED
  BY <1>1, <1>2, <1>6 DEF ServedSoFar

\* A confirmation has served all requests of its class, in order.
LEMMA ServedByConfirmation ==
  ASSUME ServedInv, NEW c \in Classes, Confirm(c)
  PROVE  /\ Len(agreements'[c]) = Len(agreements[c])
         /\ RequestsIn(agreements'[c]) = RequestsIn(agreements[c])
         /\ ServedInOrder(agreements'[c], OnOffer(c), available_shares'[c],
                          Len(agreements[c]))
         /\ UNCHANGED OnOffer(c)
<1> DEFINE ags == agreements[c]
           b == available_shares[c]
           n == OnOffer(c)
           new == Decisions(ags, b)
<1>1. TypeOK /\ SharesInv /\ ags \in Seq(Agreement) /\ b \in Int
  BY DEF ServedInv, SharesInv, TypeOK
<1>2. /\ Exists(c) /\ UNCHANGED <<class_state, terms>> /\ agreements'[c] = new
      /\ available_shares'[c] = SharesLeft(ags, b)[Len(ags)]
  BY <1>1, ConfirmationDecides
<1>3. PICK d \in 0 .. Len(ags) : ServedInOrder(ags, n, b, d)
  BY <1>2 DEF ServedInv, ServedSoFar
<1>4. \A k \in 1 .. Len(ags) : ags[k].state = "subscribed" => ags[k].confirmed = 0
  BY <1>1 DEF SharesInv, UndecidedUnconfirmed
<1>5. n \in Int
  BY <1>1, <1>2, OnOfferIsNumber
<1> HIDE DEF ags, b, n
<1>6. ServedInOrder(new, n, SharesLeft(ags, b)[Len(ags)], Len(ags))
  BY <1>1, <1>3, <1>4, <1>5, LoopServesInOrder
<1>7. /\ new \in Seq(Agreement) /\ Len(new) = Len(ags)
      /\ \A k \in 1 .. Len(ags) : new[k].shares = ags[k].shares
  BY <1>1, DecisionsAreAgreements
<1> HIDE DEF new
<1>8. RequestsIn(new) = RequestsIn(ags)
  BY <1>1, <1>7 DEF RequestsIn
<1>9. UNCHANGED OnOffer(c)
  BY <1>2 DEF OnOffer, Exists
<1> QED
  BY <1>2, <1>6, <1>7, <1>8, <1>9 DEF ags, b, n

\* An acceptance queues one request up and leaves what was served alone.
LEMMA ServedByAcceptance ==
  ASSUME ServedInv, NEW c \in Classes, NEW i \in Investors, NEW n \in Quantities,
         AcceptOffer(c, i, n)
  PROVE  /\ Exists(c) /\ Exists(c)' /\ ServedSoFar(c)'
         /\ Requests(c)' = Append(Requests(c), n)
         /\ UNCHANGED <<OnOffer(c), Granted(c)>>
<1> DEFINE ags == agreements[c]
<1>1. TypeOK /\ SharesInv /\ ags \in Seq(Agreement)
  BY DEF ServedInv, SharesInv, TypeOK
<1>2. PICK a \in Agreement : /\ a.shares = n /\ a.state = "subscribed"
                             /\ agreements'[c] = Append(ags, a)
  BY <1>1, AcceptanceAppends
<1>3. UNCHANGED <<class_state, terms, available_shares>>
  BY <1>1, AcceptanceAppends
<1>4. Exists(c) /\ Exists(c)'
  <2>1. offers[c][i] = "created"
    BY DEF AcceptOffer, Undecided
  <2>2. class_state[c] # "none"
    BY <1>1, <2>1 DEF SharesInv, NoAgreementsBeforeOffers
  <2> QED
    BY <1>3, <2>2 DEF Exists
<1>5. PICK d \in 0 .. Len(ags) : ServedInOrder(ags, OnOffer(c), available_shares[c], d)
  BY <1>4 DEF ServedInv, ServedSoFar
<1>6. UNCHANGED OnOffer(c)
  BY <1>3 DEF OnOffer, Exists
<1> HIDE DEF ags
<1>7. /\ RequestsIn(Append(ags, a)) = Append(RequestsIn(ags), n)
      /\ ServedInOrder(Append(ags, a), OnOffer(c), available_shares[c], d)
  BY <1>1, <1>2, <1>5, QueueGrows
<1>8. ServedSoFar(c)'
  <2>1. d \in 0 .. Len(Append(ags, a))
    BY <1>1
  <2> QED
    BY <1>2, <1>3, <1>6, <1>7, <2>1 DEF ServedSoFar
<1>9. Requests(c)' = Append(Requests(c), n)
  BY <1>2, <1>7 DEF Requests, RequestsIn, ags
<1>10. UNCHANGED Granted(c)
  <2> DEFINE more == Append(ags, a)
             Chosen(s) == {k \in DOMAIN s : s[k].state # "subscribed"}
  <2>1. /\ DOMAIN ags = 1 .. Len(ags) /\ DOMAIN more = 1 .. (Len(ags) + 1)
        /\ Len(ags) \in Nat
        /\ \A k \in 1 .. Len(ags) : more[k] = ags[k]
        /\ more[Len(ags) + 1].state = "subscribed"
    BY <1>1, <1>2
  <2> HIDE DEF more
  <2>2. 1 .. (Len(ags) + 1) = (1 .. Len(ags)) \cup {Len(ags) + 1}
    BY <2>1
  <2>3. Chosen(more) = Chosen(ags)
    BY <2>1, <2>2
  <2>4. \A k \in Chosen(ags) : more[k] = ags[k]
    BY <2>1
  <2> HIDE DEF Chosen
  <2>5. [k \in Chosen(more) |-> more[k].confirmed] = [k \in Chosen(ags) |-> ags[k].confirmed]
    BY <2>3, <2>4
  <2>6. /\ Granted(c) = [k \in Chosen(ags) |-> ags[k].confirmed]
        /\ Granted(c)' = [k \in Chosen(more) |-> more[k].confirmed]
    BY <1>2 DEF Granted, Chosen, more, ags
  <2> QED
    BY <2>5, <2>6
<1> QED
  BY <1>4, <1>6, <1>8, <1>9, <1>10

\* Requests stay served in order, whatever happens to the market.
LEMMA ServedStep == ServedInv /\ [Next]_vars => ServedInv'
<1> SUFFICES ASSUME ServedInv, [Next]_vars, NEW c \in Classes
             PROVE  (Exists(c) => ServedSoFar(c))'
  BY SharesStep DEF ServedInv
<1>1. SharesInv /\ (Exists(c) => ServedSoFar(c))
  BY DEF ServedInv
<1>2. ASSUME Exists(c)' = Exists(c), SameButTokens(agreements'[c], agreements[c]),
             UNCHANGED <<terms[c], available_shares[c]>>
      PROVE  (Exists(c) => ServedSoFar(c))'
  BY <1>1, <1>2, ClassUnchanged
<1>3. ASSUME NEW t \in Terms, ~ Exists(c), Exists(c)', UNCHANGED agreements[c],
             terms'[c] = t, available_shares'[c] = t.shares
      PROVE  ServedSoFar(c)'
  BY <1>1, <1>3, ServedByCreation
<1>4. ASSUME NEW i \in Investors, NEW n \in Quantities, AcceptOffer(c, i, n)
      PROVE  ServedSoFar(c)'
  BY <1>4, ServedByAcceptance
<1>5. ASSUME Confirm(c)
      PROVE  ServedSoFar(c)'
  <2>1. Len(agreements[c]) \in 0 .. Len(agreements'[c])
    <3>1. agreements[c] \in Seq(Agreement)
      BY <1>1 DEF SharesInv, TypeOK
    <3>2. Len(agreements[c]) \in Nat
      BY <3>1
    <3> QED
      BY <1>5, <3>2, ServedByConfirmation
  <2> QED
    BY <1>5, <2>1, ServedByConfirmation DEF ServedSoFar
<1> QED
  BY <1>1, <1>2, <1>3, <1>4, <1>5, StepOfClass

-----------------------------------------------------------------------------
(* The refinement.                                                         *)

\* Nothing is offered, requested or granted before the first class is created.
LEMMA BookInit == Init => \A c \in Classes : Book(c)!Init
BY DEF Init, Book!Init, OnOffer, Exists, Requests, Granted

\* A confirmation decides the book: each request receives what the requests
\* before it left.
LEMMA ConfirmationIsDecision ==
  ASSUME ServedInv, [Next]_vars, NEW c \in Classes, Confirm(c)
  PROVE  Book(c)!Decide
<1> DEFINE old == agreements[c]
           new == agreements'[c]
           n == OnOffer(c)
           req == RequestsIn(old)
<1>1. TypeOK /\ TypeOK' /\ old \in Seq(Agreement) /\ new \in Seq(Agreement)
  <2>1. TypeOK
    BY DEF ServedInv, SharesInv
  <2>2. TypeOK'
    BY <2>1, TypeStep
  <2> QED
    BY <2>1, <2>2 DEF TypeOK
<1>2. /\ Len(new) = Len(old) /\ RequestsIn(new) = req
      /\ ServedInOrder(new, n, available_shares'[c], Len(old))
      /\ UNCHANGED OnOffer(c)
  BY ServedByConfirmation
<1>3. Requests(c) = req /\ Requests(c)' = req
  BY <1>2 DEF Requests, RequestsIn
<1>4. Len(req) = Len(old)
  BY <1>1, RequestsAreNumbers
<1>5. \A k \in 1 .. Len(old) :
        new[k].confirmed = Book(c)!TakenBy(k) - Book(c)!TakenBy(k - 1)
  <2> SUFFICES ASSUME NEW k \in 1 .. Len(old)
               PROVE  new[k].confirmed = Book(c)!TakenBy(k) - Book(c)!TakenBy(k - 1)
    OBVIOUS
  <2>1. k \in 0 .. Len(old) /\ k - 1 \in 0 .. Len(old)
    BY <1>1
  <2>2. /\ Book(c)!TakenBy(k) = TakenOf(n, req, k)
        /\ Book(c)!TakenBy(k - 1) = TakenOf(n, req, k - 1)
    BY <1>1, <2>1, TakenInBook
  <2> HIDE DEF n, req
  <2> QED
    BY <1>2, <2>2 DEF ServedInOrder
<1>6. Granted(c)' = [k \in 1 .. Len(old) |-> new[k].confirmed]
  <2>1. DOMAIN new = 1 .. Len(old)
    BY <1>1, <1>2
  <2>2. \A k \in 1 .. Len(old) : new[k].state # "subscribed"
    BY <1>2 DEF ServedInOrder
  <2>3. {k \in DOMAIN new : new[k].state # "subscribed"} = 1 .. Len(old)
    BY <2>1, <2>2
  <2> QED
    BY <2>3 DEF Granted
<1>7. Granted(c)' = [k \in 1 .. Len(old) |-> Book(c)!TakenBy(k) - Book(c)!TakenBy(k - 1)]
  BY <1>5, <1>6
<1> QED
  BY <1>2, <1>3, <1>4, <1>7 DEF Book!Decide

\* Every step of the market is a step of each class's book or leaves it alone.
LEMMA BookStep ==
  ASSUME ServedInv, [Next]_vars, NEW c \in Classes
  PROVE  [Book(c)!Next]_<<OnOffer(c), Requests(c), Granted(c)>>
<1>1. SharesInv
  BY DEF ServedInv
<1>2. ASSUME Exists(c)' = Exists(c), SameButTokens(agreements'[c], agreements[c]),
             UNCHANGED <<terms[c], available_shares[c]>>
      PROVE  UNCHANGED <<OnOffer(c), Requests(c), Granted(c)>>
  BY <1>2, ClassUnchanged
<1>3. ASSUME NEW t \in Terms, ~ Exists(c), Exists(c)', UNCHANGED agreements[c],
             terms'[c] = t, available_shares'[c] = t.shares
      PROVE  Book(c)!Next
  <2>1. agreements[c] = <<>> /\ OnOffer(c) = 0 /\ OnOffer(c)' = t.shares
    BY <1>1, <1>3, NothingBefore, ServedByCreation
  <2>2. Requests(c) = <<>>
    BY <2>1 DEF Requests
  <2>3. UNCHANGED <<Requests(c), Granted(c)>>
    BY <1>3 DEF Requests, Granted
  <2>4. Book(c)!Open(t.shares)
    BY <2>1, <2>2, <2>3 DEF Book!Open
  <2> QED
    BY <2>4 DEF Book!Next
<1>4. ASSUME NEW i \in Investors, NEW n \in Quantities, AcceptOffer(c, i, n)
      PROVE  Book(c)!Next
  <2>1. Book(c)!Request(n)
    BY <1>4, ServedByAcceptance DEF Book!Request
  <2> QED
    BY <2>1 DEF Book!Next
<1>5. ASSUME Confirm(c)
      PROVE  Book(c)!Next
  BY <1>5, ConfirmationIsDecision DEF Book!Next
<1> QED
  BY <1>1, <1>2, <1>3, <1>4, <1>5, StepOfClass

\* First come, first served, for any number of investors and classes: whatever
\* order offers are accepted in and however often the bank confirms, a request
\* is granted what the earlier ones left, and no decision is revised.
THEOREM MarketImplementsBook == Spec => ImplementsBook
<1>1. Init => ServedInv
  BY SharesInit DEF Init, ServedInv, Exists
<1>2. ServedInv /\ [Next]_vars
        => [\A c \in Classes :
              [Book(c)!Next]_<<OnOffer(c), Requests(c), Granted(c)>>]_vars
  BY BookStep
<1> QED
  BY <1>1, <1>2, BookInit, ServedStep, PTL DEF Spec, ImplementsBook

=============================================================================
