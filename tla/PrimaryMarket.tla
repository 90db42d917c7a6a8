--------------------------- MODULE PrimaryMarket ---------------------------
(***************************************************************************)
(* The primary market of one real-estate project on the platform: the      *)
(* protocols Project, ShareClass, SubscriptionOffer, SubscriptionAgreement,*)
(* NDA and ShareholderAgreement of npl/src/main/npl/platform.              *)
(*                                                                         *)
(* Conventions.                                                            *)
(*  - A permission runs as one transaction with every permission it calls; *)
(*    a guard that fails anywhere in the chain undoes it all.              *)
(*  - The actions are the permissions a party calls: those of the project  *)
(*    and those it may call on a share class, an offer or an agreement     *)
(*    itself.  What only keeps the books of another permission             *)
(*    (reduceAvailableAmountForSubscription, addSubscriptionAgreement,     *)
(*    confirmSubscriptionAgreement, becomeFullyAllocated ...) occurs as a  *)
(*    step inside it and is not called alone.                              *)
(*  - Shares are counted in units, Part of which make one share: a Number  *)
(*    is a decimal.  Nothing checks the sign of a value or of the shares   *)
(*    of a class.                                                          *)
(*  - A class sends its offers once, so an offer is the pair of its class  *)
(*    and its investor.  The agreements of a class are kept in the order   *)
(*    in which they were committed; committedSubscriptions are those still *)
(*    subscribed.  An agreement holds the numbers of shares of the tokens  *)
(*    created for it, in whichever class createToken files them.           *)
(***************************************************************************)
EXTENDS Integers, Sequences, FiniteSetsExt

CONSTANTS
  Investors,
  Suspects,         \* the investors that the bank may blacklist
  Classes,          \* the share classes that can be created
  NameOf,           \* class -> its name
  pBank, pPlatform, \* the parties that play the two roles
  ProjectValue,     \* in CHF
  Terms,            \* what share classes are created with
  NoTerms,          \* the terms of a class that does not exist
  Part,             \* units in a share
  MinShares, MaxShares,  \* limits of an offer's specification, in units
  Liquidities,      \* the amounts wallets are funded with
  MaxPapers,        \* bound: NDAs, and shareholder agreements, of an investor
  MaxTokens         \* bound: the tokens of an agreement after a call of createToken

Quantities == 0 .. MaxShares

\* The value is divided by the total: a total of 0 fails.
ClassTerms == [value : Int, total : Int \ {0}, shares : Int]

ASSUME NumbersAssumption ==
  /\ ProjectValue \in Int /\ Part \in Nat \ {0}
  /\ MinShares \in Nat /\ MaxShares \in Nat
  /\ MaxPapers \in Nat /\ MaxTokens \in Nat
  /\ Liquidities \subseteq Int

ASSUME SuspectsAssumption == Suspects \subseteq Investors

ASSUME TermsAssumption == Terms \subseteq ClassTerms /\ NoTerms \notin ClassTerms

VARIABLES
  project_state, available_amount,
  compliant, selected, blacklisted, whitelisted,
  liquidity,        \* of the wallet returnWalletPerProject finds
  ndas,             \* investor -> how many NDAs are in each state
  shareholder_agreements,  \* investor -> how many are in each state
  class_state, terms, templates, available_shares,
  namesakes,        \* the classes created under a name that was taken
  overdue,          \* the classes whose offer deadline has passed
  offers,           \* class -> investor -> state of the offer
  agreements        \* class -> subscription agreements in order

project == <<project_state, available_amount>>
people == <<compliant, selected, blacklisted, liquidity>>
papers == <<ndas, shareholder_agreements>>
classes == <<class_state, terms, templates, available_shares, namesakes>>
vars == <<project, people, whitelisted, papers, classes, overdue, offers, agreements>>

NdaStates == {"created", "signed", "declined"}
PaperStates == {"signed", "revoked"}
Agreement ==
  [investor : Investors, shares : Quantities, confirmed : Quantities,
   state : {"subscribed", "fullyAllocated", "partiallyAllocated", "notAllocated"},
   tokens : Seq(Quantities)]

Init ==
  /\ project_state = "created" /\ available_amount = ProjectValue
  /\ compliant = {} /\ selected = {} /\ blacklisted = {} /\ whitelisted = {}
  /\ liquidity = [i \in Investors |-> 0]
  /\ ndas = [i \in Investors |-> [s \in NdaStates |-> 0]]
  /\ shareholder_agreements = [i \in Investors |-> [s \in PaperStates |-> 0]]
  /\ class_state = [c \in Classes |-> "none"]
  /\ terms = [c \in Classes |-> NoTerms]
  /\ templates = {} /\ overdue = {} /\ namesakes = {}
  /\ available_shares = [c \in Classes |-> 0]
  /\ offers = [c \in Classes |-> [i \in Investors |-> "none"]]
  /\ agreements = [c \in Classes |-> <<>>]

Exists(c) == class_state[c] # "none"

\* returnShareClass finds the first class of a name.
Found(c) == Exists(c) /\ c \notin namesakes

\* The states in which most permissions of Project are open.
ProjectOpen == project_state \in {"created", "subscribed"}

CloseProject ==
  /\ ProjectOpen
  /\ project_state' = "projectClosed"
  /\ UNCHANGED <<available_amount, people, whitelisted, papers, classes, overdue,
                 offers, agreements>>

-----------------------------------------------------------------------------
(* Share classes.                                                          *)

\* Faulty variant: the amount is compared but not reduced.
AmountKept(t) == available_amount

AmountLeft(t) == available_amount - t.value

\* Every call makes another class.  Names are not checked: a namesake takes its
\* value from the project like any other, but returnShareClass never finds it.
CreateShareClass(c, t) ==
  /\ ProjectOpen
  /\ ~ Exists(c)
  /\ t.total % Part = 0
  /\ t.value <= available_amount
  /\ t.total >= t.shares
  /\ available_amount' = AmountLeft(t)
  /\ class_state' = [class_state EXCEPT ![c] = "created"]
  /\ terms' = [terms EXCEPT ![c] = t]
  /\ available_shares' = [available_shares EXCEPT ![c] = t.shares]
  /\ namesakes' = IF \E d \in Classes : Exists(d) /\ NameOf[d] = NameOf[c]
                    THEN namesakes \cup {c} ELSE namesakes
  /\ UNCHANGED <<project_state, people, whitelisted, papers, templates, overdue,
                 offers, agreements>>

\* A template registers itself with its share class.
SetSATemplate(c) ==
  /\ Exists(c)
  /\ templates' = templates \cup {c}
  /\ UNCHANGED <<project, people, whitelisted, papers, class_state, terms,
                 available_shares, namesakes, overdue, offers, agreements>>

-----------------------------------------------------------------------------
(* Investors.                                                              *)

SetCompliant(i, status) ==
  /\ compliant' = IF status THEN compliant \cup {i} ELSE compliant \ {i}
  /\ UNCHANGED <<project, selected, blacklisted, liquidity, whitelisted, papers,
                 classes, overdue, offers, agreements>>

AddBlackListedInvestor(i) ==
  /\ blacklisted' = blacklisted \cup {i}
  /\ UNCHANGED <<project, compliant, selected, liquidity, whitelisted, papers,
                 classes, overdue, offers, agreements>>

\* Every selection creates a wallet.  For an investor selected again it is a
\* second one, and returnWalletPerProject may find either.
SelectInvestors(investors) ==
  LET chosen == (investors \cap compliant) \ blacklisted
  IN  /\ selected' = selected \cup chosen
      /\ \E emptied \in SUBSET chosen :
           liquidity' = [i \in Investors |-> IF i \in emptied THEN 0 ELSE liquidity[i]]
      /\ UNCHANGED <<project, compliant, blacklisted, whitelisted, papers, classes,
                     overdue, offers, agreements>>

SetLiquidity(i, amount) ==
  /\ i \in selected
  /\ liquidity' = [liquidity EXCEPT ![i] = amount]
  /\ UNCHANGED <<project, compliant, selected, blacklisted, whitelisted, papers,
                 classes, overdue, offers, agreements>>

-----------------------------------------------------------------------------
(* The whitelist and the agreements it depends on.                         *)

\* Faulty variant: the project may be closed.
MayWhitelistClosed(i, signatories) == i \in selected /\ i \in signatories

\* Faulty variant: nothing needs to be signed.
MayWhitelistUnsigned(i, signatories) == ProjectOpen /\ i \in selected

\* Guards of addWhitelistedInvestor; a revoked agreement still counts.
MayWhitelist(i, signatories) ==
  /\ ProjectOpen
  /\ i \in selected
  /\ i \in signatories

Signatories == {i \in Investors : \E s \in PaperStates : shareholder_agreements[i][s] > 0}

AddWhitelistedInvestor(i) ==
  /\ MayWhitelist(i, Signatories)
  /\ whitelisted' = whitelisted \cup {i}
  /\ UNCHANGED <<project, people, papers, classes, overdue, offers, agreements>>

RemoveWhitelistedInvestor(i) ==
  /\ ProjectOpen
  /\ whitelisted' = whitelisted \ {i}
  /\ UNCHANGED <<project, people, papers, classes, overdue, offers, agreements>>

HasNda(i) == \E s \in NdaStates : ndas[i][s] > 0

\* returnNdaPerProject finds any one of the investor's NDAs.
NdaMayBeSigned(i) == ndas[i]["signed"] > 0

\* One paper of those counted by state passes from one state to another.
Moved(count, from, to) ==
  [s \in DOMAIN count |-> CASE s = from -> count[s] - 1
                            [] s = to   -> count[s] + 1
                            [] OTHER    -> count[s]]

MoveNda(i, from, to) ==
  /\ ndas[i][from] > 0
  /\ ndas' = [ndas EXCEPT ![i] = Moved(@, from, to)]

SignNdaAndLegReq(i, from) ==
  /\ from \in {"created", "declined"}
  /\ i \in compliant
  /\ MoveNda(i, from, "signed")
  /\ UNCHANGED <<project, people, whitelisted, shareholder_agreements, classes, overdue,
                 offers, agreements>>

\* The NDA removes the investor from the whitelist in the name of pPlatform,
\* while removeWhitelistedInvestor is a permission of pBank.
DeclineNdaAndLegReq(i, from) ==
  /\ from \in {"created", "signed"}
  /\ pPlatform = pBank
  /\ ProjectOpen
  /\ MoveNda(i, from, "declined")
  /\ whitelisted' = whitelisted \ {i}
  /\ UNCHANGED <<project, people, shareholder_agreements, classes, overdue, offers, agreements>>

\* Project.signNDA creates another NDA, signed.
SignNDA(i) ==
  /\ i \in compliant
  /\ ndas[i]["created"] + ndas[i]["signed"] + ndas[i]["declined"] < MaxPapers
  /\ ndas' = [ndas EXCEPT ![i]["signed"] = @ + 1]
  /\ UNCHANGED <<project, people, whitelisted, shareholder_agreements, classes, overdue,
                 offers, agreements>>

\* What ShareClass.signShareholderAgreement does.
Whitelisting(c, i) ==
  /\ c \in templates
  /\ shareholder_agreements[i]["signed"] + shareholder_agreements[i]["revoked"] < MaxPapers
  /\ shareholder_agreements' = [shareholder_agreements EXCEPT ![i]["signed"] = @ + 1]
  /\ MayWhitelist(i, Signatories \cup {i})
  /\ whitelisted' = whitelisted \cup {i}

SignShareholderAgreement(c, i) ==
  /\ Whitelisting(c, i)
  /\ UNCHANGED <<project, people, ndas, classes, overdue, offers, agreements>>

\* Notifies the chain, but leaves the project's whitelist as it is.
RevokeSignature(i) ==
  /\ shareholder_agreements[i]["signed"] > 0
  /\ shareholder_agreements' =
       [shareholder_agreements EXCEPT ![i] = Moved(@, "signed", "revoked")]
  /\ UNCHANGED <<project, people, whitelisted, ndas, classes, overdue, offers,
                 agreements>>

-----------------------------------------------------------------------------
(* Offers.                                                                 *)

\* Every selected investor gets an offer, and an NDA to sign if there is none.
\* The price has to be the nominal one, so the class's terms give it.  The
\* project's permission of the same name only looks the class up; the class
\* itself does not ask whether the project is open.
SendOriginalOffers(c) ==
  /\ class_state[c] = "created"
  /\ class_state' = [class_state EXCEPT ![c] = "offersSent"]
  /\ offers' = [offers EXCEPT ![c] =
                  [i \in Investors |-> IF i \in selected THEN "created" ELSE "none"]]
  /\ ndas' = [i \in Investors |->
                IF i \in selected /\ ~ HasNda(i)
                  THEN [ndas[i] EXCEPT !["created"] = 1] ELSE ndas[i]]
  /\ UNCHANGED <<project, people, whitelisted, shareholder_agreements, terms, templates,
                 available_shares, namesakes, overdue, agreements>>

\* Faulty variant: an offer can be answered more than once.
AnsweredAgain(c, i) == offers[c][i] # "none"

Undecided(c, i) == offers[c][i] = "created"

\* correctShareInvestment, with the price value/total multiplied out by the
\* square of the total, which is positive.
Affordable(c, i, n) ==
  /\ n * terms[c].value * terms[c].total <= liquidity[i] * terms[c].total * terms[c].total
  /\ n \in MinShares .. MaxShares

AcceptOffer(c, i, n) ==
  /\ Undecided(c, i)
  /\ c \notin overdue
  /\ Affordable(c, i, n)
  /\ NdaMayBeSigned(i)
  /\ Whitelisting(c, i)
  /\ agreements' = [agreements EXCEPT ![c] =
       Append(@, [investor |-> i, shares |-> n, confirmed |-> 0, state |-> "subscribed",
                 tokens |-> <<>>])]
  /\ offers' = [offers EXCEPT ![c][i] = "customerAccepted"]
  /\ UNCHANGED <<project, people, ndas, classes, overdue>>

DeclineOffer(c, i) ==
  /\ Undecided(c, i)
  /\ offers' = [offers EXCEPT ![c][i] = "customerDeclined"]
  /\ UNCHANGED <<project, people, whitelisted, papers, classes, overdue, agreements>>

\* The engine's clock reaches the expiration date of the class's offers ...
DeadlinePasses(c) ==
  /\ class_state[c] \in {"offersSent", "subscriptionsCollected"}
  /\ c \notin overdue
  /\ overdue' = overdue \cup {c}
  /\ UNCHANGED <<project, people, whitelisted, papers, classes, offers, agreements>>

\* The bank may expire an offer at any time.
Expire(c, i) ==
  /\ Undecided(c, i)
  /\ offers' = [offers EXCEPT ![c][i] = "expired"]
  /\ UNCHANGED <<project, people, whitelisted, papers, classes, overdue, agreements>>

\* Faulty variant: the offers expire before their deadline only.
ExpireOfferEarly(c, i) == c \notin overdue /\ Expire(c, i)

\* ... and then expires each of them, "otherwise become expired".
ExpireOffer(c, i) == c \in overdue /\ Expire(c, i)

\* What is open in the given classes expires.
Collect(collected) ==
  /\ offers' = [c \in Classes |-> [i \in Investors |->
                  IF c \in collected /\ Undecided(c, i) THEN "expired" ELSE offers[c][i]]]
  /\ class_state' = [c \in Classes |->
                       IF c \in collected THEN "subscriptionsCollected" ELSE class_state[c]]
  /\ UNCHANGED <<project, people, whitelisted, papers, terms, templates,
                 available_shares, namesakes, overdue, agreements>>

\* The permission of the share class, which does not ask for the project's state ...
CollectSubscriptionsOf(c) == Exists(c) /\ Collect({c})

\* ... and that of the project.
CollectSubscriptions == ProjectOpen /\ Collect({c \in Classes : Exists(c)})

-----------------------------------------------------------------------------
(* Allocation.                                                             *)

\* Faulty variant: what is left is not compared with what is committed.
LeftAfterUnchecked(a, left) == IF a.state = "subscribed" THEN left - a.shares ELSE left

\* Faulty variant: a partial allocation takes nothing.
LeftAfterSkipping(a, left) ==
  IF a.state = "subscribed" /\ a.shares <= left THEN left - a.shares ELSE left

\* The shares left after agreement a, given those left before it.
LeftAfter(a, left) ==
  CASE a.state # "subscribed" \/ left <= 0 -> left
    [] a.state = "subscribed" /\ left > 0 /\ a.shares <= left -> left - a.shares
    [] OTHER -> 0

\* Faulty variant: a token carries what was committed.
CommittedToken(a) == [a EXCEPT !.tokens = Append(@, a.shares)]

\* A token of the agreement, for what is confirmed so far.
WithToken(a) == [a EXCEPT !.tokens = Append(@, a.confirmed)]

\* Faulty variant: an agreement is confirmed in full or rejected.
DecidedInFull(a, left) ==
  CASE a.state # "subscribed" -> a
    [] a.state = "subscribed" /\ a.shares <= left ->
         WithToken([a EXCEPT !.state = "fullyAllocated", !.confirmed = a.shares])
    [] OTHER -> [a EXCEPT !.state = "notAllocated"]

Decided(a, left) ==
  CASE a.state # "subscribed" -> a
    [] a.state = "subscribed" /\ left <= 0 -> [a EXCEPT !.state = "notAllocated"]
    [] a.state = "subscribed" /\ left > 0 /\ a.shares <= left ->
         WithToken([a EXCEPT !.state = "fullyAllocated", !.confirmed = a.shares])
    [] OTHER -> WithToken([a EXCEPT !.state = "partiallyAllocated", !.confirmed = left])

\* The shares left after each agreement, with so many available before them.
SharesLeft(ags, available) ==
  LET left[k \in 0 .. Len(ags)] ==
        IF k = 0 THEN available ELSE LeftAfter(ags[k], left[k - 1])
  IN  left

\* The loop of ShareClass.confirmSubscriptions, agreement by agreement.
Confirm(c) ==
  LET n == Len(agreements[c])
      left == SharesLeft(agreements[c], available_shares[c])
  IN  /\ Exists(c)
      /\ \A i \in Investors : ~ Undecided(c, i)
      /\ agreements' = [agreements EXCEPT ![c] =
                          [k \in 1 .. n |-> Decided(@[k], left[k - 1])]]
      /\ available_shares' = [available_shares EXCEPT ![c] = left[n]]
      /\ UNCHANGED <<available_amount, people, whitelisted, papers, class_state, terms,
                     templates, namesakes, overdue, offers>>

\* The permission of the share class does not ask for the project's state ...
ConfirmSubscriptions(c) == Confirm(c) /\ UNCHANGED project_state

\* ... while that of the project does, and completes the subscription process.
ConfirmSubscriptionAgreements(c) ==
  /\ ProjectOpen /\ Found(c)
  /\ Confirm(c)
  /\ project_state' = "subscribed"

\* The bank and the investor may create a token of an agreement in any state,
\* and once more after its confirmation has created one.
CreateToken(c, k) ==
  /\ k \in DOMAIN agreements[c]
  /\ Len(agreements[c][k].tokens) < MaxTokens
  /\ agreements' = [agreements EXCEPT ![c][k] = WithToken(@)]
  /\ UNCHANGED <<project, people, whitelisted, papers, classes, overdue, offers>>

-----------------------------------------------------------------------------

InvestorStep(i) ==
  \/ \E s \in NdaStates : SignNdaAndLegReq(i, s) \/ DeclineNdaAndLegReq(i, s)
  \/ SignNDA(i)
  \/ RevokeSignature(i)
  \/ \E c \in Classes : \/ SignShareholderAgreement(c, i)
                        \/ DeclineOffer(c, i)
                        \/ \E n \in Quantities : AcceptOffer(c, i, n)

BankStep ==
  \/ CloseProject
  \/ CollectSubscriptions
  \/ \E investors \in SUBSET Investors : SelectInvestors(investors)
  \/ \E i \in Suspects : AddBlackListedInvestor(i)
  \/ \E c \in Classes : \/ \E t \in Terms : CreateShareClass(c, t)
                        \/ SetSATemplate(c)
                        \/ SendOriginalOffers(c)
                        \/ CollectSubscriptionsOf(c)
                        \/ ConfirmSubscriptions(c)
                        \/ ConfirmSubscriptionAgreements(c)
                        \/ \E i \in Investors : Expire(c, i)
                        \/ \E k \in DOMAIN agreements[c] : CreateToken(c, k)
  \/ \E i \in Investors : \/ \E status \in BOOLEAN : SetCompliant(i, status)
                          \/ \E amount \in Liquidities : SetLiquidity(i, amount)
                          \/ AddWhitelistedInvestor(i)
                          \/ RemoveWhitelistedInvestor(i)

ClockStep ==
  \E c \in Classes : DeadlinePasses(c) \/ \E i \in Investors : ExpireOffer(c, i)

Next == BankStep \/ ClockStep \/ \E i \in Investors : InvestorStep(i)

Spec == Init /\ [][Next]_vars

\* The engine triggers every obligation whose deadline passes.  Nobody else
\* is obliged to act.
Fairness ==
  \A c \in Classes : /\ WF_vars(DeadlinePasses(c))
                     /\ \A i \in Investors : WF_vars(ExpireOffer(c, i))

FairSpec == Spec /\ Fairness

-----------------------------------------------------------------------------
(* Queries.                                                                *)

\* The sums of the first 0, 1, 2 ... numbers of a sequence.
SumsOf(numbers) ==
  LET sum[k \in 0 .. Len(numbers)] == IF k = 0 THEN 0 ELSE sum[k - 1] + numbers[k]
  IN  sum

Total(numbers) == SumsOf(numbers)[Len(numbers)]

\* originalCommittedNumberOfShares of all agreements ...
Requests(c) == [k \in DOMAIN agreements[c] |-> agreements[c][k].shares]

\* ... and of the committed subscriptions.
Committed(c) ==
  [k \in DOMAIN agreements[c] |->
     IF agreements[c][k].state = "subscribed" THEN agreements[c][k].shares ELSE 0]

\* originalConfirmedNumberOfShares of the agreements.
Confirmed(c) == [k \in DOMAIN agreements[c] |-> agreements[c][k].confirmed]

\* Faulty variant: a class that is exactly sold out counts.
OversubscribedIfExhausted(c) == Total(Committed(c)) >= available_shares[c]

\* checkIfShareClassOversubscribed.
Oversubscribed(c) == Total(Committed(c)) > available_shares[c]

-----------------------------------------------------------------------------
(* Properties.                                                             *)

\* Fewer shares than none are left in a class only if it was created so.
NotOverdrawn ==
  \A c \in Classes : available_shares[c] < 0 => terms[c].shares = available_shares[c]

\* The variables hold values of the types the protocols declare, and no class
\* is overdrawn.
TypeOK ==
  /\ project_state \in {"created", "subscribed", "projectClosed"}
  /\ available_amount \in Int
  /\ compliant \subseteq Investors /\ selected \subseteq Investors
  /\ blacklisted \subseteq Investors /\ whitelisted \subseteq Investors
  /\ liquidity \in [Investors -> Int]
  /\ ndas \in [Investors -> [NdaStates -> Nat]]
  /\ shareholder_agreements \in [Investors -> [PaperStates -> Nat]]
  /\ class_state \in [Classes -> {"none", "created", "offersSent", "subscriptionsCollected"}]
  /\ terms \in [Classes -> ClassTerms \cup {NoTerms}]
  /\ templates \subseteq Classes /\ overdue \subseteq Classes /\ namesakes \subseteq Classes
  /\ available_shares \in [Classes -> Int]
  /\ NotOverdrawn
  /\ offers \in [Classes -> [Investors ->
       {"none", "created", "expired", "customerAccepted", "customerDeclined"}]]
  /\ agreements \in [Classes -> Seq(Agreement)]

\* Shares are neither created nor lost: what a class still has for
\* subscription and what its agreements were confirmed add up to what it was
\* created with, however often it is confirmed, and by whom.
SharesConserved ==
  \A c \in Classes :
    Exists(c) => available_shares[c] + Total(Confirmed(c)) = terms[c].shares

ClassValues == [c \in Classes |-> IF Exists(c) THEN terms[c].value ELSE 0]

ValueOf(c) == ClassValues[c]

\* The project stands behind its classes: their values, those of namesakes and
\* negative ones included, and what is left are the project's value, nothing
\* is overdrawn once there is a class, and no class confirms more shares than
\* its value is divided into.
ClassesAreBacked ==
  /\ available_amount + MapThenSumSet(ValueOf, Classes) = ProjectValue
  /\ (\E c \in Classes : Exists(c)) => available_amount >= 0
  /\ \A c \in Classes :
       Total(Confirmed(c)) > 0 => Exists(c) /\ Total(Confirmed(c)) <= terms[c].total

\* Whenever a token was created, and by whomever, it carries nothing or exactly
\* what its agreement was granted in the end, nothing if it was granted nothing;
\* and an agreement that was granted shares has a token that carries them.
TokensCarryGrants ==
  \A c \in Classes : \A k \in DOMAIN agreements[c] :
    LET a == agreements[c][k]
        carried == {a.tokens[j] : j \in DOMAIN a.tokens}
        allocated == a.state \in {"fullyAllocated", "partiallyAllocated"}
    IN  /\ carried \subseteq (IF allocated THEN {0, a.confirmed} ELSE {0})
        /\ allocated => a.confirmed \in carried

\* Accepted offers and agreements correspond one to one.
OneAgreementPerOffer ==
  \A c \in Classes, i \in Investors :
    LET own == {k \in DOMAIN agreements[c] : agreements[c][k].investor = i}
    IN  /\ offers[c][i] = "customerAccepted" <=> own # {}
        /\ \A j, k \in own : j = k

\* Whoever is on the whitelist or holds an agreement was selected and put his
\* name under a shareholder agreement, revoked or not.
WhitelistIsGrounded ==
  \A i \in Investors :
    \/ i \in whitelisted
    \/ \E c \in Classes : \E k \in DOMAIN agreements[c] : agreements[c][k].investor = i
    => i \in selected \cap Signatories

\* checkIfProjectIsOversubscribed foretells the outcome: a decision leaves
\* somebody short exactly if the class was reported as oversubscribed.
OversubscriptionIsForetold ==
  [][\A c \in Classes :
       LET open == {k \in DOMAIN agreements[c] : agreements[c][k].state = "subscribed"}
           short == {k \in open : agreements'[c][k].state # "fullyAllocated"}
       IN  MinShares > 0 /\ (\E k \in open : agreements'[c][k].state # "subscribed")
             => (Oversubscribed(c) <=> short # {})]_vars

\* A closed project is closed to investors.  The bank may go on with the
\* classes there are: send offers, collect, confirm and create tokens.  But no
\* class is added, the whitelist stands still, no offer is accepted and nobody
\* commits to anything, though acceptOffer and declineNdaAndLegReq have no such
\* guard themselves: a step deep in their chain of calls refuses.
ClosedToInvestors ==
  [][project_state = "projectClosed" =>
       /\ UNCHANGED <<project, whitelisted, terms>>
       /\ \A c \in Classes :
            /\ UNCHANGED Requests(c)
            /\ \A i \in Investors :
                 offers'[c][i] = "customerAccepted" => offers[c][i] = "customerAccepted"]_vars

\* Every offer is settled: an investor who never answers does not block
\* confirmSubscriptions for ever.
OffersSettle ==
  \A c \in Classes, i \in Investors : Undecided(c, i) ~> ~ Undecided(c, i)

\* "the counterpart to the transfer is whitelisted and thus complies with all
\* legal requirements and has signed all necessary documents" (README.md).
WhitelistedHaveSigned ==
  \A i \in whitelisted :
    /\ i \in compliant
    /\ ndas[i]["signed"] > 0
    /\ shareholder_agreements[i]["signed"] > 0

\* "the off-chain tokens then hold the number of shares that are held by each
\* account" (README.md).
TokensHoldTheShares ==
  \A c \in Classes : \A k \in DOMAIN agreements[c] :
    Total(agreements[c][k].tokens) = agreements[c][k].confirmed

-----------------------------------------------------------------------------
(* A share class as a book of subscriptions.                               *)

\* What was granted, as far as the decided agreements come first.
Granted(c) ==
  LET decided == {k \in DOMAIN agreements[c] : agreements[c][k].state # "subscribed"}
  IN  [k \in decided |-> agreements[c][k].confirmed]

OnOffer(c) == IF Exists(c) THEN terms[c].shares ELSE 0

Book(c) == INSTANCE SubscriptionBook
  WITH Amounts <- Quantities \cup {t.shares : t \in Terms}, offered <- OnOffer(c),
       requests <- Requests(c), granted <- Granted(c)

\* Every share class implements the book, first come first served: this is
\* \A c \in Classes : Book(c)!Spec with the quantifier inside the box.
ImplementsBook ==
  /\ \A c \in Classes : Book(c)!Init
  /\ [][\A c \in Classes :
           [Book(c)!Next]_<<OnOffer(c), Requests(c), Granted(c)>>]_vars
=============================================================================
