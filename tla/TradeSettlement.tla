--------------------------- MODULE TradeSettlement ---------------------------
(***************************************************************************)
(* The secondary market of one project on the platform: the protocols      *)
(* Token, OffChainTradeAgreement, OnChainTradeAgreement and Wallet of      *)
(* npl/src/main/npl/platform.                                              *)
(*                                                                         *)
(* Conventions.                                                            *)
(*  - A permission runs as one transaction with every permission it calls; *)
(*    a refusal anywhere in the chain undoes it all.                       *)
(*  - The party of an investor is identified with the investor.            *)
(*  - Both kinds of agreement are trades; the lists in which token, buyer  *)
(*    and owner keep them are read off this one table.                     *)
(*  - An investor's wallets for the project are a sequence in the order of *)
(*    his selections.  returnWalletPerProject takes the first element of a *)
(*    set, whose order is not defined: any of the wallets.                 *)
(*  - setBcId and the notification TransferToken are in module Bridge.      *)
(*  - private_setDeadline, "only for testing purposes", is left out.       *)
(***************************************************************************)
EXTENDS Integers, Sequences, FiniteSets

CONSTANTS
  Investors,
  Tokens,
  Trades,              \* bound: the agreements that can be made
  Rebinders,           \* the parties that call setBuyer and setSeller
  Nobody,              \* the owner of a token that does not exist
  MaxWallets           \* bound: investor -> how often he is selected

ASSUME RebindersAssumption == Rebinders \subseteq Investors

ASSUME NobodyAssumption == Nobody \notin Investors

ASSUME BoundsAssumption == IsFiniteSet(Trades) /\ MaxWallets \in [Investors -> Nat]

VARIABLES
  whitelisted,
  wallets,             \* investor -> his wallets, each a set of tokens
  token_state,         \* "none", "minted" or "traded"
  owner,               \* token -> investor
  pOwner,              \* token -> the party that disposes of it
  status,              \* trade -> "none" or the agreement's state
  token,               \* trade -> its token
  buyer,               \* trade -> investor
  pBuyer, pSeller,     \* trade -> party
  overdue,             \* the trades whose deadline has passed
  issued_to            \* history: the first owner of a token

title == <<token_state, owner, pOwner, issued_to>>
terms == <<token, buyer, pBuyer, pSeller>>
vars == <<whitelisted, wallets, title, status, terms, overdue>>

Init ==
  /\ whitelisted = {}
  /\ wallets = [i \in Investors |-> <<>>]
  /\ token_state = [t \in Tokens |-> "none"]
  /\ owner = [t \in Tokens |-> Nobody]
  /\ pOwner = [t \in Tokens |-> Nobody]
  /\ issued_to = [t \in Tokens |-> Nobody]
  /\ status = [a \in Trades |-> "none"]
  /\ \E t \in Tokens : token = [a \in Trades |-> t]
  /\ \E i \in Investors : /\ buyer = [a \in Trades |-> i]
                          /\ pBuyer = buyer /\ pSeller = buyer
  /\ overdue = {}

-----------------------------------------------------------------------------
(* Investors and their wallets, as far as trades depend on them.           *)

\* addSelectedInvestor creates a wallet every time.
SelectInvestor(i) ==
  /\ Len(wallets[i]) < MaxWallets[i]
  /\ wallets' = [wallets EXCEPT ![i] = Append(@, {})]
  /\ UNCHANGED <<whitelisted, title, status, terms, overdue>>

AddWhitelistedInvestor(i) ==
  /\ wallets[i] # <<>>
  /\ whitelisted' = whitelisted \cup {i}
  /\ UNCHANGED <<wallets, title, status, terms, overdue>>

RemoveWhitelistedInvestor(i) ==
  /\ whitelisted' = whitelisted \ {i}
  /\ UNCHANGED <<wallets, title, status, terms, overdue>>

-----------------------------------------------------------------------------
(* Token.                                                                  *)

\* Faulty variant: a token that was never created counts.
AnyToken(t) == TRUE

Exists(t) == token_state[t] # "none"

CreateToken(t, i) ==
  /\ ~ Exists(t)
  /\ \E w \in DOMAIN wallets[i] : wallets' = [wallets EXCEPT ![i][w] = @ \cup {t}]
  /\ token_state' = [token_state EXCEPT ![t] = "minted"]
  /\ owner' = [owner EXCEPT ![t] = i]
  /\ pOwner' = [pOwner EXCEPT ![t] = i]
  /\ issued_to' = [issued_to EXCEPT ![t] = i]
  /\ UNCHANGED <<whitelisted, status, terms, overdue>>

Taken(t, i, w) == [wallets EXCEPT ![i][w] = @ \ {t}]

\* Faulty variant: the old owner's wallet is not cleared.
FiledTwice(t, v, i, w) == [wallets EXCEPT ![i][w] = @ \cup {t}]

\* The wallets after removeToken from one and addToken to another.
Filed(t, v, i, w) == [Taken(t, owner[t], v) EXCEPT ![i][w] = @ \cup {t}]

\* Faulty variant: the token stays at the disposal of the old owner's party.
OldParty(t, p) == pOwner[t]

\* this.pOwner = newOwner.
NewParty(t, p) == p

TransferOwnership(t, i, p) ==
  /\ \E v \in DOMAIN wallets[owner[t]], w \in DOMAIN wallets[i] :
       wallets' = Filed(t, v, i, w)
  /\ pOwner' = [pOwner EXCEPT ![t] = NewParty(t, p)]
  /\ owner' = [owner EXCEPT ![t] = i]
  /\ token_state' = [token_state EXCEPT ![t] = "traded"]
  /\ UNCHANGED issued_to

\* Faulty variant: the check made when the agreement was made is trusted.
CheckedBefore(i) == TRUE

\* The guard of offChainTransfer and the filter of onChainTransfer.
MayReceive(i) == i \in whitelisted

-----------------------------------------------------------------------------
(* Trade agreements.                                                       *)

Open == {"created", "buyerAgreed", "sellerAgreed"}

\* init registers the agreement with the token, the buyer and the token's
\* owner; the last is done in the name of pSeller and refused if the owner's
\* party is another one.
CreateTrade(a, t, i) ==
  /\ status[a] = "none"
  /\ Exists(t)
  /\ i \in whitelisted
  /\ pOwner[t] = owner[t]
  /\ status' = [status EXCEPT ![a] = "created"]
  /\ token' = [token EXCEPT ![a] = t]
  /\ buyer' = [buyer EXCEPT ![a] = i]
  /\ pBuyer' = [pBuyer EXCEPT ![a] = i]
  /\ pSeller' = [pSeller EXCEPT ![a] = pOwner[t]]
  /\ UNCHANGED <<whitelisted, wallets, title, overdue>>

\* Any participant may take the place of a party before anybody has agreed.
SetBuyer(a, p) ==
  /\ status[a] = "created"
  /\ pBuyer' = [pBuyer EXCEPT ![a] = p]
  /\ UNCHANGED <<whitelisted, wallets, title, status, token, buyer, pSeller, overdue>>

SetSeller(a, p) ==
  /\ status[a] = "created"
  /\ pSeller' = [pSeller EXCEPT ![a] = p]
  /\ UNCHANGED <<whitelisted, wallets, title, status, token, buyer, pBuyer, overdue>>

DeadlinePasses(a) ==
  /\ status[a] \in Open /\ a \notin overdue
  /\ overdue' = overdue \cup {a}
  /\ UNCHANGED <<whitelisted, wallets, title, status, terms>>

FirstConsent(a, next) ==
  /\ status[a] = "created"
  /\ status' = [status EXCEPT ![a] = next]
  /\ UNCHANGED <<whitelisted, wallets, title, terms, overdue>>

\* Faulty variant: the seller was the owner when the agreement was made.
OnceOwned(a) == TRUE

\* The permission offChainTransfer belongs to the token's present pOwner.
MayConvey(a) == pSeller[a] = pOwner[token[a]]

\* Faulty variant: the agreement stays open after the transfer.
StaysOpen(a) == UNCHANGED status

BecomeExecuted(a) == status' = [status EXCEPT ![a] = "executed"]

\* offChainTransfer, then become executed.
SecondConsent(a, awaited) ==
  /\ status[a] = awaited
  /\ MayConvey(a)
  /\ MayReceive(buyer[a])
  /\ TransferOwnership(token[a], buyer[a], pBuyer[a])
  /\ BecomeExecuted(a)
  /\ UNCHANGED <<whitelisted, terms, overdue>>

BuyerAgree(a) ==
  /\ a \notin overdue
  /\ FirstConsent(a, "buyerAgreed") \/ SecondConsent(a, "sellerAgreed")

SellerAgree(a) ==
  /\ a \notin overdue
  /\ FirstConsent(a, "sellerAgreed") \/ SecondConsent(a, "buyerAgreed")

\* Faulty variant: only agreements nobody has consented to are rejected.
Untouched == {"created"}

\* The states in which one of the two obligations is pending.
Obliged == Open

\* otherwise become rejected.
Reject(a) ==
  /\ a \in overdue /\ status[a] \in Obliged
  /\ status' = [status EXCEPT ![a] = "rejected"]
  /\ UNCHANGED <<whitelisted, wallets, title, terms, overdue>>

\* An OnChainTradeAgreement is executed when it is made.
OnChainTransfer(a, t, i) ==
  /\ status[a] = "none"
  /\ Exists(t)
  /\ MayReceive(i)
  /\ pOwner[t] = owner[t]
  /\ TransferOwnership(t, i, i)
  /\ BecomeExecuted(a)
  /\ token' = [token EXCEPT ![a] = t]
  /\ buyer' = [buyer EXCEPT ![a] = i]
  /\ pBuyer' = [pBuyer EXCEPT ![a] = i]
  /\ pSeller' = [pSeller EXCEPT ![a] = pOwner[t]]
  /\ UNCHANGED <<whitelisted, overdue>>

-----------------------------------------------------------------------------

InvestorsStep ==
  \E i \in Investors :
    \/ SelectInvestor(i)
    \/ AddWhitelistedInvestor(i)
    \/ RemoveWhitelistedInvestor(i)

TokenStep ==
  \E t \in Tokens, i \in Investors : CreateToken(t, i)

TradeStep(a) ==
  \/ \E t \in Tokens, i \in Investors : CreateTrade(a, t, i) \/ OnChainTransfer(a, t, i)
  \/ \E p \in Rebinders : SetBuyer(a, p) \/ SetSeller(a, p)
  \/ BuyerAgree(a)
  \/ SellerAgree(a)
  \/ DeadlinePasses(a)
  \/ Reject(a)

Next == InvestorsStep \/ TokenStep \/ \E a \in Trades : TradeStep(a)

Spec == Init /\ [][Next]_vars

\* The engine triggers the obligations whose deadline passes.
Fairness == \A a \in Trades : WF_vars(DeadlinePasses(a)) /\ WF_vars(Reject(a))

FairSpec == Spec /\ Fairness

-----------------------------------------------------------------------------
(* Properties.                                                             *)

\* The variables hold values of the types the protocols declare; a token that
\* exists has an owner and somebody who disposes of it.
TypeOK ==
  /\ whitelisted \subseteq Investors
  /\ wallets \in [Investors -> Seq(SUBSET Tokens)]
  /\ token_state \in [Tokens -> {"none", "minted", "traded"}]
  /\ owner \in [Tokens -> Investors \cup {Nobody}]
  /\ pOwner \in [Tokens -> Investors \cup {Nobody}]
  /\ issued_to \in [Tokens -> Investors \cup {Nobody}]
  /\ \A t \in Tokens : token_state[t] # "none" <=> owner[t] # Nobody
  /\ \A t \in Tokens : token_state[t] # "none" <=> pOwner[t] # Nobody
  /\ status \in [Trades -> Open \cup {"none", "executed", "rejected"}]
  /\ token \in [Trades -> Tokens]
  /\ buyer \in [Trades -> Investors]
  /\ pBuyer \in [Trades -> Investors]
  /\ pSeller \in [Trades -> Investors]
  /\ overdue \subseteq Trades

Holding(i, t) == {w \in DOMAIN wallets[i] : t \in wallets[i][w]}

\* A token lies in a wallet of its owner; it lies in somebody else's only if
\* that investor was selected more than once and removeToken was sent to the
\* wrong one of his wallets.
WalletsFollowOwners ==
  \A t \in Tokens, i \in Investors :
    /\ owner[t] = i => Holding(i, t) # {}
    /\ owner[t] # i /\ Holding(i, t) # {} => Len(wallets[i]) > 1

Executed(t) == {a \in Trades : status[a] = "executed" /\ token[a] = t}

Bought(t, p) == {a \in Executed(t) : pBuyer[a] = p}
Sold(t, p) == {a \in Executed(t) : pSeller[a] = p}

Once(b) == IF b THEN 1 ELSE 0

\* The executed agreements about a token are an unbroken chain from the party
\* it was issued to, to the party that has it now: nobody sells what he does
\* not have, or the same acquisition twice, however many agreements were open
\* at a time.
ChainOfTitle ==
  \A t \in Tokens, p \in Investors :
    Cardinality(Bought(t, p)) + Once(issued_to[t] = p)
      = Cardinality(Sold(t, p)) + Once(pOwner[t] = p)

\* A token is at the disposal of its owner's party, unless it was bought under
\* an agreement in which somebody else had taken the buyer's place (setBuyer).
OwnersDispose ==
  \A t \in Tokens :
    pOwner[t] # owner[t] =>
      \E a \in Executed(t) : buyer[a] = owner[t] /\ pBuyer[a] = pOwner[t]

\* A token passes only to an investor who is on the whitelist when it passes,
\* not merely when the agreement was made.
ReceiversAreWhitelisted ==
  [][\A t \in Tokens :
       Exists(t) /\ owner'[t] # owner[t] => owner'[t] \in whitelisted]_vars

\* Every agreement comes to an end: it is executed or rejected, also when the
\* token is gone or the buyer is no longer listed.
TradesEnd == \A a \in Trades : status[a] \in Open ~> status[a] \in {"executed", "rejected"}

-----------------------------------------------------------------------------
(* The trades as deals about titles.                                       *)

Outcome(s) ==
  CASE s = "none" -> "none"
    [] s \in Open -> "open"
    [] s = "executed" -> "settled"
    [] s = "rejected" -> "void"

Consents(s) ==
  CASE s = "buyerAgreed" -> {"buyer"}
    [] s = "sellerAgreed" -> {"seller"}
    [] s = "executed" -> {"buyer", "seller"}
    [] OTHER -> {}

Titles == INSTANCE TokenTitles
  WITH Holders <- Investors, Deals <- Trades, title <- pOwner, subject <- token,
       outcome <- [a \in Trades |-> Outcome(status[a])],
       consents <- [a \in Trades |-> Consents(status[a])]

\* The secondary market keeps the promise of TokenTitles: an agreement is
\* executed at most once, only with both consents and never after it was
\* rejected, and it moves its own token and no other.
ImplementsTitles == Titles!Spec
=============================================================================
