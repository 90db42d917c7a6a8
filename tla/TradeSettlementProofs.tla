----------------------- MODULE TradeSettlementProofs -----------------------
(***************************************************************************)
(* Theorems about TradeSettlement.                                         *)
(***************************************************************************)
EXTENDS TradeSettlement, FiniteSetTheorems, TLAPS

-----------------------------------------------------------------------------
(* What a step does to titles.  Every step leaves them alone, creates a    *)
(* token, or executes one agreement.                                       *)

\* What an executed agreement says is final.
ExecutedStay ==
  \A a \in Trades :
    status[a] = "executed" =>
      /\ status'[a] = "executed" /\ token'[a] = token[a] /\ buyer'[a] = buyer[a]
      /\ pBuyer'[a] = pBuyer[a] /\ pSeller'[a] = pSeller[a]

NobodyExecutes == \A a \in Trades : status'[a] = "executed" => status[a] = "executed"

LeavesTitles ==
  /\ UNCHANGED title /\ ExecutedStay /\ NobodyExecutes
  /\ wallets' = wallets \/ \E i \in Investors : SelectInvestor(i)

Creates == \E t \in Tokens, i \in Investors : CreateToken(t, i)

\* Agreement a on token t is executed: i becomes the owner, p its party.
Moves(a, t, i, p) ==
  /\ status[a] # "executed" /\ status'[a] = "executed"
  /\ token'[a] = t /\ buyer'[a] = i /\ pBuyer'[a] = p /\ pSeller'[a] = pOwner[t]
  /\ \A b \in Trades \ {a} :
       /\ status'[b] = status[b] /\ token'[b] = token[b] /\ buyer'[b] = buyer[b]
       /\ pBuyer'[b] = pBuyer[b] /\ pSeller'[b] = pSeller[b]
  /\ token_state[t] # "none"
  /\ MayReceive(i)
  /\ TransferOwnership(t, i, p)

Executes ==
  \E a \in Trades, t \in Tokens, i \in Investors, p \in Investors : Moves(a, t, i, p)

LEMMA SecondConsentMoves ==
  ASSUME TypeOK, NEW a \in Trades, NEW s \in Open, SecondConsent(a, s)
  PROVE  Executes
<1> DEFINE t == token[a]  i == buyer[a]  p == pBuyer[a]
<1>1. t \in Tokens /\ i \in Investors /\ p \in Investors /\ pSeller[a] \in Investors
  BY DEF TypeOK
<1>2. pOwner[t] = pSeller[a] /\ token_state[t] # "none"
  BY <1>1, NobodyAssumption DEF TypeOK, SecondConsent, MayConvey
<1>3. status[a] # "executed" /\ status' = [status EXCEPT ![a] = "executed"]
  BY DEF SecondConsent, BecomeExecuted, Open
<1>4. UNCHANGED terms /\ MayReceive(i) /\ TransferOwnership(t, i, p)
  BY DEF SecondConsent
<1>5. Moves(a, t, i, p)
  BY <1>2, <1>3, <1>4 DEF Moves, TypeOK, terms
<1> QED
  BY <1>1, <1>5 DEF Executes

LEMMA OnChainMoves ==
  ASSUME TypeOK, NEW a \in Trades, NEW t \in Tokens, NEW i \in Investors,
         OnChainTransfer(a, t, i)
  PROVE  Executes
<1>1. /\ status[a] # "executed" /\ status' = [status EXCEPT ![a] = "executed"]
      /\ token' = [token EXCEPT ![a] = t] /\ buyer' = [buyer EXCEPT ![a] = i]
      /\ pBuyer' = [pBuyer EXCEPT ![a] = i] /\ pSeller' = [pSeller EXCEPT ![a] = pOwner[t]]
  BY DEF OnChainTransfer, BecomeExecuted
<1>2. token_state[t] # "none" /\ MayReceive(i) /\ TransferOwnership(t, i, i)
  BY DEF OnChainTransfer, Exists
<1>3. Moves(a, t, i, i)
  BY <1>1, <1>2 DEF Moves, TypeOK
<1> QED
  BY <1>3 DEF Executes

LEMMA StepKinds ==
  ASSUME TypeOK, [Next]_vars
  PROVE  LeavesTitles \/ Creates \/ Executes
<1> USE DEF LeavesTitles, ExecutedStay, NobodyExecutes
<1>1. CASE UNCHANGED vars
  BY <1>1 DEF vars, terms
<1>2. CASE InvestorsStep
  BY <1>2 DEF InvestorsStep, SelectInvestor, AddWhitelistedInvestor,
              RemoveWhitelistedInvestor, terms
<1>3. CASE TokenStep
  BY <1>3 DEF TokenStep, Creates
<1>4. ASSUME NEW a \in Trades, TradeStep(a)
      PROVE  LeavesTitles \/ Creates \/ Executes
  <2>1. CASE \E t \in Tokens, i \in Investors : CreateTrade(a, t, i)
    BY <2>1 DEF CreateTrade, TypeOK
  <2>2. CASE \E t \in Tokens, i \in Investors : OnChainTransfer(a, t, i)
    BY <2>2, OnChainMoves
  <2>3. CASE \E p \in Rebinders : SetBuyer(a, p) \/ SetSeller(a, p)
    BY <2>3 DEF SetBuyer, SetSeller, TypeOK
  <2>4. CASE \E s \in Open : FirstConsent(a, s)
    BY <2>4 DEF FirstConsent, TypeOK, Open, terms
  <2>5. CASE \E s \in Open : SecondConsent(a, s)
    BY <2>5, SecondConsentMoves
  <2>6. CASE DeadlinePasses(a)
    BY <2>6 DEF DeadlinePasses, terms
  <2>7. CASE Reject(a)
    BY <2>7 DEF Reject, TypeOK, Obliged, Open, terms
  <2> QED
    BY <1>4, <2>1, <2>2, <2>3, <2>4, <2>5, <2>6, <2>7
       DEF TradeStep, BuyerAgree, SellerAgree, Open
<1> QED
  BY <1>1, <1>2, <1>3, <1>4 DEF Next

-----------------------------------------------------------------------------
(* Types.                                                                  *)

\* Replacing an element of a sequence keeps its type and its length.
LEMMA ReplacedElement ==
  ASSUME NEW S, NEW s \in Seq(S), NEW k \in DOMAIN s, NEW x \in S
  PROVE  [s EXCEPT ![k] = x] \in Seq(S) /\ Len([s EXCEPT ![k] = x]) = Len(s)
OBVIOUS

\* Taking a token out of one wallet.
LEMMA TakenType ==
  ASSUME NEW W \in [Investors -> Seq(SUBSET Tokens)], NEW t, NEW o \in Investors,
         NEW v \in DOMAIN W[o]
  PROVE  /\ [W EXCEPT ![o][v] = @ \ {t}] \in [Investors -> Seq(SUBSET Tokens)]
         /\ \A i \in Investors : DOMAIN ([W EXCEPT ![o][v] = @ \ {t}])[i] = DOMAIN W[i]
<1> DEFINE x == W[o][v] \ {t}
           s == [W[o] EXCEPT ![v] = x]
<1>1. W[o] \in Seq(SUBSET Tokens) /\ x \in SUBSET Tokens
  OBVIOUS
<1>2. s \in Seq(SUBSET Tokens) /\ DOMAIN s = DOMAIN W[o]
  BY <1>1, ReplacedElement
<1>3. [W EXCEPT ![o][v] = @ \ {t}] = [W EXCEPT ![o] = s]
  OBVIOUS
<1> QED
  BY <1>2, <1>3

\* Putting a token into one wallet.
LEMMA AddedType ==
  ASSUME NEW W \in [Investors -> Seq(SUBSET Tokens)], NEW t \in Tokens,
         NEW i \in Investors, NEW w \in DOMAIN W[i]
  PROVE  /\ [W EXCEPT ![i][w] = @ \cup {t}] \in [Investors -> Seq(SUBSET Tokens)]
         /\ \A j \in Investors : DOMAIN ([W EXCEPT ![i][w] = @ \cup {t}])[j] = DOMAIN W[j]
<1> DEFINE x == W[i][w] \cup {t}
           s == [W[i] EXCEPT ![w] = x]
<1>1. W[i] \in Seq(SUBSET Tokens) /\ x \in SUBSET Tokens
  OBVIOUS
<1>2. s \in Seq(SUBSET Tokens) /\ DOMAIN s = DOMAIN W[i]
  BY <1>1, ReplacedElement
<1>3. [W EXCEPT ![i][w] = @ \cup {t}] = [W EXCEPT ![i] = s]
  OBVIOUS
<1> QED
  BY <1>2, <1>3

\* The wallets after a transfer: what they contain, and that their numbers
\* stay.
LEMMA FiledWallets ==
  ASSUME TypeOK, NEW t \in Tokens, owner[t] \in Investors,
         NEW v \in DOMAIN wallets[owner[t]], NEW i \in Investors, NEW w \in DOMAIN wallets[i],
         wallets' = Filed(t, v, i, w)
  PROVE  /\ wallets' \in [Investors -> Seq(SUBSET Tokens)]
         /\ \A j \in Investors : DOMAIN wallets'[j] = DOMAIN wallets[j]
         /\ t \in wallets'[i][w]
         /\ owner[t] # i => t \notin wallets'[owner[t]][v]
         /\ \A j \in Investors : \A k \in DOMAIN wallets[j] : \A u \in Tokens :
              (u # t \/ j \notin {i, owner[t]}) =>
                (u \in wallets'[j][k] <=> u \in wallets[j][k])
<1> DEFINE T == Taken(t, owner[t], v)
<1>1. T = [wallets EXCEPT ![owner[t]][v] = @ \ {t}]
  BY DEF Taken
<1>2. wallets \in [Investors -> Seq(SUBSET Tokens)]
  BY DEF TypeOK
<1>3. /\ T \in [Investors -> Seq(SUBSET Tokens)]
      /\ \A j \in Investors : DOMAIN T[j] = DOMAIN wallets[j]
  BY <1>1, <1>2, TakenType
<1>4. wallets' = [T EXCEPT ![i][w] = @ \cup {t}]
  BY DEF Filed
<1>5. /\ wallets' \in [Investors -> Seq(SUBSET Tokens)]
      /\ \A j \in Investors : DOMAIN wallets'[j] = DOMAIN T[j]
  BY <1>3, <1>4, AddedType
<1>6. /\ t \notin T[owner[t]][v]
      /\ \A j \in Investors : \A k \in DOMAIN wallets[j] : \A u \in Tokens :
           (u # t \/ j # owner[t]) => (u \in T[j][k] <=> u \in wallets[j][k])
  BY <1>1, <1>2
<1> HIDE DEF T
<1>7. /\ t \in wallets'[i][w]
      /\ \A j \in Investors : j # i => wallets'[j] = T[j]
      /\ \A j \in Investors : \A k \in DOMAIN T[j] : \A u \in Tokens :
           u # t => (u \in wallets'[j][k] <=> u \in T[j][k])
  BY <1>3, <1>4
<1> QED
  BY <1>3, <1>5, <1>6, <1>7

LEMMA TypeInit == Init => TypeOK
<1> SUFFICES ASSUME Init PROVE TypeOK
  OBVIOUS
<1>1. <<>> \in Seq(SUBSET Tokens)
  OBVIOUS
<1> QED
  BY <1>1, NobodyAssumption DEF Init, TypeOK, Open

\* The titles after one agreement was executed.
LEMMA MovedTitles ==
  ASSUME TypeOK, NEW a \in Trades, NEW t \in Tokens, NEW i \in Investors,
         NEW p \in Investors, Moves(a, t, i, p)
  PROVE  /\ owner' = [owner EXCEPT ![t] = i] /\ pOwner' = [pOwner EXCEPT ![t] = p]
         /\ token_state' = [token_state EXCEPT ![t] = "traded"] /\ issued_to' = issued_to
         /\ owner[t] \in Investors /\ pOwner[t] \in Investors
         /\ \E v \in DOMAIN wallets[owner[t]], w \in DOMAIN wallets[i] :
              wallets' = Filed(t, v, i, w)
BY DEF Moves, TransferOwnership, NewParty, TypeOK

\* The type of a token's titles, when they are written together.
LEMMA WrittenTitles ==
  ASSUME TypeOK, NEW t \in Tokens, NEW i \in Investors, NEW p \in Investors,
         NEW s \in {"minted", "traded"},
         token_state' = [token_state EXCEPT ![t] = s],
         owner' = [owner EXCEPT ![t] = i], pOwner' = [pOwner EXCEPT ![t] = p],
         issued_to' = issued_to \/ issued_to' = [issued_to EXCEPT ![t] = i]
  PROVE  /\ token_state' \in [Tokens -> {"none", "minted", "traded"}]
         /\ owner' \in [Tokens -> Investors \cup {Nobody}]
         /\ pOwner' \in [Tokens -> Investors \cup {Nobody}]
         /\ issued_to' \in [Tokens -> Investors \cup {Nobody}]
         /\ \A u \in Tokens : token_state'[u] # "none" <=> owner'[u] # Nobody
         /\ \A u \in Tokens : token_state'[u] # "none" <=> pOwner'[u] # Nobody
<1>1. s # "none" /\ i # Nobody /\ p # Nobody
  BY NobodyAssumption
<1>2. /\ token_state' \in [Tokens -> {"none", "minted", "traded"}]
      /\ owner' \in [Tokens -> Investors \cup {Nobody}]
      /\ pOwner' \in [Tokens -> Investors \cup {Nobody}]
      /\ issued_to' \in [Tokens -> Investors \cup {Nobody}]
  BY DEF TypeOK
<1>3. ASSUME NEW u \in Tokens
      PROVE  /\ token_state'[u] # "none" <=> owner'[u] # Nobody
             /\ token_state'[u] # "none" <=> pOwner'[u] # Nobody
  BY <1>1 DEF TypeOK
<1> QED
  BY <1>2, <1>3

LEMMA TypeOfCreation ==
  ASSUME TypeOK, NEW t \in Tokens, NEW i \in Investors, CreateToken(t, i)
  PROVE  TypeOK'
<1>1. wallets' \in [Investors -> Seq(SUBSET Tokens)]
  <2>1. PICK w \in DOMAIN wallets[i] : wallets' = [wallets EXCEPT ![i][w] = @ \cup {t}]
    BY DEF CreateToken
  <2> QED
    BY <2>1, AddedType DEF TypeOK
<1>2. /\ token_state' = [token_state EXCEPT ![t] = "minted"]
      /\ owner' = [owner EXCEPT ![t] = i] /\ pOwner' = [pOwner EXCEPT ![t] = i]
      /\ issued_to' = [issued_to EXCEPT ![t] = i]
      /\ UNCHANGED <<whitelisted, status, terms, overdue>>
  BY DEF CreateToken
<1>3. /\ token_state' \in [Tokens -> {"none", "minted", "traded"}]
      /\ owner' \in [Tokens -> Investors \cup {Nobody}]
      /\ pOwner' \in [Tokens -> Investors \cup {Nobody}]
      /\ issued_to' \in [Tokens -> Investors \cup {Nobody}]
      /\ \A u \in Tokens : token_state'[u] # "none" <=> owner'[u] # Nobody
      /\ \A u \in Tokens : token_state'[u] # "none" <=> pOwner'[u] # Nobody
  BY <1>2, WrittenTitles
<1> QED
  BY <1>1, <1>2, <1>3 DEF TypeOK, terms

LEMMA TypeOfExecution ==
  ASSUME TypeOK, Executes
  PROVE  /\ wallets' \in [Investors -> Seq(SUBSET Tokens)]
         /\ token_state' \in [Tokens -> {"none", "minted", "traded"}]
         /\ owner' \in [Tokens -> Investors \cup {Nobody}]
         /\ pOwner' \in [Tokens -> Investors \cup {Nobody}]
         /\ issued_to' \in [Tokens -> Investors \cup {Nobody}]
         /\ \A u \in Tokens : token_state'[u] # "none" <=> owner'[u] # Nobody
         /\ \A u \in Tokens : token_state'[u] # "none" <=> pOwner'[u] # Nobody
<1>1. PICK a \in Trades, t \in Tokens, i \in Investors, p \in Investors : Moves(a, t, i, p)
  BY DEF Executes
<1>2. /\ owner' = [owner EXCEPT ![t] = i] /\ pOwner' = [pOwner EXCEPT ![t] = p]
      /\ token_state' = [token_state EXCEPT ![t] = "traded"] /\ issued_to' = issued_to
      /\ owner[t] \in Investors
      /\ \E v \in DOMAIN wallets[owner[t]], w \in DOMAIN wallets[i] :
           wallets' = Filed(t, v, i, w)
  BY <1>1, MovedTitles
<1>3. wallets' \in [Investors -> Seq(SUBSET Tokens)]
  BY <1>2, FiledWallets
<1> QED
  BY <1>2, <1>3, WrittenTitles

LEMMA TypeOfInvestors == TypeOK /\ InvestorsStep => TypeOK'
<1> SUFFICES ASSUME TypeOK, InvestorsStep PROVE TypeOK'
  OBVIOUS
<1> USE DEF TypeOK
<1>1. PICK i \in Investors : \/ SelectInvestor(i)
                            \/ AddWhitelistedInvestor(i)
                            \/ RemoveWhitelistedInvestor(i)
  BY DEF InvestorsStep
<1>2. CASE SelectInvestor(i)
  <2>1. Append(wallets[i], {}) \in Seq(SUBSET Tokens)
    OBVIOUS
  <2> QED
    BY <1>2, <2>1 DEF SelectInvestor, title, terms
<1>3. CASE AddWhitelistedInvestor(i) \/ RemoveWhitelistedInvestor(i)
  BY <1>3 DEF AddWhitelistedInvestor, RemoveWhitelistedInvestor, title, terms
<1> QED
  BY <1>1, <1>2, <1>3

LEMMA TypeOfTrade ==
  ASSUME TypeOK, NEW a \in Trades, TradeStep(a)
  PROVE  TypeOK'
<1>1. CASE \E t \in Tokens, i \in Investors : CreateTrade(a, t, i)
  BY <1>1 DEF CreateTrade, Exists, TypeOK, title, Open
<1>2. CASE \E t \in Tokens, i \in Investors : OnChainTransfer(a, t, i)
  <2>1. PICK t \in Tokens, i \in Investors : OnChainTransfer(a, t, i)
    BY <1>2
  <2>2. pOwner[t] \in Investors
    BY <2>1 DEF OnChainTransfer, Exists, TypeOK
  <2>3. Executes
    BY <2>1, OnChainMoves
  <2>4. /\ status' = [status EXCEPT ![a] = "executed"]
        /\ token' = [token EXCEPT ![a] = t] /\ buyer' = [buyer EXCEPT ![a] = i]
        /\ pBuyer' = [pBuyer EXCEPT ![a] = i] /\ pSeller' = [pSeller EXCEPT ![a] = pOwner[t]]
        /\ UNCHANGED <<whitelisted, overdue>>
    BY <2>1 DEF OnChainTransfer, BecomeExecuted
  <2> QED
    BY <2>2, <2>3, <2>4, TypeOfExecution DEF TypeOK
<1>3. CASE \E p \in Rebinders : SetBuyer(a, p) \/ SetSeller(a, p)
  <2>1. PICK p \in Investors : SetBuyer(a, p) \/ SetSeller(a, p)
    BY <1>3, RebindersAssumption
  <2>2. CASE SetBuyer(a, p)
    BY <2>2 DEF SetBuyer, TypeOK, title
  <2>3. CASE SetSeller(a, p)
    BY <2>3 DEF SetSeller, TypeOK, title
  <2> QED
    BY <2>1, <2>2, <2>3
<1>4. CASE \E s \in Open : FirstConsent(a, s)
  BY <1>4 DEF FirstConsent, TypeOK, title, terms
<1>5. CASE \E s \in Open : SecondConsent(a, s)
  <2>1. Executes
    BY <1>5, SecondConsentMoves
  <2>2. status' = [status EXCEPT ![a] = "executed"] /\ UNCHANGED <<whitelisted, terms, overdue>>
    BY <1>5 DEF SecondConsent, BecomeExecuted
  <2> QED
    BY <2>1, <2>2, TypeOfExecution DEF TypeOK, terms
<1>6. CASE DeadlinePasses(a) \/ Reject(a)
  BY <1>6 DEF DeadlinePasses, Reject, TypeOK, title, terms
<1> QED
  BY <1>1, <1>2, <1>3, <1>4, <1>5, <1>6 DEF TradeStep, BuyerAgree, SellerAgree, Open

LEMMA TypeStep == TypeOK /\ [Next]_vars => TypeOK'
<1> SUFFICES ASSUME TypeOK, [Next]_vars PROVE TypeOK'
  OBVIOUS
<1>1. CASE TokenStep
  BY <1>1, TypeOfCreation DEF TokenStep
<1>2. CASE UNCHANGED vars
  BY <1>2 DEF vars, title, terms, TypeOK
<1> QED
  BY <1>1, <1>2, TypeOfInvestors, TypeOfTrade DEF Next

\* Investors, tokens and agreements keep the types the protocols declare, and
\* a token exists exactly when it has an owner and a party.
THEOREM TypeCorrect == Spec => []TypeOK
BY TypeInit, TypeStep, PTL DEF Spec

-----------------------------------------------------------------------------
(* Wallets.                                                                *)

LEMMA WalletsStep == TypeOK /\ TypeOK' /\ WalletsFollowOwners /\ [Next]_vars => WalletsFollowOwners'
<1> SUFFICES ASSUME TypeOK, TypeOK', WalletsFollowOwners, [Next]_vars,
                    NEW u \in Tokens, NEW j \in Investors
             PROVE  /\ owner'[u] = j => Holding(j, u)' # {}
                    /\ owner'[u] # j /\ Holding(j, u)' # {} => Len(wallets'[j]) > 1
  BY DEF WalletsFollowOwners
<1>0. /\ owner[u] = j => \E k \in DOMAIN wallets[j] : u \in wallets[j][k]
      /\ \A k \in DOMAIN wallets[j] :
           owner[u] # j /\ u \in wallets[j][k] => Len(wallets[j]) > 1
  BY DEF WalletsFollowOwners, Holding
<1> SUFFICES /\ owner'[u] = j => \E k \in DOMAIN wallets'[j] : u \in wallets'[j][k]
             /\ \A k \in DOMAIN wallets'[j] :
                  owner'[u] # j /\ u \in wallets'[j][k] => Len(wallets'[j]) > 1
  BY DEF Holding
<1>1. wallets[j] \in Seq(SUBSET Tokens) /\ wallets'[j] \in Seq(SUBSET Tokens)
  BY DEF TypeOK
<1>2. CASE owner' = owner /\ wallets' = wallets
  BY <1>0, <1>2
<1>3. CASE \E i \in Investors : SelectInvestor(i)
  <2>1. PICK i \in Investors : SelectInvestor(i)
    BY <1>3
  <2>2. owner' = owner /\ wallets' = [wallets EXCEPT ![i] = Append(@, {})]
    BY <2>1 DEF SelectInvestor, title
  <2>3. CASE i # j
    BY <1>0, <2>2, <2>3 DEF TypeOK
  <2>4. CASE i = j
    <3>1. wallets'[j] = Append(wallets[j], {})
      BY <2>2, <2>4 DEF TypeOK
    <3>2. /\ DOMAIN wallets'[j] = DOMAIN wallets[j] \cup {Len(wallets[j]) + 1}
          /\ Len(wallets'[j]) = Len(wallets[j]) + 1 /\ Len(wallets[j]) \in Nat
          /\ \A k \in DOMAIN wallets[j] : wallets'[j][k] = wallets[j][k]
          /\ wallets'[j][Len(wallets[j]) + 1] = {}
      BY <1>1, <3>1
    <3> QED
      BY <1>0, <2>2, <3>2
  <2> QED
    BY <2>3, <2>4
<1>4. CASE Creates
  <2>1. PICK t \in Tokens, i \in Investors : CreateToken(t, i)
    BY <1>4 DEF Creates
  <2>2. PICK w \in DOMAIN wallets[i] : wallets' = [wallets EXCEPT ![i][w] = @ \cup {t}]
    BY <2>1 DEF CreateToken
  <2>3. owner' = [owner EXCEPT ![t] = i] /\ owner[t] = Nobody
    BY <2>1 DEF CreateToken, Exists, TypeOK
  <2>4. \A k \in Investors : DOMAIN wallets'[k] = DOMAIN wallets[k]
    BY <2>2, AddedType DEF TypeOK
  <2>5. /\ t \in wallets'[i][w]
        /\ \A k \in DOMAIN wallets[j] :
             (u # t \/ j # i) => (u \in wallets'[j][k] <=> u \in wallets[j][k])
    BY <2>2 DEF TypeOK
  <2>6. Len(wallets'[j]) = Len(wallets[j])
    BY <1>1, <2>4
  <2>7. CASE u = t /\ j = i
    BY <2>3, <2>4, <2>5, <2>7 DEF TypeOK
  <2>8. CASE u = t /\ j # i
    <3>1. owner[u] # j
      BY <2>3, <2>8, NobodyAssumption
    <3>2. owner'[u] # j
      BY <2>3, <2>8 DEF TypeOK
    <3> QED
      BY <1>0, <2>4, <2>5, <2>6, <2>8, <3>1, <3>2
  <2>9. CASE u # t
    <3>1. owner'[u] = owner[u]
      BY <2>3, <2>9 DEF TypeOK
    <3> QED
      BY <1>0, <2>4, <2>5, <2>6, <2>9, <3>1
  <2> QED
    BY <2>7, <2>8, <2>9
<1>5. CASE Executes
  <2>1. PICK a \in Trades, t \in Tokens, i \in Investors, p \in Investors : Moves(a, t, i, p)
    BY <1>5 DEF Executes
  <2>2. owner' = [owner EXCEPT ![t] = i] /\ owner[t] \in Investors
    BY <2>1, MovedTitles
  <2>3. PICK v \in DOMAIN wallets[owner[t]], w \in DOMAIN wallets[i] :
          wallets' = Filed(t, v, i, w)
    BY <2>1, MovedTitles
  <2>4. /\ \A k \in Investors : DOMAIN wallets'[k] = DOMAIN wallets[k]
        /\ t \in wallets'[i][w]
        /\ owner[t] # i => t \notin wallets'[owner[t]][v]
        /\ \A k \in DOMAIN wallets[j] :
             (u # t \/ j \notin {i, owner[t]}) =>
               (u \in wallets'[j][k] <=> u \in wallets[j][k])
    BY <2>2, <2>3, FiledWallets
  <2>5. DOMAIN wallets'[j] = DOMAIN wallets[j] /\ Len(wallets'[j]) = Len(wallets[j])
    BY <1>1, <2>4
  <2>6. CASE u # t \/ j \notin {i, owner[t]}
    BY <1>0, <2>2, <2>4, <2>5, <2>6 DEF TypeOK
  <2>7. CASE u = t /\ j = i
    BY <2>2, <2>4, <2>7 DEF TypeOK
  <2>8. CASE u = t /\ j = owner[t] /\ j # i
    <3>1. owner'[u] # j
      BY <2>2, <2>8 DEF TypeOK
    <3>2. v \in DOMAIN wallets'[j] /\ t \notin wallets'[j][v]
      BY <2>4, <2>5, <2>8
    <3>3. \A k \in DOMAIN wallets'[j] : k # v => Len(wallets'[j]) > 1
      BY <1>1, <3>2
    <3> QED
      BY <2>8, <3>1, <3>2, <3>3
  <2> QED
    BY <2>6, <2>7, <2>8
<1> QED
  BY <1>2, <1>3, <1>4, <1>5, StepKinds DEF LeavesTitles, title

\* A token lies in a wallet of its owner, and in another investor's wallet only
\* if he was selected more than once.
THEOREM WalletsFollow == Spec => []WalletsFollowOwners
<1>1. Init => WalletsFollowOwners
  BY NobodyAssumption DEF Init, WalletsFollowOwners, Holding
<1> QED
  BY <1>1, TypeCorrect, WalletsStep, PTL DEF Spec

-----------------------------------------------------------------------------
(* Who disposes of a token.                                                *)

LEMMA DisposeStep == TypeOK /\ OwnersDispose /\ [Next]_vars => OwnersDispose'
<1> SUFFICES ASSUME TypeOK, OwnersDispose, [Next]_vars, NEW u \in Tokens,
                    pOwner'[u] # owner'[u]
             PROVE  \E a \in Trades : /\ status'[a] = "executed" /\ token'[a] = u
                                     /\ buyer'[a] = owner'[u] /\ pBuyer'[a] = pOwner'[u]
  BY DEF OwnersDispose, Executed
<1>1. pOwner[u] # owner[u] =>
        \E a \in Trades : /\ status[a] = "executed" /\ token[a] = u
                         /\ buyer[a] = owner[u] /\ pBuyer[a] = pOwner[u]
  BY DEF OwnersDispose, Executed
<1>2. CASE LeavesTitles
  BY <1>1, <1>2 DEF LeavesTitles, ExecutedStay, title
<1>3. CASE Creates
  <2>1. PICK t \in Tokens, i \in Investors : CreateToken(t, i)
    BY <1>3 DEF Creates
  <2>2. /\ owner' = [owner EXCEPT ![t] = i] /\ pOwner' = [pOwner EXCEPT ![t] = i]
        /\ UNCHANGED <<status, token, buyer, pBuyer>>
    BY <2>1 DEF CreateToken, terms
  <2> QED
    BY <1>1, <2>2 DEF TypeOK
<1>4. CASE Executes
  <2>1. PICK a \in Trades, t \in Tokens, i \in Investors, p \in Investors : Moves(a, t, i, p)
    BY <1>4 DEF Executes
  <2>2. owner' = [owner EXCEPT ![t] = i] /\ pOwner' = [pOwner EXCEPT ![t] = p]
    BY <2>1, MovedTitles
  <2>3. CASE u = t
    BY <2>1, <2>2, <2>3 DEF Moves, TypeOK
  <2>4. CASE u # t
    BY <1>1, <2>1, <2>2, <2>4 DEF Moves, TypeOK
  <2> QED
    BY <2>3, <2>4
<1> QED
  BY <1>2, <1>3, <1>4, StepKinds

\* A token is at the disposal of its owner's party, or of the party that had
\* taken the place of the buyer.
THEOREM Dispose == Spec => []OwnersDispose
<1>1. Init => OwnersDispose
  BY DEF Init, OwnersDispose
<1> QED
  BY <1>1, TypeCorrect, DisposeStep, PTL DEF Spec

-----------------------------------------------------------------------------
(* The chain of title.  The invariant that carries the proof adds that a   *)
(* token that does not exist was issued to nobody.                         *)

IssuedOnce == \A t \in Tokens : token_state[t] = "none" => issued_to[t] = Nobody

ChainInv == IssuedOnce /\ ChainOfTitle

LEMMA BooksAreFinite ==
  ASSUME NEW S \in SUBSET Trades
  PROVE  IsFiniteSet(S) /\ Cardinality(S) \in Nat
BY FS_Subset, FS_CardinalityType, BoundsAssumption

\* One more agreement counts once, where it belongs to the party.
LEMMA OneMore ==
  ASSUME NEW S \in SUBSET Trades, NEW R \in SUBSET Trades, NEW a \in Trades, a \notin S,
         NEW b \in BOOLEAN, R = IF b THEN S \cup {a} ELSE S
  PROVE  Cardinality(R) = Cardinality(S) + Once(b)
<1>1. IsFiniteSet(S) /\ Cardinality(S) \in Nat
  BY BooksAreFinite
<1>2. CASE b
  BY <1>1, <1>2, FS_AddElement DEF Once
<1>3. CASE ~ b
  BY <1>1, <1>3 DEF Once
<1> QED
  BY <1>2, <1>3

\* The books of a token whose agreements stay as they are.
LEMMA BooksStay ==
  ASSUME NEW u \in Tokens, NEW p \in Investors,
         \A a \in Trades :
           (status'[a] = "executed" /\ token'[a] = u) <=> (status[a] = "executed" /\ token[a] = u),
         \A a \in Trades :
           status[a] = "executed" /\ token[a] = u =>
             pBuyer'[a] = pBuyer[a] /\ pSeller'[a] = pSeller[a]
  PROVE  Bought(u, p)' = Bought(u, p) /\ Sold(u, p)' = Sold(u, p)
BY DEF Bought, Sold, Executed

LEMMA ChainOfMoved ==
  ASSUME TypeOK, ChainInv, NEW a \in Trades, NEW t \in Tokens, NEW i \in Investors,
         NEW p \in Investors, Moves(a, t, i, p), NEW q \in Investors
  PROVE  Cardinality(Bought(t, q)') + Once(issued_to'[t] = q)
           = Cardinality(Sold(t, q)') + Once(pOwner'[t] = q)
<1>1. /\ issued_to' = issued_to /\ pOwner'[t] = p
  BY MovedTitles DEF TypeOK
<1>2. /\ Bought(t, q) \in SUBSET Trades /\ Sold(t, q) \in SUBSET Trades
      /\ Bought(t, q)' \in SUBSET Trades /\ Sold(t, q)' \in SUBSET Trades
      /\ a \notin Bought(t, q) /\ a \notin Sold(t, q)
  BY DEF Bought, Sold, Executed, Moves
<1>3. Bought(t, q)' = IF p = q THEN Bought(t, q) \cup {a} ELSE Bought(t, q)
  BY DEF Bought, Executed, Moves
<1>4. Sold(t, q)' = IF pOwner[t] = q THEN Sold(t, q) \cup {a} ELSE Sold(t, q)
  BY DEF Sold, Executed, Moves
<1>5. (p = q) \in BOOLEAN /\ (pOwner[t] = q) \in BOOLEAN
  OBVIOUS
<1>6. Cardinality(Bought(t, q)') = Cardinality(Bought(t, q)) + Once(p = q)
  BY <1>2, <1>3, <1>5, OneMore
<1>7. Cardinality(Sold(t, q)') = Cardinality(Sold(t, q)) + Once(pOwner[t] = q)
  BY <1>2, <1>4, <1>5, OneMore
<1>8. Cardinality(Bought(t, q)) + Once(issued_to[t] = q)
        = Cardinality(Sold(t, q)) + Once(pOwner[t] = q)
  BY DEF ChainInv, ChainOfTitle
<1>9. /\ Cardinality(Bought(t, q)) \in Nat /\ Cardinality(Sold(t, q)) \in Nat
      /\ Once(p = q) \in Nat /\ Once(pOwner[t] = q) \in Nat /\ Once(issued_to[t] = q) \in Nat
  BY <1>2, BooksAreFinite DEF Once
<1> QED
  BY <1>1, <1>6, <1>7, <1>8, <1>9

LEMMA IssuedOnceStep == TypeOK /\ IssuedOnce /\ [Next]_vars => IssuedOnce'
<1> SUFFICES ASSUME TypeOK, IssuedOnce, [Next]_vars, NEW u \in Tokens, token_state'[u] = "none"
             PROVE  issued_to'[u] = Nobody
  BY DEF IssuedOnce
<1>1. CASE LeavesTitles
  BY <1>1 DEF LeavesTitles, title, IssuedOnce
<1>2. CASE Creates
  BY <1>2 DEF Creates, CreateToken, TypeOK, IssuedOnce
<1>3. CASE Executes
  <2>1. PICK a \in Trades, t \in Tokens, i \in Investors, p \in Investors : Moves(a, t, i, p)
    BY <1>3 DEF Executes
  <2>2. token_state' = [token_state EXCEPT ![t] = "traded"] /\ issued_to' = issued_to
    BY <2>1, MovedTitles
  <2> QED
    BY <2>2 DEF TypeOK, IssuedOnce
<1> QED
  BY <1>1, <1>2, <1>3, StepKinds

LEMMA ChainStep == TypeOK /\ ChainInv /\ [Next]_vars => ChainInv'
<1> SUFFICES ASSUME TypeOK, ChainInv, [Next]_vars PROVE ChainInv'
  OBVIOUS
<1>1. IssuedOnce'
  BY IssuedOnceStep DEF ChainInv
<1>2. ASSUME NEW u \in Tokens, NEW q \in Investors
      PROVE  Cardinality(Bought(u, q)') + Once(issued_to'[u] = q)
               = Cardinality(Sold(u, q)') + Once(pOwner'[u] = q)
  <2>1. Cardinality(Bought(u, q)) + Once(issued_to[u] = q)
          = Cardinality(Sold(u, q)) + Once(pOwner[u] = q)
    BY DEF ChainInv, ChainOfTitle
  <2>2. CASE LeavesTitles
    <3>1. Bought(u, q)' = Bought(u, q) /\ Sold(u, q)' = Sold(u, q)
      BY <2>2, BooksStay DEF LeavesTitles, ExecutedStay, NobodyExecutes
    <3> QED
      BY <2>1, <2>2, <3>1 DEF LeavesTitles, title
  <2>3. CASE Creates
    <3>1. PICK t \in Tokens, i \in Investors : CreateToken(t, i)
      BY <2>3 DEF Creates
    <3>2. /\ UNCHANGED <<status, token, buyer, pBuyer, pSeller>>
          /\ pOwner' = [pOwner EXCEPT ![t] = i] /\ issued_to' = [issued_to EXCEPT ![t] = i]
          /\ token_state[t] = "none"
      BY <3>1 DEF CreateToken, terms, Exists
    <3>3. Bought(u, q)' = Bought(u, q) /\ Sold(u, q)' = Sold(u, q)
      BY <3>2, BooksStay
    <3>4. CASE u # t
      BY <2>1, <3>2, <3>3, <3>4 DEF TypeOK
    <3>5. CASE u = t
      <4>1. issued_to[t] # q /\ pOwner[t] # q
        BY <3>2, NobodyAssumption DEF ChainInv, IssuedOnce, TypeOK
      <4>2. Cardinality(Bought(u, q)) = Cardinality(Sold(u, q))
        <5>1. Bought(u, q) \in SUBSET Trades /\ Sold(u, q) \in SUBSET Trades
          BY DEF Bought, Sold, Executed
        <5>2. Cardinality(Bought(u, q)) \in Nat /\ Cardinality(Sold(u, q)) \in Nat
          BY <5>1, BooksAreFinite
        <5> QED
          BY <2>1, <3>5, <4>1, <5>2 DEF Once
      <4> QED
        BY <3>2, <3>3, <3>5, <4>2 DEF TypeOK
    <3> QED
      BY <3>4, <3>5
  <2>4. CASE Executes
    <3>1. PICK a \in Trades, t \in Tokens, i \in Investors, p \in Investors : Moves(a, t, i, p)
      BY <2>4 DEF Executes
    <3>2. CASE u = t
      BY <3>1, <3>2, ChainOfMoved
    <3>3. CASE u # t
      <4>1. Bought(u, q)' = Bought(u, q) /\ Sold(u, q)' = Sold(u, q)
        BY <3>1, <3>3, BooksStay DEF Moves
      <4>2. issued_to'[u] = issued_to[u] /\ pOwner'[u] = pOwner[u]
        BY <3>1, <3>3, MovedTitles DEF TypeOK
      <4> QED
        BY <2>1, <4>1, <4>2
    <3> QED
      BY <3>2, <3>3
  <2> QED
    BY <2>2, <2>3, <2>4, StepKinds
<1> QED
  BY <1>1, <1>2 DEF ChainInv, ChainOfTitle

\* The executed agreements of a token are an unbroken chain from the party it
\* was issued to, to the party that has it.
THEOREM Chained == Spec => []ChainOfTitle
<1>1. Init => ChainInv
  <2> SUFFICES ASSUME Init PROVE ChainInv
    OBVIOUS
  <2>1. \A t \in Tokens, p \in Investors : /\ Bought(t, p) = {} /\ Sold(t, p) = {}
                                          /\ issued_to[t] # p /\ pOwner[t] # p
    BY NobodyAssumption DEF Init, Bought, Sold, Executed
  <2> QED
    BY <2>1 DEF Init, ChainInv, IssuedOnce, ChainOfTitle
<1>2. ChainInv => ChainOfTitle
  BY DEF ChainInv
<1> QED
  BY <1>1, <1>2, TypeCorrect, ChainStep, PTL DEF Spec

-----------------------------------------------------------------------------
(* What steps may not do.                                                  *)

\* A token passes only to an investor who is on the whitelist at that moment.
THEOREM Whitelisted == Spec => ReceiversAreWhitelisted
<1>1. ASSUME TypeOK, [Next]_vars, NEW t \in Tokens, Exists(t), owner'[t] # owner[t]
      PROVE  owner'[t] \in whitelisted
  <2>1. ~ LeavesTitles
    BY <1>1 DEF LeavesTitles, title
  <2>2. ~ Creates
    BY <1>1 DEF Creates, CreateToken, TypeOK
  <2>3. PICK a \in Trades, u \in Tokens, i \in Investors, p \in Investors : Moves(a, u, i, p)
    BY <1>1, <2>1, <2>2, StepKinds DEF Executes
  <2>4. owner' = [owner EXCEPT ![u] = i]
    BY <1>1, <2>3, MovedTitles
  <2>5. i \in whitelisted
    BY <2>3 DEF Moves, MayReceive
  <2> QED
    BY <1>1, <2>4, <2>5 DEF TypeOK
<1>2. TypeOK /\ [Next]_vars =>
        [\A t \in Tokens : Exists(t) /\ owner'[t] # owner[t] => owner'[t] \in whitelisted]_vars
  BY <1>1
<1> QED
  BY <1>2, TypeCorrect, PTL DEF Spec, ReceiversAreWhitelisted

-----------------------------------------------------------------------------
(* The refinement: a step of the secondary market is a step of a deal, or  *)
(* none.                                                                   *)

\* What the states of an agreement stand for.
LEMMA StatesAsDeals ==
  /\ Outcome("none") = "none" /\ Consents("none") = {}
  /\ Outcome("created") = "open" /\ Consents("created") = {}
  /\ Outcome("buyerAgreed") = "open" /\ Consents("buyerAgreed") = {"buyer"}
  /\ Outcome("sellerAgreed") = "open" /\ Consents("sellerAgreed") = {"seller"}
  /\ Outcome("executed") = "settled" /\ Consents("executed") = {"buyer", "seller"}
  /\ Outcome("rejected") = "void" /\ Consents("rejected") = {}
BY DEF Outcome, Consents, Open

\* The deals after the state of one agreement has changed.
LEMMA DealsFollow ==
  ASSUME TypeOK, NEW a \in Trades, NEW s, status' = [status EXCEPT ![a] = s]
  PROVE  /\ [b \in Trades |-> Outcome(status'[b])]
               = [[b \in Trades |-> Outcome(status[b])] EXCEPT ![a] = Outcome(s)]
         /\ [b \in Trades |-> Consents(status'[b])]
               = [[b \in Trades |-> Consents(status[b])] EXCEPT ![a] = Consents(s)]
BY DEF TypeOK

\* Where the consents stay the same.
LEMMA ConsentsStay ==
  ASSUME TypeOK, NEW a \in Trades, NEW s, status' = [status EXCEPT ![a] = s],
         Consents(s) = Consents(status[a])
  PROVE  [b \in Trades |-> Consents(status'[b])] = [b \in Trades |-> Consents(status[b])]
BY DEF TypeOK

LEMMA TitlesInit == Init => Titles!Init
<1> SUFFICES ASSUME Init PROVE Titles!Init
  OBVIOUS
<1>1. \A a \in Trades : Outcome(status[a]) = "none" /\ Consents(status[a]) = {}
  BY StatesAsDeals DEF Init
<1>2. token \in [Trades -> Tokens]
  BY DEF Init
<1> QED
  BY <1>1, <1>2 DEF Init, Titles!Init

\* Making an agreement opens a deal.
LEMMA CreationOpens ==
  ASSUME TypeOK, NEW a \in Trades, NEW t \in Tokens, NEW i \in Investors, CreateTrade(a, t, i)
  PROVE  Titles!Open(a, t)
<1>1. /\ status[a] = "none" /\ status' = [status EXCEPT ![a] = "created"]
      /\ token' = [token EXCEPT ![a] = t] /\ pOwner[t] # Nobody /\ pOwner' = pOwner
  BY DEF CreateTrade, Exists, TypeOK, title
<1>2. [b \in Trades |-> Outcome(status'[b])]
        = [[b \in Trades |-> Outcome(status[b])] EXCEPT ![a] = Outcome("created")]
  BY <1>1, DealsFollow
<1>3. [b \in Trades |-> Consents(status'[b])] = [b \in Trades |-> Consents(status[b])]
  <2>1. Consents("created") = Consents(status[a])
    BY <1>1, StatesAsDeals
  <2> QED
    BY <1>1, <2>1, ConsentsStay
<1> QED
  BY <1>1, <1>2, <1>3, StatesAsDeals DEF Titles!Open

\* A first consent is one.
LEMMA FirstConsents ==
  ASSUME TypeOK, NEW a \in Trades, NEW s \in {"buyerAgreed", "sellerAgreed"},
         FirstConsent(a, s)
  PROVE  \E side \in Titles!Sides : Titles!Consent(a, side)
<1>1. /\ status[a] = "created" /\ status' = [status EXCEPT ![a] = s]
      /\ token' = token /\ pOwner' = pOwner
  BY DEF FirstConsent, title, terms
<1>2. PICK side \in {"buyer", "seller"} : Consents(s) = {side}
  BY StatesAsDeals
<1>3. Outcome(s) = Outcome(status[a])
  BY <1>1, StatesAsDeals
<1>4. [b \in Trades |-> Outcome(status'[b])] = [b \in Trades |-> Outcome(status[b])]
  BY <1>1, <1>3 DEF TypeOK
<1>5. [b \in Trades |-> Consents(status'[b])]
        = [[b \in Trades |-> Consents(status[b])] EXCEPT ![a] = Consents(s)]
  BY <1>1, DealsFollow
<1>6. Titles!Consent(a, side)
  BY <1>1, <1>2, <1>4, <1>5, StatesAsDeals DEF Titles!Consent
<1> QED
  BY <1>6 DEF Titles!Sides

\* The second consent settles the deal.
LEMMA SecondConsentSettles ==
  ASSUME TypeOK, NEW a \in Trades, NEW s \in {"buyerAgreed", "sellerAgreed"},
         SecondConsent(a, s)
  PROVE  Titles!Settle(a, pBuyer[a])
<1>1. /\ status[a] = s /\ status' = [status EXCEPT ![a] = "executed"]
      /\ token' = token /\ pOwner' = [pOwner EXCEPT ![token[a]] = pBuyer[a]]
  BY DEF SecondConsent, BecomeExecuted, TransferOwnership, NewParty, terms
<1>2. /\ [b \in Trades |-> Outcome(status'[b])]
           = [[b \in Trades |-> Outcome(status[b])] EXCEPT ![a] = Outcome("executed")]
      /\ [b \in Trades |-> Consents(status'[b])]
           = [[b \in Trades |-> Consents(status[b])] EXCEPT ![a] = Consents("executed")]
  BY <1>1, DealsFollow
<1>3. /\ Outcome(status[a]) = "open" /\ Consents(status[a]) # {}
      /\ Outcome("executed") = "settled" /\ Consents("executed") = {"buyer", "seller"}
  BY <1>1, StatesAsDeals
<1> QED
  BY <1>1, <1>2, <1>3 DEF Titles!Settle, Titles!Sides

\* An agreement made on the chain is recorded.
LEMMA OnChainRecords ==
  ASSUME TypeOK, NEW a \in Trades, NEW t \in Tokens, NEW i \in Investors,
         OnChainTransfer(a, t, i)
  PROVE  Titles!Record(a, t, i)
<1>1. /\ status[a] = "none" /\ status' = [status EXCEPT ![a] = "executed"]
      /\ token' = [token EXCEPT ![a] = t] /\ pOwner' = [pOwner EXCEPT ![t] = i]
      /\ pOwner[t] # Nobody
  BY DEF OnChainTransfer, BecomeExecuted, TransferOwnership, NewParty, Exists, TypeOK
<1>2. /\ [b \in Trades |-> Outcome(status'[b])]
           = [[b \in Trades |-> Outcome(status[b])] EXCEPT ![a] = Outcome("executed")]
      /\ [b \in Trades |-> Consents(status'[b])]
           = [[b \in Trades |-> Consents(status[b])] EXCEPT ![a] = Consents("executed")]
  BY <1>1, DealsFollow
<1>3. /\ Outcome(status[a]) = "none"
      /\ Outcome("executed") = "settled" /\ Consents("executed") = {"buyer", "seller"}
  BY <1>1, StatesAsDeals
<1> QED
  BY <1>1, <1>2, <1>3 DEF Titles!Record, Titles!Sides

\* A rejected agreement is a void deal.
LEMMA RejectionVoids ==
  ASSUME TypeOK, NEW a \in Trades, Reject(a)
  PROVE  Titles!Void(a)
<1>1. /\ status[a] \in Open /\ status' = [status EXCEPT ![a] = "rejected"]
      /\ token' = token /\ pOwner' = pOwner
  BY DEF Reject, Obliged, title, terms
<1>2. Outcome(status[a]) = "open"
  BY <1>1, StatesAsDeals DEF Open
<1>3. /\ [b \in Trades |-> Outcome(status'[b])]
           = [[b \in Trades |-> Outcome(status[b])] EXCEPT ![a] = Outcome("rejected")]
      /\ [b \in Trades |-> Consents(status'[b])]
           = [[b \in Trades |-> Consents(status[b])] EXCEPT ![a] = Consents("rejected")]
  BY <1>1, DealsFollow
<1> QED
  BY <1>1, <1>2, <1>3, StatesAsDeals DEF Titles!Void

deals == <<pOwner, [a \in Trades |-> Outcome(status[a])], token,
           [a \in Trades |-> Consents(status[a])]>>

LEMMA TitlesStep == TypeOK /\ [Next]_vars => Titles!Next \/ UNCHANGED deals
<1> SUFFICES ASSUME TypeOK, [Next]_vars PROVE Titles!Next \/ UNCHANGED deals
  OBVIOUS
<1>1. CASE UNCHANGED vars \/ InvestorsStep
  <2>1. UNCHANGED <<pOwner, status, token>>
    BY <1>1 DEF vars, title, terms, InvestorsStep, SelectInvestor, AddWhitelistedInvestor,
                RemoveWhitelistedInvestor
  <2> QED
    BY <2>1 DEF deals
<1>2. CASE TokenStep
  <2>1. PICK t \in Tokens, i \in Investors : CreateToken(t, i)
    BY <1>2 DEF TokenStep
  <2>2. /\ pOwner[t] = Nobody /\ pOwner' = [pOwner EXCEPT ![t] = i]
        /\ UNCHANGED <<status, token>>
    BY <2>1 DEF CreateToken, Exists, TypeOK, terms
  <2>3. Titles!Issue(t, i)
    BY <2>2 DEF Titles!Issue
  <2> QED
    BY <2>3 DEF Titles!Next
<1>3. ASSUME NEW a \in Trades, TradeStep(a)
      PROVE  Titles!Next \/ UNCHANGED deals
  <2>1. CASE \E t \in Tokens, i \in Investors : CreateTrade(a, t, i)
    BY <2>1, CreationOpens DEF Titles!Next
  <2>2. CASE \E t \in Tokens, i \in Investors : OnChainTransfer(a, t, i)
    BY <2>2, OnChainRecords DEF Titles!Next
  <2>3. CASE \/ \E p \in Rebinders : SetBuyer(a, p) \/ SetSeller(a, p)
             \/ DeadlinePasses(a)
    <3>1. UNCHANGED <<pOwner, status, token>>
      BY <2>3 DEF SetBuyer, SetSeller, DeadlinePasses, title, terms
    <3> QED
      BY <3>1 DEF deals
  <2>4. CASE \E s \in {"buyerAgreed", "sellerAgreed"} : FirstConsent(a, s)
    BY <2>4, FirstConsents DEF Titles!Next
  <2>5. CASE \E s \in {"buyerAgreed", "sellerAgreed"} : SecondConsent(a, s)
    <3>1. Titles!Settle(a, pBuyer[a]) /\ pBuyer[a] \in Investors
      BY <2>5, SecondConsentSettles DEF TypeOK
    <3> QED
      BY <3>1 DEF Titles!Next
  <2>6. CASE Reject(a)
    BY <2>6, RejectionVoids DEF Titles!Next
  <2> QED
    BY <1>3, <2>1, <2>2, <2>3, <2>4, <2>5, <2>6 DEF TradeStep, BuyerAgree, SellerAgree
<1> QED
  BY <1>1, <1>2, <1>3 DEF Next

\* The secondary market implements TokenTitles.
THEOREM Refinement == Spec => ImplementsTitles
BY TitlesInit, TitlesStep, TypeCorrect, PTL DEF Spec, ImplementsTitles, Titles!Spec, deals
=============================================================================
