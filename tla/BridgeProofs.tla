---------------------------- MODULE BridgeProofs ----------------------------
(***************************************************************************)
(* Theorems about Bridge.                                                  *)
(***************************************************************************)
EXTENDS Bridge, FiniteSetTheorems, TLAPS

-----------------------------------------------------------------------------
(* Lists whose elements have no common type.                               *)

IsList(s) == s \in Seq({s[k] : k \in DOMAIN s})

LEMMA AppendedList ==
  ASSUME NEW s, IsList(s), NEW x
  PROVE  /\ IsList(Append(s, x)) /\ Len(s) \in Nat /\ DOMAIN s = 1 .. Len(s)
         /\ Len(Append(s, x)) = Len(s) + 1
         /\ DOMAIN Append(s, x) = DOMAIN s \cup {Len(s) + 1}
         /\ \A k \in DOMAIN s : Append(s, x)[k] = s[k]
         /\ Append(s, x)[Len(s) + 1] = x
<1> DEFINE S == {s[k] : k \in DOMAIN s} \cup {x}
           r == Append(s, x)
<1>1. s \in Seq(S)
  <2>1. s \in Seq({s[k] : k \in DOMAIN s})
    BY DEF IsList
  <2> QED
    BY <2>1
<1>2. /\ r \in Seq(S) /\ Len(s) \in Nat /\ DOMAIN s = 1 .. Len(s) /\ Len(r) = Len(s) + 1
      /\ \A k \in DOMAIN s : r[k] = s[k]
      /\ r[Len(s) + 1] = x
  <2> HIDE DEF S
  <2>1. x \in S
    BY DEF S
  <2> QED
    BY <1>1, <2>1
<1>3. DOMAIN r = DOMAIN s \cup {Len(s) + 1}
  BY <1>2
<1>4. r \in Seq({r[k] : k \in DOMAIN r})
  <2> HIDE DEF r
  <2> QED
    BY <1>2
<1> QED
  BY <1>2, <1>3, <1>4 DEF IsList

LEMMA ReplacedInList ==
  ASSUME NEW s, IsList(s), NEW n \in DOMAIN s, NEW x
  PROVE  IsList([s EXCEPT ![n] = x]) /\ DOMAIN [s EXCEPT ![n] = x] = DOMAIN s
<1> DEFINE r == [s EXCEPT ![n] = x]
           S == {r[k] : k \in DOMAIN s}
<1>1. Len(s) \in Nat /\ DOMAIN s = 1 .. Len(s)
  BY DEF IsList
<1>2. r = [k \in 1 .. Len(s) |-> r[k]] /\ DOMAIN r = DOMAIN s
  BY <1>1
<1>3. r \in [1 .. Len(s) -> S]
  BY <1>1, <1>2
<1>4. r \in Seq(S)
  <2> HIDE DEF r, S
  <2> QED
    BY <1>1, <1>3
<1> QED
  BY <1>2, <1>4 DEF IsList

-----------------------------------------------------------------------------
(* Deploys are only added and concluded.                                   *)

\* A record with the fields of a deploy, and of a mint where it is one.
IsDeploy(d) ==
  /\ d = [call |-> d.call, contract |-> d.contract, by |-> d.by, status |-> d.status]
  /\ d.call.kind = "mint" => d.call.to \in Accounts /\ d.call.token \in Tokens

Creation(t, a) == [kind |-> "CreateToken", account |-> a, token |-> t]

Requested(d) ==
  d.call.kind = "mint" =>
    \E i \in DOMAIN notifications : notifications[i] = Creation(d.call.token, d.call.to)

NotificationsOK ==
  /\ IsList(notifications)
  /\ \A i \in DOMAIN notifications :
       /\ notifications[i].kind \in {"CreateProject", "CreateToken", "TransferToken",
                                     "AddWhiteListedInvestor", "RemoveWhiteListedInvestor"}
       /\ notifications[i].kind = "CreateToken" =>
            \E t \in Tokens, a \in Accounts : notifications[i] = Creation(t, a)

DeploysOK ==
  /\ IsList(deploys)
  /\ \A n \in DOMAIN deploys : IsDeploy(deploys[n]) /\ Requested(deploys[n])

\* What a step may do to a deploy that was put.
Endures ==
  \A n \in DOMAIN deploys :
    /\ n \in DOMAIN deploys'
    /\ deploys'[n].call = deploys[n].call
    /\ deploys[n].status # "pending" => deploys'[n].status # "pending"

NotificationsStay ==
  \A i \in DOMAIN notifications : i \in DOMAIN notifications' /\ notifications'[i] = notifications[i]

\* A notification is added at the end.
LEMMA NotifiedList ==
  ASSUME NotificationsOK, NEW n, Notify(n),
         n.kind \in {"CreateProject", "CreateToken", "TransferToken",
                     "AddWhiteListedInvestor", "RemoveWhiteListedInvestor"},
         n.kind = "CreateToken" => \E t \in Tokens, a \in Accounts : n = Creation(t, a)
  PROVE  NotificationsOK' /\ NotificationsStay
<1>1. /\ IsList(notifications')
      /\ DOMAIN notifications' = DOMAIN notifications \cup {Len(notifications) + 1}
      /\ \A k \in DOMAIN notifications : notifications'[k] = notifications[k]
      /\ notifications'[Len(notifications) + 1] = n
  BY AppendedList DEF Notify, NotificationsOK
<1> QED
  BY <1>1 DEF NotificationsOK, NotificationsStay

\* A pending deploy is put.
LEMMA PutEndures ==
  ASSUME DeploysOK, NEW x, IsDeploy(x), Requested(x), deploys' = Append(deploys, x),
         NotificationsStay
  PROVE  DeploysOK' /\ Endures
<1>1. /\ IsList(deploys')
      /\ DOMAIN deploys' = DOMAIN deploys \cup {Len(deploys) + 1}
      /\ \A k \in DOMAIN deploys : deploys'[k] = deploys[k]
      /\ deploys'[Len(deploys) + 1] = x
  BY AppendedList DEF DeploysOK
<1>2. ASSUME NEW n \in DOMAIN deploys'
      PROVE  IsDeploy(deploys'[n]) /\ Requested(deploys[n])'
  <2>1. CASE n \in DOMAIN deploys
    BY <1>1, <2>1 DEF DeploysOK, Requested, NotificationsStay
  <2>2. CASE n = Len(deploys) + 1
    BY <1>1, <2>2 DEF Requested, NotificationsStay
  <2> QED
    BY <1>1, <2>1, <2>2
<1> QED
  BY <1>1, <1>2 DEF DeploysOK, Endures, IsDeploy

\* A deploy is concluded.
LEMMA ConcludeEndures ==
  ASSUME DeploysOK, NEW n \in DOMAIN deploys, NEW r \in {"succeeded", "failed"}, Conclude(n, r),
         NotificationsStay
  PROVE  DeploysOK' /\ Endures /\ deploys'[n].status # "pending"
<1> DEFINE d == deploys[n]
           e == [d EXCEPT !.status = r]
<1>1. deploys' = [deploys EXCEPT ![n] = e]
  BY DEF Conclude
<1>2. d = [call |-> d.call, contract |-> d.contract, by |-> d.by, status |-> d.status]
  BY DEF DeploysOK, IsDeploy
<1>3. e = [call |-> d.call, contract |-> d.contract, by |-> d.by, status |-> r]
  BY <1>2
<1>4. /\ e = [call |-> e.call, contract |-> e.contract, by |-> e.by, status |-> e.status]
      /\ e.call = d.call /\ e.status = r
  BY <1>3
<1> HIDE DEF e
<1>5. /\ IsList(deploys') /\ DOMAIN deploys' = DOMAIN deploys
      /\ \A k \in DOMAIN deploys : deploys'[k] = IF k = n THEN e ELSE deploys[k]
  <2>1. IsList(deploys)
    BY DEF DeploysOK
  <2>2. IsList(deploys') /\ DOMAIN deploys' = DOMAIN deploys
    BY <1>1, <2>1, ReplacedInList
  <2> QED
    BY <1>1, <2>2
<1>6. IsDeploy(e)
  BY <1>2, <1>3, <1>4 DEF DeploysOK, IsDeploy
<1>7. ASSUME NEW k \in DOMAIN deploys
      PROVE  IsDeploy(deploys'[k]) /\ Requested(deploys[k])'
  BY <1>4, <1>5, <1>6 DEF DeploysOK, Requested, NotificationsStay
<1>8. e.status # "pending"
  BY <1>4
<1> QED
  BY <1>4, <1>5, <1>7, <1>8 DEF DeploysOK, Endures

\* Everything a platform step adds is a notification of a known kind.
LEMMA PlatformNotifies ==
  ASSUME NotificationsOK, PlatformStep
  PROVE  NotificationsOK' /\ NotificationsStay /\ deploys' = deploys
<1>1. PICK n : /\ Notify(n)
               /\ n.kind \in {"CreateProject", "CreateToken", "TransferToken",
                              "AddWhiteListedInvestor", "RemoveWhiteListedInvestor"}
               /\ n.kind = "CreateToken" => \E t \in Tokens, a \in Accounts : n = Creation(t, a)
  <2>1. CASE \E p \in Projects, a \in Accounts : SignShareholderAgreement(p, a)
    BY <2>1 DEF SignShareholderAgreement
  <2>2. CASE \E p \in Projects, a \in Accounts : DeclineNdaAndLegReq(p, a) \/ RevokeSignature(p, a)
    BY <2>2 DEF DeclineNdaAndLegReq, RevokeSignature
  <2>3. CASE \E t \in Tokens, a \in Accounts : CreateToken(t, a)
    BY <2>3 DEF CreateToken, Creation
  <2>4. CASE \E t \in Tokens, a \in Accounts : OffChainTransfer(t, a)
    BY <2>4 DEF OffChainTransfer
  <2>5. CASE \E p \in Projects : CreateProject(p)
    BY <2>5 DEF CreateProject
  <2> QED
    BY <2>1, <2>2, <2>3, <2>4, <2>5 DEF PlatformStep
<1> QED
  BY <1>1, NotifiedList DEF PlatformStep

\* A mint is put if a token was created, for this token and its owner.
LEMMA MintFor ==
  ASSUME NotificationsOK, NEW i \in DOMAIN notifications, NEW q,
         q = DeployFor(notifications[i])
  PROVE  /\ q.kind = "mint" <=> notifications[i].kind = "CreateToken"
         /\ q.kind = "mint" => /\ notifications[i] = Creation(q.token, q.to)
                               /\ q.to \in Accounts /\ q.token \in Tokens
<1> DEFINE n == notifications[i]
<1>1. CASE n.kind = "CreateProject"
  <2>1. q = [kind |-> "install"]
    BY <1>1 DEF DeployFor
  <2> QED
    BY <1>1, <2>1
<1>2. CASE n.kind = "CreateToken"
  <2>1. q = [kind |-> "mint", to |-> n.account, token |-> n.token]
    BY <1>2 DEF DeployFor
  <2>2. PICK t \in Tokens, a \in Accounts : n = Creation(t, a)
    BY <1>2 DEF NotificationsOK
  <2> QED
    BY <1>2, <2>1, <2>2 DEF Creation
<1>3. CASE n.kind = "TransferToken"
  <2>1. q = [kind |-> "transfer", id |-> n.id, from |-> n.from, to |-> n.to]
    BY <1>3 DEF DeployFor
  <2> QED
    BY <1>3, <2>1
<1>4. CASE n.kind = "AddWhiteListedInvestor"
  <2>1. q = [kind |-> "add", account |-> n.account]
    BY <1>4 DEF DeployFor
  <2> QED
    BY <1>4, <2>1
<1>5. CASE n.kind = "RemoveWhiteListedInvestor"
  <2>1. q = [kind |-> "remove", account |-> n.account]
    BY <1>5 DEF DeployFor
  <2> QED
    BY <1>5, <2>1
<1> QED
  BY <1>1, <1>2, <1>3, <1>4, <1>5 DEF NotificationsOK

\* What the consumers put is a deploy; a mint, if a token was created.
LEMMA PutByConsumer ==
  ASSUME NotificationsOK, DeploysOK, UNCHANGED notifications,
         NEW i \in DOMAIN notifications, Put(DeployFor(notifications[i]))
  PROVE  /\ DeploysOK' /\ Endures
         /\ Len(deploys) + 1 \in DOMAIN deploys'
         /\ notifications[i].kind = "CreateToken" =>
              deploys'[Len(deploys) + 1].call.kind = "mint"
<1> DEFINE n == notifications[i]
           q == DeployFor(n)
           x == [call |-> q, contract |-> nft_contract, by |-> "API", status |-> "pending"]
<1>1. /\ q.kind = "mint" <=> n.kind = "CreateToken"
      /\ q.kind = "mint" => /\ n = Creation(q.token, q.to)
                            /\ q.to \in Accounts /\ q.token \in Tokens
  BY MintFor
<1> HIDE DEF q
<1>2. IsDeploy(x) /\ Requested(x) /\ (n.kind = "CreateToken" => x.call.kind = "mint")
  BY <1>1 DEF IsDeploy, Requested
<1>3. deploys' = Append(deploys, x)
  BY DEF Put, q
<1> HIDE DEF x
<1>4. NotificationsStay
  BY DEF NotificationsStay
<1>5. DeploysOK' /\ Endures
  BY <1>2, <1>3, <1>4, PutEndures
<1>6. Len(deploys) + 1 \in DOMAIN deploys' /\ deploys'[Len(deploys) + 1] = x
  BY <1>3, AppendedList DEF DeploysOK
<1> QED
  BY <1>2, <1>5, <1>6

-----------------------------------------------------------------------------
(* What the API remembers is about mints that were put, and what it has    *)
(* heard is about deploys the node has answered.                           *)

IsMint(n) == n \in DOMAIN deploys /\ deploys[n].call.kind = "mint"
IsAnswered(n) == n \in DOMAIN deploys /\ deploys[n].status # "pending"

UnstoredOK ==
  /\ unstored \in Seq(Nat)
  /\ \A s \in DOMAIN unstored : unstored[s] # 0 => IsMint(unstored[s])

TokensOK ==
  \A e \in deploysTokens :
    IsMint(e.hash) /\ e.tokenId = e.hash /\ e.protocolId = deploys[e.hash].call.token

EventsOK ==
  /\ processed_events \in Seq(Nat)
  /\ \A k \in DOMAIN processed_events : IsAnswered(processed_events[k])

IdsOK ==
  /\ bcId \in [Tokens -> Nat]
  /\ \A t \in Tokens :
       bcId[t] # NotAvailable =>
         IsMint(bcId[t]) /\ IsAnswered(bcId[t]) /\ deploys[bcId[t]].call.token = t

CreditInv == NotificationsOK /\ DeploysOK /\ UnstoredOK /\ TokensOK /\ EventsOK /\ IdsOK

\* It stays true of what is not written.
LEMMA Preserved ==
  ASSUME Endures
  PROVE  /\ UnstoredOK /\ unstored' = unstored => UnstoredOK'
         /\ TokensOK /\ deploysTokens' = deploysTokens => TokensOK'
         /\ EventsOK /\ processed_events' = processed_events => EventsOK'
         /\ IdsOK /\ bcId' = bcId => IdsOK'
BY DEF Endures, UnstoredOK, TokensOK, EventsOK, IdsOK, IsMint, IsAnswered

\* Nothing happens to the platform or the chain.
LEMMA Untouched ==
  ASSUME NotificationsOK, DeploysOK, UNCHANGED <<notifications, deploys>>
  PROVE  NotificationsOK' /\ DeploysOK' /\ Endures
BY DEF NotificationsOK, DeploysOK, Requested, Endures

LEMMA CreditInit == Init => CreditInv
<1> SUFFICES ASSUME Init PROVE CreditInv
  OBVIOUS
<1>1. /\ notifications = <<>> /\ deploys = <<>> /\ unstored = <<>> /\ deploysTokens = {}
      /\ processed_events = <<>> /\ bcId = [t \in Tokens |-> 0]
  BY DEF Init, NotAvailable
<1>2. NotificationsOK
  BY <1>1 DEF NotificationsOK, IsList
<1>3. DeploysOK
  BY <1>1 DEF DeploysOK, IsList
<1> QED
  BY <1>1, <1>2, <1>3 DEF CreditInv, UnstoredOK, TokensOK, EventsOK, IdsOK, NotAvailable

LEMMA CreditOfPlatform == CreditInv /\ PlatformStep => CreditInv'
<1> SUFFICES ASSUME CreditInv, PlatformStep PROVE CreditInv'
  OBVIOUS
<1>1. UNCHANGED <<deploys, unstored, deploysTokens, processed_events>>
  BY DEF PlatformStep, consumers, maps, streams
<1>2. bcId' = bcId
  BY DEF PlatformStep, CreateProject, SignShareholderAgreement, DeclineNdaAndLegReq, RevokeSignature,
         CreateToken, OffChainTransfer
<1>3. NotificationsOK' /\ NotificationsStay
  BY PlatformNotifies DEF CreditInv
<1>4. DeploysOK' /\ Endures
  BY <1>1, <1>3 DEF CreditInv, DeploysOK, Requested, NotificationsStay, Endures
<1> QED
  BY <1>1, <1>2, <1>3, <1>4, Preserved DEF CreditInv

LEMMA CreditOfSubscribe == CreditInv /\ Subscribe => CreditInv'
<1> SUFFICES ASSUME CreditInv, Subscribe PROVE CreditInv'
  OBVIOUS
<1>1. /\ unstored' = Append(unstored, 0)
      /\ UNCHANGED <<notifications, deploys, deploysTokens, processed_events, bcId>>
  BY DEF Subscribe, platform, maps, streams
<1>2. NotificationsOK' /\ DeploysOK' /\ Endures
  BY <1>1, Untouched DEF CreditInv
<1>3. UnstoredOK'
  BY <1>1 DEF CreditInv, UnstoredOK, IsMint
<1> QED
  BY <1>1, <1>2, <1>3, Preserved DEF CreditInv

LEMMA CreditOfStore ==
  ASSUME CreditInv, NEW s \in DOMAIN unstored, Store(s)
  PROVE  CreditInv'
<1> DEFINE h == unstored[s]
           e == [hash |-> h, tokenId |-> h, protocolId |-> deploys[h].call.token]
<1>1. /\ h # 0 /\ deploysTokens' = deploysTokens \cup {e}
      /\ unstored' = [unstored EXCEPT ![s] = 0]
      /\ UNCHANGED <<notifications, deploys, processed_events, bcId>>
  BY DEF Store, platform, streams
<1>2. NotificationsOK' /\ DeploysOK' /\ Endures
  BY <1>1, Untouched DEF CreditInv
<1>3. UnstoredOK'
  BY <1>1 DEF CreditInv, UnstoredOK, IsMint
<1>4. IsMint(h)
  BY <1>1 DEF CreditInv, UnstoredOK
<1>5. TokensOK'
  BY <1>1, <1>4 DEF CreditInv, TokensOK, IsMint
<1> QED
  BY <1>1, <1>2, <1>3, <1>5, Preserved DEF CreditInv

LEMMA CreditOfConsume ==
  ASSUME CreditInv, NEW s \in DOMAIN unstored, NEW i \in DOMAIN notifications,
         Consume(s, notifications[i])
  PROVE  CreditInv'
<1> DEFINE n == notifications[i]
           h == Len(deploys) + 1
<1>1. /\ Put(DeployFor(n))
      /\ unstored' = IF n.kind = "CreateToken" THEN [unstored EXCEPT ![s] = h] ELSE unstored
      /\ UNCHANGED <<notifications, deploysTokens, processed_events, bcId>>
  BY DEF Consume, platform, maps
<1>2. /\ DeploysOK' /\ Endures /\ h \in DOMAIN deploys'
      /\ n.kind = "CreateToken" => deploys'[h].call.kind = "mint"
  BY <1>1, PutByConsumer DEF CreditInv
<1>3. NotificationsOK'
  BY <1>1 DEF CreditInv, NotificationsOK
<1>4. UnstoredOK'
  <2>1. CASE n.kind # "CreateToken"
    BY <1>1, <1>2, <2>1, Preserved DEF CreditInv
  <2>2. CASE n.kind = "CreateToken"
    <3>1. h \in Nat
      BY AppendedList DEF CreditInv, DeploysOK
    <3>2. unstored' \in Seq(Nat) /\ DOMAIN unstored' = DOMAIN unstored
      BY <1>1, <2>2, <3>1 DEF CreditInv, UnstoredOK
    <3>3. ASSUME NEW r \in DOMAIN unstored, unstored'[r] # 0
          PROVE  IsMint(unstored[r])'
      BY <1>1, <1>2, <2>2, <3>3 DEF CreditInv, UnstoredOK, IsMint, Endures
    <3> QED
      BY <3>2, <3>3 DEF UnstoredOK
  <2> QED
    BY <2>1, <2>2
<1> QED
  BY <1>1, <1>2, <1>3, <1>4, Preserved DEF CreditInv

LEMMA CreditOfFailure ==
  ASSUME CreditInv, NEW s \in DOMAIN unstored, NEW i \in DOMAIN notifications,
         ContractMissing(s, notifications[i]) \/ PutThrows(s, notifications[i])
  PROVE  CreditInv'
<1>1. UNCHANGED <<notifications, unstored, deploysTokens, processed_events, bcId>>
  BY DEF ContractMissing, PutThrows, platform, maps, streams
<1>2. deploys' = deploys \/ Put(DeployFor(notifications[i]))
  BY DEF ContractMissing, PutThrows
<1>3. NotificationsOK' /\ DeploysOK' /\ Endures
  <2>1. CASE deploys' = deploys
    BY <1>1, <2>1, Untouched DEF CreditInv
  <2>2. CASE Put(DeployFor(notifications[i]))
    BY <1>1, <2>2, PutByConsumer DEF CreditInv, NotificationsOK
  <2> QED
    BY <1>2, <2>1, <2>2
<1> QED
  BY <1>1, <1>3, Preserved DEF CreditInv

LEMMA CreditOfAnswer ==
  ASSUME CreditInv, NEW n \in DOMAIN deploys, NEW r \in {"succeeded", "failed"}, Conclude(n, r),
         UNCHANGED <<platform, maps, unstored>>
  PROVE  CreditInv'
<1>1. UNCHANGED <<notifications, unstored, deploysTokens, bcId>>
  BY DEF platform, maps
<1>2. NotificationsOK' /\ NotificationsStay
  BY <1>1 DEF CreditInv, NotificationsOK, NotificationsStay
<1>3. DeploysOK' /\ Endures /\ deploys'[n].status # "pending"
  BY <1>2, ConcludeEndures DEF CreditInv
<1>4. EventsOK'
  <2>1. CASE processed_events' = processed_events
    BY <1>3, <2>1, Preserved DEF CreditInv
  <2>2. CASE processed_events' = Append(processed_events, n)
    <3>1. n \in Nat /\ n \in DOMAIN deploys'
      BY <1>3, AppendedList DEF CreditInv, DeploysOK, Endures
    <3>2. /\ processed_events' \in Seq(Nat)
          /\ DOMAIN processed_events' = DOMAIN processed_events \cup {Len(processed_events) + 1}
          /\ \A k \in DOMAIN processed_events : processed_events'[k] = processed_events[k]
          /\ processed_events'[Len(processed_events) + 1] = n
      BY <2>2, <3>1 DEF CreditInv, EventsOK
    <3>3. ASSUME NEW k \in DOMAIN processed_events'
          PROVE  IsAnswered(processed_events[k])'
      BY <1>3, <3>1, <3>2 DEF CreditInv, EventsOK, IsAnswered, Endures
    <3> QED
      BY <3>2, <3>3 DEF EventsOK
  <2> QED
    BY <2>1, <2>2 DEF Conclude
<1> QED
  BY <1>1, <1>2, <1>3, <1>4, Preserved DEF CreditInv

LEMMA CreditOfOthers ==
  ASSUME CreditInv, NEW call, call.kind # "mint", NEW contract, NEW who,
         PutByOthers(call, contract, who)
  PROVE  CreditInv'
<1> DEFINE x == [call |-> call, contract |-> contract, by |-> who, status |-> "pending"]
<1>1. /\ deploys' = Append(deploys, x)
      /\ UNCHANGED <<notifications, unstored, deploysTokens, processed_events, bcId>>
  BY DEF PutByOthers, platform, maps, consumers
<1>2. NotificationsOK' /\ NotificationsStay
  BY <1>1 DEF CreditInv, NotificationsOK, NotificationsStay
<1>3. IsDeploy(x) /\ Requested(x)
  BY DEF IsDeploy, Requested
<1> HIDE DEF x
<1>4. DeploysOK' /\ Endures
  BY <1>1, <1>2, <1>3, PutEndures DEF CreditInv
<1> QED
  BY <1>1, <1>2, <1>4, Preserved DEF CreditInv

LEMMA CreditOfChain == CreditInv /\ ChainStep => CreditInv'
<1> SUFFICES ASSUME CreditInv, ChainStep PROVE CreditInv'
  OBVIOUS
<1>1. CASE \E n \in DOMAIN deploys : Execute(n) \/ Refuse(n) \/ RunOutOfGas(n)
  <2>1. PICK n \in DOMAIN deploys : Execute(n) \/ Refuse(n) \/ RunOutOfGas(n)
    BY <1>1
  <2>2. /\ \E r \in {"succeeded", "failed"} : Conclude(n, r)
        /\ UNCHANGED <<platform, maps, unstored>>
    BY <2>1 DEF Execute, Refuse, RunOutOfGas, consumers
  <2> QED
    BY <2>2, CreditOfAnswer
<1>2. CASE \E id \in DOMAIN token_owners, b \in Accounts : TransferByOwner(id, b)
  <2>1. PICK id \in DOMAIN token_owners, b \in Accounts : TransferByOwner(id, b)
    BY <1>2
  <2> DEFINE call == [kind |-> "transfer", id |-> id, from |-> token_owners[id], to |-> b]
  <2>2. call.kind # "mint" /\ PutByOthers(call, deploys[id].contract, "owner")
    BY <2>1 DEF TransferByOwner
  <2> QED
    BY <2>2, CreditOfOthers
<1>3. CASE TransferElsewhere
  <2> DEFINE call == [kind |-> "foreign"]
  <2>1. call.kind # "mint" /\ PutByOthers(call, 0, "others")
    BY <1>3 DEF TransferElsewhere
  <2> QED
    BY <2>1, CreditOfOthers
<1> QED
  BY <1>1, <1>2, <1>3 DEF ChainStep

\* The identifier that is set is that of the deploy whose event is heard.
LEMMA CreditOfHearing == CreditInv /\ HearProcessed => CreditInv'
<1> SUFFICES ASSUME CreditInv, HearProcessed PROVE CreditInv'
  OBVIOUS
<1> DEFINE n == Head(processed_events)
<1>1. /\ processed_events # <<>>
      /\ ProcessedTransfer(n) \/ ProcessedMint(n) \/ ProcessedOther(n)
      /\ UNCHANGED <<notifications, deploys, unstored>>
  BY DEF HearProcessed, consumers
<1>2. NotificationsOK' /\ DeploysOK' /\ Endures
  BY <1>1, Untouched DEF CreditInv
<1>3. deploysTokens' = deploysTokens
  BY <1>1 DEF ProcessedTransfer, ProcessedMint, ProcessedOther, maps
<1>4. EventsOK'
  <2>1. processed_events' = <<>> \/ processed_events' = Tail(processed_events)
    BY <1>1 DEF ProcessedTransfer, ProcessedMint, ProcessedOther, Heard, Disconnect
  <2>2. CASE processed_events' = <<>>
    BY <2>2 DEF EventsOK
  <2>3. CASE processed_events' = Tail(processed_events)
    <3>1. processed_events \in Seq(Nat)
      BY DEF CreditInv, EventsOK
    <3>2. /\ processed_events' \in Seq(Nat)
          /\ \A k \in DOMAIN processed_events' :
               k + 1 \in DOMAIN processed_events /\ processed_events'[k] = processed_events[k + 1]
      BY <1>1, <2>3, <3>1
    <3>3. \A k \in DOMAIN processed_events' : IsAnswered(processed_events'[k])
      BY <3>2 DEF CreditInv, EventsOK
    <3> QED
      BY <1>1, <3>2, <3>3 DEF EventsOK, IsAnswered
  <2> QED
    BY <2>1, <2>2, <2>3
<1>5. IdsOK'
  <2>1. CASE bcId' = bcId
    BY <1>2, <2>1, Preserved DEF CreditInv
  <2>2. CASE bcId' # bcId
    <3>1. ProcessedMint(n)
      BY <1>1, <2>2 DEF ProcessedTransfer, ProcessedOther
    <3>2. PICK e \in EntriesOf(n) : bcId' = [bcId EXCEPT ![e.protocolId] = e.tokenId]
      BY <2>2, <3>1 DEF ProcessedMint
    <3>3. e.tokenId = n /\ IsMint(n) /\ e.protocolId = deploys[n].call.token
      BY DEF EntriesOf, CreditInv, TokensOK
    <3>4. n \in Nat /\ IsAnswered(n)
      <4>1. processed_events \in Seq(Nat)
        BY DEF CreditInv, EventsOK
      <4>2. 1 \in DOMAIN processed_events /\ n = processed_events[1] /\ n \in Nat
        BY <1>1, <4>1
      <4> QED
        BY <4>2 DEF CreditInv, EventsOK
    <3>5. deploys[n].call.token \in Tokens
      BY <3>3 DEF IsMint, CreditInv, DeploysOK, IsDeploy
    <3> QED
      BY <1>1, <3>2, <3>3, <3>4, <3>5 DEF CreditInv, IdsOK, IsMint, IsAnswered
  <2> QED
    BY <2>1, <2>2
<1> QED
  BY <1>1, <1>2, <1>3, <1>4, <1>5, Preserved DEF CreditInv

LEMMA CreditOfHearingAccepted ==
  ASSUME CreditInv, NEW n, HearAccepted(n)
  PROVE  CreditInv'
<1>1. UNCHANGED <<notifications, deploys, unstored, deploysTokens, processed_events, bcId>>
  BY DEF HearAccepted, platform, consumers
<1>2. NotificationsOK' /\ DeploysOK' /\ Endures
  BY <1>1, Untouched DEF CreditInv
<1> QED
  BY <1>1, <1>2, Preserved DEF CreditInv

LEMMA CreditOfRestart == CreditInv /\ Restart => CreditInv'
<1> SUFFICES ASSUME CreditInv, Restart PROVE CreditInv'
  OBVIOUS
<1>1. /\ UNCHANGED <<notifications, deploys, bcId>>
      /\ unstored' = <<>> /\ deploysTokens' = {} /\ processed_events' = <<>>
  BY DEF Restart, platform
<1>2. NotificationsOK' /\ DeploysOK' /\ Endures
  BY <1>1, Untouched DEF CreditInv
<1>3. UnstoredOK' /\ TokensOK' /\ EventsOK'
  BY <1>1 DEF UnstoredOK, TokensOK, EventsOK
<1> QED
  BY <1>1, <1>2, <1>3, Preserved DEF CreditInv

LEMMA CreditOfStuttering == CreditInv /\ UNCHANGED vars => CreditInv'
<1> SUFFICES ASSUME CreditInv, UNCHANGED vars PROVE CreditInv'
  OBVIOUS
<1>1. UNCHANGED <<notifications, deploys, unstored, deploysTokens, processed_events, bcId>>
  BY DEF vars, platform, consumers, maps, streams
<1>2. NotificationsOK' /\ DeploysOK' /\ Endures
  BY <1>1, Untouched DEF CreditInv
<1> QED
  BY <1>1, <1>2, Preserved DEF CreditInv

-----------------------------------------------------------------------------
(* Positions: every subscription stands within the notifications.          *)

PositionsOK ==
  /\ position \in Seq(Nat) /\ Len(position) = Len(unstored)
  /\ \A s \in DOMAIN position : position[s] <= Len(notifications)

\* The steps of the subscriptions and of a restart; no other step moves a
\* position.
LEMMA StepCases ==
  ASSUME Next
  PROVE  \/ PlatformStep
         \/ Subscribe
         \/ \E s \in DOMAIN position : Store(s)
         \/ \E s \in DOMAIN position, i \in DOMAIN notifications :
              \/ Consume(s, notifications[i])
              \/ ContractMissing(s, notifications[i])
              \/ PutThrows(s, notifications[i])
         \/ \E n \in accepted_events : HearAccepted(n)
         \/ HearProcessed
         \/ Restart
         \/ ChainStep
BY DEF Next, ApiStep, SubscriptionStep

LEMMA NotificationsGrow ==
  ASSUME CreditInv, [Next]_vars
  PROVE  /\ Len(notifications) \in Nat /\ DOMAIN notifications = 1 .. Len(notifications)
         /\ Len(notifications') \in Nat /\ DOMAIN notifications' = 1 .. Len(notifications')
         /\ Len(notifications) <= Len(notifications')
<1>1. IsList(notifications) /\ Len(notifications) \in Nat
      /\ DOMAIN notifications = 1 .. Len(notifications)
  BY AppendedList DEF CreditInv, NotificationsOK
<1>2. notifications' = notifications \/ \E n : Notify(n)
  <2>1. CASE PlatformStep
    BY <2>1 DEF PlatformStep, CreateProject, SignShareholderAgreement, DeclineNdaAndLegReq, RevokeSignature,
                CreateToken, OffChainTransfer
  <2>2. CASE ChainStep
    BY <2>2 DEF ChainStep, Execute, Refuse, RunOutOfGas, TransferByOwner, TransferElsewhere,
                PutByOthers, platform
  <2>3. CASE ApiStep
    BY <2>3 DEF ApiStep, Subscribe, SubscriptionStep, Store, Consume, ContractMissing, PutThrows,
                HearAccepted, HearProcessed, Restart, platform
  <2>4. CASE UNCHANGED vars
    BY <2>4 DEF vars, platform
  <2> QED
    BY <2>1, <2>2, <2>3, <2>4 DEF Next
<1>3. CASE notifications' = notifications
  BY <1>1, <1>3
<1>4. ASSUME NEW n, Notify(n)
      PROVE  /\ Len(notifications') = Len(notifications) + 1
             /\ DOMAIN notifications' = DOMAIN notifications \cup {Len(notifications) + 1}
  BY <1>1, <1>4, AppendedList DEF Notify
<1> QED
  BY <1>1, <1>2, <1>3, <1>4

LEMMA PositionsStay ==
  ASSUME CreditInv, PositionsOK, [Next]_vars, UNCHANGED position, Len(unstored') = Len(unstored)
  PROVE  PositionsOK'
BY NotificationsGrow DEF PositionsOK

\* A subscription has consumed one more notification.
LEMMA PositionsAdvance ==
  ASSUME CreditInv, PositionsOK, [Next]_vars, NEW s \in DOMAIN position,
         position[s] < Len(notifications), position' = Advanced(s),
         Len(unstored') = Len(unstored)
  PROVE  PositionsOK'
<1>1. position' \in Seq(Nat) /\ Len(position') = Len(position) /\ DOMAIN position' = DOMAIN position
  BY DEF PositionsOK, Advanced
<1>2. \A r \in DOMAIN position : position[r] \in Nat
  BY DEF PositionsOK
<1>3. \A r \in DOMAIN position : position'[r] = IF r = s THEN position[r] + 1 ELSE position[r]
  BY <1>2 DEF Advanced
<1>4. \A r \in DOMAIN position : position'[r] <= Len(notifications')
  BY <1>2, <1>3, NotificationsGrow DEF PositionsOK
<1> QED
  BY <1>1, <1>4 DEF PositionsOK

LEMMA PositionsStep == CreditInv /\ PositionsOK /\ [Next]_vars => PositionsOK'
<1> SUFFICES ASSUME CreditInv, PositionsOK, [Next]_vars PROVE PositionsOK'
  OBVIOUS
<1>0. unstored \in Seq(Nat)
  BY DEF CreditInv, UnstoredOK
<1>1. CASE PlatformStep \/ ChainStep \/ HearProcessed \/ UNCHANGED vars
  <2>1. UNCHANGED <<position, unstored>>
    BY <1>1 DEF PlatformStep, ChainStep, Execute, Refuse, RunOutOfGas, TransferByOwner,
                TransferElsewhere, PutByOthers, HearProcessed, consumers, vars
  <2> QED
    BY <2>1, PositionsStay
<1>2. CASE \E n \in accepted_events : HearAccepted(n)
  <2>1. UNCHANGED <<position, unstored>>
    BY <1>2 DEF HearAccepted, consumers
  <2> QED
    BY <2>1, PositionsStay
<1>3. CASE Subscribe
  <2>1. position' = Append(position, 0) /\ unstored' = Append(unstored, 0)
    BY <1>3 DEF Subscribe, StartOfStream
  <2>2. /\ position' \in Seq(Nat) /\ Len(position') = Len(unstored')
        /\ DOMAIN position' = DOMAIN position \cup {Len(position) + 1}
        /\ position'[Len(position) + 1] = 0
        /\ \A r \in DOMAIN position : position'[r] = position[r] /\ position[r] \in Nat
    BY <1>0, <2>1 DEF PositionsOK
  <2> QED
    BY <2>2, NotificationsGrow DEF PositionsOK
<1>4. CASE \E s \in DOMAIN position : Store(s)
  <2>1. PICK s \in DOMAIN position : Store(s)
    BY <1>4
  <2>2. position' = position /\ Len(unstored') = Len(unstored)
    BY <1>0, <2>1 DEF Store
  <2> QED
    BY <2>2, PositionsStay
<1>5. CASE \E s \in DOMAIN position, i \in DOMAIN notifications :
             \/ Consume(s, notifications[i])
             \/ ContractMissing(s, notifications[i])
             \/ PutThrows(s, notifications[i])
  <2>1. PICK s \in DOMAIN position, i \in DOMAIN notifications :
             \/ Consume(s, notifications[i])
             \/ ContractMissing(s, notifications[i])
             \/ PutThrows(s, notifications[i])
    BY <1>5
  <2>2. position[s] < Len(notifications) /\ position' = Advanced(s)
    BY <2>1 DEF Consume, ContractMissing, PutThrows, IsNext, Fails, AfterException
  <2>3. \/ unstored' = unstored
        \/ unstored' = [unstored EXCEPT ![s] = Len(deploys) + 1]
    BY <2>1 DEF Consume, ContractMissing, PutThrows
  <2>4. Len(unstored') = Len(unstored)
    BY <1>0, <2>3
  <2> QED
    BY <2>2, <2>4, PositionsAdvance
<1>6. CASE Restart
  <2>1. position' = <<>> /\ unstored' = <<>>
    BY <1>6 DEF Restart
  <2> QED
    BY <2>1 DEF PositionsOK
<1> QED
  BY <1>1, <1>2, <1>3, <1>4, <1>5, <1>6, StepCases

-----------------------------------------------------------------------------

CreditAndPositions == CreditInv /\ PositionsOK

LEMMA CreditStep == CreditAndPositions /\ [Next]_vars => CreditAndPositions'
<1> SUFFICES ASSUME CreditInv, PositionsOK, [Next]_vars PROVE CreditInv'
  BY PositionsStep DEF CreditAndPositions
<1>1. DOMAIN unstored = DOMAIN position
  BY DEF CreditInv, UnstoredOK, PositionsOK
<1>2. CASE PlatformStep \/ ChainStep
  BY <1>2, CreditOfPlatform, CreditOfChain
<1>3. CASE Subscribe \/ HearProcessed \/ Restart
  BY <1>3, CreditOfSubscribe, CreditOfHearing, CreditOfRestart
<1>4. CASE \E s \in DOMAIN position : Store(s)
  BY <1>1, <1>4, CreditOfStore
<1>5. CASE \E s \in DOMAIN position, i \in DOMAIN notifications :
             \/ Consume(s, notifications[i])
             \/ ContractMissing(s, notifications[i])
             \/ PutThrows(s, notifications[i])
  BY <1>1, <1>5, CreditOfConsume, CreditOfFailure
<1>6. CASE \E n \in accepted_events : HearAccepted(n)
  BY <1>6, CreditOfHearingAccepted
<1>7. CASE UNCHANGED vars
  BY <1>7, CreditOfStuttering
<1> QED
  BY <1>2, <1>3, <1>4, <1>5, <1>6, <1>7, StepCases

LEMMA CreditAlways == Spec => []CreditAndPositions
<1>1. Init => CreditAndPositions
  <2>1. Init => PositionsOK
    BY DEF Init, PositionsOK
  <2> QED
    BY <2>1, CreditInit DEF CreditAndPositions
<1> QED
  BY <1>1, CreditStep, PTL DEF Spec

\* However subscriptions, answers, crashes and failures interleave, the
\* identifier the API sets is that of a mint of this very token, for the
\* account it was created for, which the node has answered.
THEOREM IdentifiersAreCredited == Spec => []IdentifierIsOfItsToken
<1>1. CreditAndPositions => IdentifierIsOfItsToken
  <2> SUFFICES ASSUME CreditInv, NEW t \in Tokens, bcId[t] # NotAvailable
               PROVE  /\ bcId[t] \in MintsOf(t)
                      /\ deploys[bcId[t]].status # "pending"
                      /\ \E i \in DOMAIN notifications :
                           notifications[i] = [kind |-> "CreateToken", token |-> t,
                                               account |-> deploys[bcId[t]].call.to]
    BY DEF CreditAndPositions, IdentifierIsOfItsToken
  <2> DEFINE d == deploys[bcId[t]]
  <2>1. IsMint(bcId[t]) /\ IsAnswered(bcId[t]) /\ d.call.token = t
    BY DEF CreditInv, IdsOK
  <2>2. PICK i \in DOMAIN notifications : notifications[i] = Creation(t, d.call.to)
    BY <2>1 DEF IsMint, CreditInv, DeploysOK, Requested
  <2>3. Creation(t, d.call.to) = [kind |-> "CreateToken", token |-> t, account |-> d.call.to]
    BY DEF Creation
  <2> QED
    BY <2>1, <2>2, <2>3 DEF IsMint, IsAnswered, MintsOf
<1> QED
  BY <1>1, CreditAlways, PTL

-----------------------------------------------------------------------------
(* Types.                                                                  *)

LEMMA DeploysGrow ==
  ASSUME CreditInv, [Next]_vars
  PROVE  /\ Len(deploys) \in Nat /\ DOMAIN deploys = 1 .. Len(deploys)
         /\ Len(deploys') \in Nat /\ DOMAIN deploys' = 1 .. Len(deploys')
         /\ Len(deploys) <= Len(deploys')
         /\ \A x : deploys' = Append(deploys, x) => Len(deploys') = Len(deploys) + 1
<1>1. IsList(deploys) /\ Len(deploys) \in Nat /\ DOMAIN deploys = 1 .. Len(deploys)
  BY AppendedList DEF CreditInv, DeploysOK
<1>2. \/ deploys' = deploys
      \/ \E x : deploys' = Append(deploys, x)
      \/ \E n \in DOMAIN deploys : \E r : Conclude(n, r)
  <2>1. CASE PlatformStep \/ UNCHANGED vars
    BY <2>1 DEF PlatformStep, vars
  <2>2. CASE ChainStep
    BY <2>2 DEF ChainStep, Execute, Refuse, RunOutOfGas, TransferByOwner, TransferElsewhere,
                PutByOthers
  <2>3. CASE ApiStep
    BY <2>3 DEF ApiStep, Subscribe, SubscriptionStep, Store, Consume, ContractMissing, PutThrows,
                HearAccepted, HearProcessed, Restart, Put
  <2> QED
    BY <2>1, <2>2, <2>3 DEF Next
<1>3. ASSUME NEW x, deploys' = Append(deploys, x)
      PROVE  /\ Len(deploys') = Len(deploys) + 1
             /\ DOMAIN deploys' = DOMAIN deploys \cup {Len(deploys) + 1}
  BY <1>1, <1>3, AppendedList
<1>4. ASSUME NEW n \in DOMAIN deploys, NEW r, Conclude(n, r)
      PROVE  /\ IsList(deploys') /\ DOMAIN deploys' = DOMAIN deploys
             /\ Len(deploys') = Len(deploys)
  <2>1. deploys' = [deploys EXCEPT ![n] = [@ EXCEPT !.status = r]]
    BY <1>4 DEF Conclude
  <2>2. IsList(deploys') /\ DOMAIN deploys' = DOMAIN deploys
    BY <1>1, <2>1, ReplacedInList
  <2>3. Len(deploys') \in Nat /\ DOMAIN deploys' = 1 .. Len(deploys')
    BY <2>2, AppendedList
  <2> QED
    BY <1>1, <2>2, <2>3
<1>5. \A x : deploys' = Append(deploys, x) => Len(deploys') = Len(deploys) + 1
  BY <1>3
<1>6. /\ Len(deploys') \in Nat /\ DOMAIN deploys' = 1 .. Len(deploys')
      /\ Len(deploys) <= Len(deploys')
  <2>1. CASE deploys' = deploys
    BY <1>1, <2>1
  <2>2. CASE \E x : deploys' = Append(deploys, x)
    BY <1>1, <1>3, <2>2
  <2>3. CASE \E n \in DOMAIN deploys : \E r : Conclude(n, r)
    BY <1>1, <1>4, <2>3
  <2> QED
    BY <1>2, <2>1, <2>2, <2>3
<1> QED
  BY <1>1, <1>5, <1>6

\* The conjuncts of TypeOK that CreditAndPositions leaves open.
PlatformOK ==
  /\ listed \in [Projects -> SUBSET Accounts] /\ traded \subseteq Tokens
  /\ owner \in [Tokens -> Accounts \cup {NoAccount}]

MapsOK ==
  /\ deploysTokens \subseteq
       [hash : DOMAIN deploys, tokenId : DOMAIN deploys, protocolId : Tokens]
  /\ mintedTokens \subseteq [tokenId : DOMAIN deploys, protocolId : Tokens]
  /\ deploysTransfers \subseteq DOMAIN deploys

StreamsOK == accepted_events \subseteq DOMAIN deploys /\ premature \subseteq DOMAIN deploys

LostOK == lost \subseteq DOMAIN notifications

ChainOK == nft_contract \in 0 .. Len(deploys) /\ DOMAIN token_owners \subseteq DOMAIN deploys

Typed == CreditAndPositions /\ PlatformOK /\ MapsOK /\ StreamsOK /\ LostOK /\ ChainOK

LEMMA PlatformTyped == PlatformOK /\ [Next]_vars => PlatformOK'
<1> SUFFICES ASSUME PlatformOK, [Next]_vars PROVE PlatformOK'
  OBVIOUS
<1>1. CASE PlatformStep
  BY <1>1 DEF PlatformStep, CreateProject, SignShareholderAgreement, DeclineNdaAndLegReq, RevokeSignature,
              CreateToken, OffChainTransfer, PlatformOK
<1>2. CASE UNCHANGED <<listed, owner, traded>>
  BY <1>2 DEF PlatformOK
<1>3. CASE ApiStep \/ ChainStep \/ UNCHANGED vars
  <2>1. UNCHANGED <<listed, owner, traded>>
    BY <1>3 DEF ApiStep, Subscribe, SubscriptionStep, Store, Consume, ContractMissing, PutThrows,
                HearAccepted, HearProcessed, Restart, ChainStep, Execute, Refuse, RunOutOfGas,
                TransferByOwner, TransferElsewhere, PutByOthers, platform, vars
  <2> QED
    BY <1>2, <2>1
<1> QED
  BY <1>1, <1>3 DEF Next

LEMMA MapsTyped == Typed /\ [Next]_vars => MapsOK'
<1> SUFFICES ASSUME Typed, [Next]_vars PROVE MapsOK'
  OBVIOUS
<1>0. DOMAIN deploys \subseteq DOMAIN deploys'
  BY DeploysGrow DEF Typed, CreditAndPositions
<1>1. CASE UNCHANGED maps
  BY <1>0, <1>1 DEF maps, MapsOK, Typed
<1>2. CASE \E s \in DOMAIN position : Store(s)
  <2>1. PICK s \in DOMAIN position : Store(s)
    BY <1>2
  <2>2. s \in DOMAIN unstored
    BY DEF Typed, CreditAndPositions, CreditInv, UnstoredOK, PositionsOK
  <2>3. /\ unstored[s] \in DOMAIN deploys
        /\ deploys[unstored[s]].call.token \in Tokens
    BY <2>1, <2>2 DEF Store, Typed, CreditAndPositions, CreditInv, UnstoredOK, IsMint,
                      DeploysOK, IsDeploy
  <2> QED
    BY <1>0, <2>1, <2>3 DEF Store, MapsOK, Typed
<1>3. CASE \E n \in accepted_events : HearAccepted(n)
  BY <1>0, <1>3 DEF HearAccepted, MapsOK, StreamsOK, Typed
<1>4. CASE HearProcessed
  <2> DEFINE n == Head(processed_events)
  <2>1. UNCHANGED maps \/ ProcessedMint(n)
    BY <1>4 DEF HearProcessed, ProcessedTransfer, ProcessedOther
  <2>2. CASE ProcessedMint(n)
    <3>1. PICK e \in deploysTokens :
            /\ mintedTokens' = mintedTokens \cup {[tokenId |-> e.tokenId, protocolId |-> e.protocolId]}
            /\ UNCHANGED <<deploysTokens, deploysTransfers>>
      BY <2>2 DEF ProcessedMint, EntriesOf
    <3>2. e.tokenId \in DOMAIN deploys /\ e.protocolId \in Tokens
      BY DEF MapsOK, Typed
    <3> QED
      BY <1>0, <3>1, <3>2 DEF MapsOK, Typed
  <2> QED
    BY <1>1, <2>1, <2>2
<1>5. CASE Restart
  BY <1>5 DEF Restart, MapsOK
<1>6. CASE \/ PlatformStep \/ ChainStep \/ Subscribe \/ UNCHANGED vars
           \/ \E s \in DOMAIN position, i \in DOMAIN notifications :
                \/ Consume(s, notifications[i])
                \/ ContractMissing(s, notifications[i])
                \/ PutThrows(s, notifications[i])
  <2>1. UNCHANGED maps
    BY <1>6 DEF PlatformStep, ChainStep, Execute, Refuse, RunOutOfGas, TransferByOwner,
                TransferElsewhere, PutByOthers, Subscribe, Consume, ContractMissing, PutThrows, vars
  <2> QED
    BY <1>1, <2>1
<1> QED
  BY <1>2, <1>3, <1>4, <1>5, <1>6, StepCases

LEMMA StreamsTyped == Typed /\ [Next]_vars => StreamsOK'
<1> SUFFICES ASSUME Typed, [Next]_vars PROVE StreamsOK'
  OBVIOUS
<1>0. /\ DOMAIN deploys \subseteq DOMAIN deploys'
      /\ \A x : deploys' = Append(deploys, x) => Len(deploys) + 1 \in DOMAIN deploys'
  BY DeploysGrow DEF Typed, CreditAndPositions
<1>1. CASE accepted_events' \subseteq accepted_events /\ premature' = premature
  BY <1>0, <1>1 DEF StreamsOK, Typed
<1>2. CASE /\ \E x : deploys' = Append(deploys, x)
           /\ accepted_events' \subseteq accepted_events \cup {Len(deploys) + 1}
           /\ premature' = premature
  BY <1>0, <1>2 DEF StreamsOK, Typed
<1>3. CASE PlatformStep \/ Subscribe \/ Restart \/ UNCHANGED vars
  BY <1>1, <1>3 DEF PlatformStep, Subscribe, Restart, vars, streams
<1>4. CASE \E s \in DOMAIN position : Store(s)
  BY <1>1, <1>4 DEF Store, streams
<1>5. CASE \E s \in DOMAIN position, i \in DOMAIN notifications :
             \/ Consume(s, notifications[i])
             \/ ContractMissing(s, notifications[i])
             \/ PutThrows(s, notifications[i])
  <2>1. PICK s \in DOMAIN position, i \in DOMAIN notifications :
             \/ Consume(s, notifications[i])
             \/ ContractMissing(s, notifications[i])
             \/ PutThrows(s, notifications[i])
    BY <1>5
  <2>2. premature' = premature
    BY <2>1 DEF Consume, ContractMissing, PutThrows, streams
  <2>3. \/ accepted_events' = accepted_events
        \/ Put(DeployFor(notifications[i])) /\ AnnounceTransfer(notifications[i])
    BY <2>1 DEF Consume, ContractMissing, PutThrows, streams
  <2> QED
    BY <1>1, <1>2, <2>2, <2>3 DEF Put, AnnounceTransfer
<1>6. CASE \E n \in accepted_events : HearAccepted(n)
  BY <1>1, <1>6 DEF HearAccepted
<1>7. CASE HearProcessed
  <2> DEFINE n == Head(processed_events)
  <2>1. processed_events # <<>> /\ accepted_events' = accepted_events
        /\ premature' \subseteq premature \cup {n}
    BY <1>7 DEF HearProcessed
  <2>2. n \in DOMAIN deploys
    <3>1. processed_events \in Seq(Nat)
      BY DEF Typed, CreditAndPositions, CreditInv, EventsOK
    <3>2. 1 \in DOMAIN processed_events /\ n = processed_events[1]
      BY <2>1, <3>1
    <3> QED
      BY <3>2 DEF Typed, CreditAndPositions, CreditInv, EventsOK, IsAnswered
  <2> QED
    BY <1>0, <2>1, <2>2 DEF StreamsOK, Typed
<1>8. CASE ChainStep
  <2>1. CASE \E n \in DOMAIN deploys : Execute(n) \/ Refuse(n) \/ RunOutOfGas(n)
    BY <1>1, <2>1 DEF Execute, Refuse, RunOutOfGas
  <2>2. CASE \E call, contract, who : PutByOthers(call, contract, who)
    BY <1>2, <2>2 DEF PutByOthers
  <2> QED
    BY <1>8, <2>1, <2>2 DEF ChainStep, TransferByOwner, TransferElsewhere
<1> QED
  BY <1>3, <1>4, <1>5, <1>6, <1>7, <1>8, StepCases

LEMMA LostTyped == Typed /\ [Next]_vars => LostOK'
<1> SUFFICES ASSUME Typed, [Next]_vars PROVE LostOK'
  OBVIOUS
<1>0. /\ Len(notifications) \in Nat /\ DOMAIN notifications = 1 .. Len(notifications)
      /\ DOMAIN notifications \subseteq DOMAIN notifications'
  BY NotificationsGrow DEF Typed, CreditAndPositions
<1>1. CASE lost' = lost
  BY <1>0, <1>1 DEF LostOK, Typed
<1>2. CASE \E s \in DOMAIN position : Store(s)
  BY <1>1, <1>2 DEF Store
<1>3. CASE \E s \in DOMAIN position, i \in DOMAIN notifications :
             \/ Consume(s, notifications[i])
             \/ ContractMissing(s, notifications[i])
             \/ PutThrows(s, notifications[i])
  <2>1. PICK s \in DOMAIN position, i \in DOMAIN notifications :
             \/ Consume(s, notifications[i])
             \/ ContractMissing(s, notifications[i])
             \/ PutThrows(s, notifications[i])
    BY <1>3
  <2>2. position[s] < Len(notifications) /\ (lost' = lost \/ lost' = lost \cup {position[s] + 1})
    BY <2>1 DEF Consume, ContractMissing, PutThrows, IsNext, Fails
  <2>3. position[s] \in Nat
    BY DEF Typed, CreditAndPositions, PositionsOK
  <2>4. position[s] + 1 \in DOMAIN notifications
    BY <1>0, <2>2, <2>3
  <2> QED
    BY <1>0, <2>2, <2>4 DEF LostOK, Typed
<1>4. CASE \E n \in accepted_events : HearAccepted(n)
  BY <1>1, <1>4 DEF HearAccepted, consumers
<1>5. CASE PlatformStep \/ Subscribe \/ HearProcessed \/ Restart \/ ChainStep \/ UNCHANGED vars
  <2>1. lost' = lost
    BY <1>5 DEF PlatformStep, Subscribe, HearProcessed, Restart, ChainStep, Execute, Refuse,
                RunOutOfGas, TransferByOwner, TransferElsewhere, PutByOthers, consumers, vars
  <2> QED
    BY <1>1, <2>1
<1> QED
  BY <1>2, <1>3, <1>4, <1>5, StepCases

LEMMA ChainTyped == Typed /\ [Next]_vars => ChainOK'
<1> SUFFICES ASSUME Typed, [Next]_vars PROVE ChainOK'
  OBVIOUS
<1>0. /\ Len(deploys) \in Nat /\ Len(deploys') \in Nat /\ Len(deploys) <= Len(deploys')
      /\ DOMAIN deploys = 1 .. Len(deploys) /\ DOMAIN deploys \subseteq DOMAIN deploys'
  BY DeploysGrow DEF Typed, CreditAndPositions
<1>1. CASE UNCHANGED chain
  BY <1>0, <1>1 DEF chain, ChainOK, Typed
<1>2. CASE \E n \in DOMAIN deploys : Execute(n)
  <2>1. PICK n \in DOMAIN deploys : Execute(n)
    BY <1>2
  <2>2. nft_contract' = n \/ nft_contract' = nft_contract
    BY <2>1 DEF Execute
  <2>3. DOMAIN token_owners' \subseteq DOMAIN token_owners \cup {n}
    <3> DEFINE call == deploys[n].call
    <3>1. CASE call.kind = "mint"
      BY <2>1, <3>1 DEF Execute
    <3>2. CASE call.kind = "transfer"
      BY <2>1, <3>2 DEF Execute
    <3>3. CASE call.kind \notin {"mint", "transfer"}
      <4>1. token_owners' = token_owners
        BY <2>1, <3>3 DEF Execute
      <4> QED
        BY <4>1
    <3> QED
      BY <3>1, <3>2, <3>3
  <2> QED
    BY <1>0, <2>2, <2>3 DEF ChainOK, Typed
<1>3. CASE PlatformStep \/ ApiStep \/ UNCHANGED vars
  <2>1. UNCHANGED chain
    BY <1>3 DEF PlatformStep, ApiStep, Subscribe, SubscriptionStep, Store, Consume,
                ContractMissing, PutThrows, HearAccepted, HearProcessed, Restart, vars
  <2> QED
    BY <1>1, <2>1
<1>4. CASE ChainStep
  BY <1>1, <1>2, <1>4 DEF ChainStep, Refuse, RunOutOfGas, TransferByOwner, TransferElsewhere,
                          PutByOthers
<1> QED
  BY <1>3, <1>4 DEF Next

LEMMA TypedInit == Init => Typed
<1> SUFFICES ASSUME Init PROVE Typed
  OBVIOUS
<1>1. PositionsOK
  BY DEF Init, PositionsOK
<1>2. /\ PlatformOK /\ MapsOK /\ StreamsOK /\ LostOK
  BY DEF Init, PlatformOK, MapsOK, StreamsOK, LostOK
<1>3. ChainOK
  BY DEF Init, ChainOK
<1> QED
  BY <1>1, <1>2, <1>3, CreditInit DEF Typed, CreditAndPositions

LEMMA TypedStep == Typed /\ [Next]_vars => Typed'
BY CreditStep, PlatformTyped, MapsTyped, StreamsTyped, LostTyped, ChainTyped DEF Typed

\* The variables keep their types, in every interleaving of subscriptions,
\* callbacks, restarts and the node.
THEOREM TypeCorrect == Spec => []TypeOK
<1>1. Typed => TypeOK
  <2> SUFFICES ASSUME Typed PROVE TypeOK
    OBVIOUS
  <2>1. Len(deploys) \in Nat /\ DOMAIN deploys = 1 .. Len(deploys)
    BY AppendedList DEF Typed, CreditAndPositions, CreditInv, DeploysOK
  <2>2. bcId \in [Tokens -> 0 .. Len(deploys)]
    BY <2>1 DEF Typed, CreditAndPositions, CreditInv, IdsOK, IsMint, NotAvailable
  <2>3. unstored \in Seq(Nat) /\ \A s \in DOMAIN unstored : unstored[s] \in 0 .. Len(deploys)
    BY <2>1 DEF Typed, CreditAndPositions, CreditInv, UnstoredOK, IsMint
  <2>4. /\ position \in Seq(Nat) /\ Len(position) = Len(unstored)
        /\ \A s \in DOMAIN position : position[s] <= Len(notifications)
    BY DEF Typed, CreditAndPositions, PositionsOK
  <2>5. Len(notifications) \in Nat
    BY AppendedList DEF Typed, CreditAndPositions, CreditInv, NotificationsOK
  <2>6. unstored \in [1 .. Len(position) -> 0 .. Len(deploys)]
    BY <2>3, <2>4
  <2>7. position \in [1 .. Len(unstored) -> 0 .. Len(notifications)]
    BY <2>3, <2>4, <2>5
  <2>8. \A k \in DOMAIN processed_events : processed_events[k] \in DOMAIN deploys
    BY DEF Typed, CreditAndPositions, CreditInv, EventsOK, IsAnswered
  <2> QED
    BY <2>2, <2>6, <2>7, <2>8 DEF TypeOK, Typed, PlatformOK, MapsOK, StreamsOK, LostOK, ChainOK
<1> QED
  BY <1>1, TypedInit, TypedStep, PTL DEF Spec

-----------------------------------------------------------------------------
(* No subscription mints a token twice.  What is still to come is counted  *)
(* with what is there: a subscription that stands ahead of the creation of *)
(* a token may still mint it once.                                         *)

Announced(t) ==
  {i \in DOMAIN notifications :
     notifications[i].kind = "CreateToken" /\ notifications[i].token = t}

Ahead(t) == {s \in DOMAIN position : \A i \in Announced(t) : position[s] < i}

AnnouncedOnce ==
  \A t \in Tokens : /\ \A i, j \in Announced(t) : i = j
                    /\ Announced(t) # {} => owner[t] # NoAccount

MintsAndAhead ==
  \A t \in Tokens : Cardinality(MintsOf(t)) + Cardinality(Ahead(t)) <= subscriptions

CountInv == Typed /\ AnnouncedOnce /\ subscriptions \in Nat /\ MintsAndAhead

LEMMA FiniteCounts ==
  ASSUME Typed, NEW t
  PROVE  /\ IsFiniteSet(MintsOf(t)) /\ Cardinality(MintsOf(t)) \in Nat
         /\ IsFiniteSet(Ahead(t)) /\ Cardinality(Ahead(t)) \in Nat
         /\ \A n \in MintsOf(t) : n <= Len(deploys)
         /\ Len(deploys) + 1 \notin MintsOf(t)
<1>1. Len(deploys) \in Nat /\ DOMAIN deploys = 1 .. Len(deploys)
  BY AppendedList DEF Typed, CreditAndPositions, CreditInv, DeploysOK
<1>2. Len(position) \in Nat /\ DOMAIN position = 1 .. Len(position)
  BY DEF Typed, CreditAndPositions, PositionsOK
<1>3. IsFiniteSet(DOMAIN deploys) /\ IsFiniteSet(DOMAIN position)
  BY <1>1, <1>2, FS_Interval
<1>4. MintsOf(t) \subseteq DOMAIN deploys /\ Ahead(t) \subseteq DOMAIN position
  BY DEF MintsOf, Ahead
<1>5. IsFiniteSet(MintsOf(t)) /\ IsFiniteSet(Ahead(t))
  BY <1>3, <1>4, FS_Subset
<1> QED
  BY <1>1, <1>4, <1>5, FS_CardinalityType

\* A token is created once, and owned from then on.
LEMMA AnnouncedStep == Typed /\ AnnouncedOnce /\ [Next]_vars => AnnouncedOnce'
<1> SUFFICES ASSUME Typed, AnnouncedOnce, [Next]_vars PROVE AnnouncedOnce'
  OBVIOUS
<1>1. CASE UNCHANGED <<notifications, owner>>
  BY <1>1 DEF AnnouncedOnce, Announced
<1>2. CASE PlatformStep
  <2>0. IsList(notifications)
    BY DEF Typed, CreditAndPositions, CreditInv, NotificationsOK
  <2>1. ASSUME NEW n, Notify(n), NEW t
        PROVE  Announced(t)' = IF n.kind = "CreateToken" /\ n.token = t
                                 THEN Announced(t) \cup {Len(notifications) + 1}
                                 ELSE Announced(t)
    <3>1. /\ DOMAIN notifications' = DOMAIN notifications \cup {Len(notifications) + 1}
          /\ \A k \in DOMAIN notifications : notifications'[k] = notifications[k]
          /\ notifications'[Len(notifications) + 1] = n
      BY <2>0, <2>1, AppendedList DEF Notify
    <3> QED
      BY <3>1 DEF Announced
  <2>2. ASSUME NEW n, Notify(n), n.kind # "CreateToken",
               \A t \in Tokens : owner[t] # NoAccount => owner'[t] # NoAccount
        PROVE  AnnouncedOnce'
    <3>1. \A t : Announced(t)' = Announced(t)
      BY <2>1, <2>2
    <3> QED
      BY <2>2, <3>1 DEF AnnouncedOnce
  <2>3. ASSUME owner' = owner, \E n : Notify(n) /\ n.kind # "CreateToken"
        PROVE  AnnouncedOnce'
    BY <2>2, <2>3
  <2>4. CASE \E p \in Projects : CreateProject(p)
    BY <2>3, <2>4 DEF CreateProject
  <2>5. CASE \E p \in Projects, a \in Accounts : \/ SignShareholderAgreement(p, a)
                                                \/ DeclineNdaAndLegReq(p, a)
                                                \/ RevokeSignature(p, a)
    BY <2>3, <2>5 DEF SignShareholderAgreement, DeclineNdaAndLegReq, RevokeSignature
  <2>6. CASE \E t \in Tokens, b \in Accounts : OffChainTransfer(t, b)
    <3>1. PICK u \in Tokens, b \in Accounts : OffChainTransfer(u, b)
      BY <2>6
    <3>2. \A t \in Tokens : owner[t] # NoAccount => owner'[t] # NoAccount
      BY <3>1, NoAccountAssumption DEF OffChainTransfer, Typed, PlatformOK
    <3>3. \E n : Notify(n) /\ n.kind # "CreateToken"
      BY <3>1 DEF OffChainTransfer
    <3> QED
      BY <2>2, <3>2, <3>3
  <2>7. CASE \E t \in Tokens, a \in Accounts : CreateToken(t, a)
    <3>1. PICK u \in Tokens, a \in Accounts : CreateToken(u, a)
      BY <2>7
    <3> DEFINE n == [kind |-> "CreateToken", account |-> a, token |-> u]
    <3>2. Notify(n) /\ n.kind = "CreateToken" /\ n.token = u
      BY <3>1 DEF CreateToken
    <3> HIDE DEF n
    <3>3. Announced(u) = {}
      BY <3>1 DEF CreateToken, AnnouncedOnce
    <3>4. \A t : Announced(t)' = IF t = u THEN {Len(notifications) + 1} ELSE Announced(t)
      BY <2>1, <3>2, <3>3
    <3>5. \A t \in Tokens : owner'[t] = IF t = u THEN a ELSE owner[t]
      BY <3>1 DEF CreateToken, Typed, PlatformOK
    <3> QED
      BY <3>4, <3>5, NoAccountAssumption DEF AnnouncedOnce
  <2> QED
    BY <1>2, <2>4, <2>5, <2>6, <2>7 DEF PlatformStep
<1>3. CASE ApiStep \/ ChainStep \/ UNCHANGED vars
  <2>1. UNCHANGED <<notifications, owner>>
    BY <1>3 DEF ApiStep, Subscribe, SubscriptionStep, Store, Consume, ContractMissing, PutThrows,
                HearAccepted, HearProcessed, Restart, ChainStep, Execute, Refuse, RunOutOfGas,
                TransferByOwner, TransferElsewhere, PutByOthers, platform, vars
  <2> QED
    BY <1>1, <2>1
<1> QED
  BY <1>2, <1>3 DEF Next

LEMMA MintsWhenPut ==
  ASSUME Typed, NEW x, deploys' = Append(deploys, x), NEW t
  PROVE  MintsOf(t)' = IF x.call.kind = "mint" /\ x.call.token = t
                         THEN MintsOf(t) \cup {Len(deploys) + 1} ELSE MintsOf(t)
<1>1. /\ DOMAIN deploys' = DOMAIN deploys \cup {Len(deploys) + 1}
      /\ \A k \in DOMAIN deploys : deploys'[k] = deploys[k]
      /\ deploys'[Len(deploys) + 1] = x
  BY AppendedList DEF Typed, CreditAndPositions, CreditInv, DeploysOK
<1> QED
  BY <1>1 DEF MintsOf

LEMMA MintsWhenConcluded ==
  ASSUME Typed, NEW n \in DOMAIN deploys, NEW r \in {"succeeded", "failed"}, Conclude(n, r),
         UNCHANGED notifications, NEW t
  PROVE  MintsOf(t)' = MintsOf(t)
<1>1. Endures
  BY ConcludeEndures DEF Typed, CreditAndPositions, CreditInv, NotificationsStay
<1>2. DOMAIN deploys' = DOMAIN deploys
  BY ReplacedInList DEF Conclude, Typed, CreditAndPositions, CreditInv, DeploysOK
<1> QED
  BY <1>1, <1>2 DEF MintsOf, Endures

\* Where no subscription is added or set back, none gets ahead again.
LEMMA AheadShrinks ==
  ASSUME Typed, NotificationsStay, NEW t,
         DOMAIN position' \subseteq DOMAIN position,
         \A s \in DOMAIN position' : position'[s] \in Nat /\ position'[s] >= position[s]
  PROVE  Ahead(t)' \subseteq Ahead(t)
<1>1. Announced(t) \subseteq Announced(t)'
  BY DEF Announced, NotificationsStay
<1>2. Announced(t) \subseteq Nat
  BY AppendedList DEF Announced, Typed, CreditAndPositions, CreditInv, NotificationsOK
<1>3. \A s \in DOMAIN position : position[s] \in Nat
  BY DEF Typed, CreditAndPositions, PositionsOK
<1> QED
  BY <1>1, <1>2, <1>3 DEF Ahead

LEMMA CountsKept ==
  ASSUME CountInv, UNCHANGED subscriptions, NEW t \in Tokens,
         MintsOf(t)' = MintsOf(t), Ahead(t)' \subseteq Ahead(t)
  PROVE  Cardinality(MintsOf(t)') + Cardinality(Ahead(t)') <= subscriptions'
<1>1. Cardinality(Ahead(t)') <= Cardinality(Ahead(t)) /\ Cardinality(Ahead(t)') \in Nat
  BY FiniteCounts, FS_Subset, FS_CardinalityType DEF CountInv
<1>2. Cardinality(MintsOf(t)) + Cardinality(Ahead(t)) <= subscriptions
  BY DEF CountInv, MintsAndAhead
<1> QED
  BY <1>1, <1>2, FiniteCounts DEF CountInv

\* The subscription that mints is no longer ahead.
LEMMA CountsWhenConsumed ==
  ASSUME CountInv, NEW s \in DOMAIN position, NEW i \in DOMAIN notifications,
         IsNext(s, notifications[i]), Put(DeployFor(notifications[i])),
         position' = Advanced(s), UNCHANGED <<notifications, subscriptions>>,
         NEW t \in Tokens
  PROVE  Cardinality(MintsOf(t)') + Cardinality(Ahead(t)') <= subscriptions'
<1> DEFINE n == notifications[i]
           q == DeployFor(n)
           x == [call |-> q, contract |-> nft_contract, by |-> "API", status |-> "pending"]
           p == position[s] + 1
<1>1. /\ \A r \in DOMAIN position : position[r] \in Nat
      /\ DOMAIN position' = DOMAIN position
      /\ \A r \in DOMAIN position : position'[r] = IF r = s THEN p ELSE position[r]
  BY DEF CountInv, Typed, CreditAndPositions, PositionsOK, Advanced
<1>2. NotificationsStay
  BY DEF NotificationsStay
<1>3. Ahead(t)' \subseteq Ahead(t)
  BY <1>1, <1>2, AheadShrinks DEF CountInv
<1>4. /\ q.kind = "mint" <=> n.kind = "CreateToken"
      /\ q.kind = "mint" => n = Creation(q.token, q.to)
  BY MintFor DEF CountInv, Typed, CreditAndPositions, CreditInv
<1>5. q.kind = "mint" => n.token = q.token
  BY <1>4 DEF Creation
<1>6. deploys' = Append(deploys, x) /\ x.call = q
  BY DEF Put
<1> HIDE DEF x, q
<1>7. MintsOf(t)' = IF q.kind = "mint" /\ q.token = t
                      THEN MintsOf(t) \cup {Len(deploys) + 1} ELSE MintsOf(t)
  BY <1>6, MintsWhenPut DEF CountInv
<1>8. CASE ~ (q.kind = "mint" /\ q.token = t)
  BY <1>3, <1>7, <1>8, CountsKept
<1>9. CASE q.kind = "mint" /\ q.token = t
  <2>1. n = notifications[p] /\ p \in DOMAIN notifications
    <3>1. position[s] < Len(notifications) /\ n = notifications[p]
      BY DEF IsNext
    <3>2. Len(notifications) \in Nat /\ DOMAIN notifications = 1 .. Len(notifications)
      BY AppendedList DEF CountInv, Typed, CreditAndPositions, CreditInv, NotificationsOK
    <3> QED
      BY <1>1, <3>1, <3>2
  <2>2. p \in Announced(t)
    BY <1>4, <1>5, <1>9, <2>1 DEF Announced
  <2>3. \A j \in Announced(t) : j = p
    BY <2>2 DEF CountInv, AnnouncedOnce
  <2>4. s \in Ahead(t)
    BY <1>1, <2>3 DEF Ahead
  <2>5. s \notin Ahead(t)'
    <3>1. p \in Announced(t)'
      BY <2>2 DEF Announced
    <3>2. ~ (position'[s] < p)
      BY <1>1
    <3> QED
      BY <3>1, <3>2 DEF Ahead
  <2> DEFINE A == Ahead(t) \ {s}
  <2>6. Cardinality(A) = Cardinality(Ahead(t)) - 1 /\ IsFiniteSet(A)
    BY <2>4, FiniteCounts, FS_RemoveElement DEF CountInv
  <2>7. Cardinality(Ahead(t)') <= Cardinality(A) /\ Cardinality(Ahead(t)') \in Nat
    BY <1>3, <2>5, <2>6, FS_Subset, FS_CardinalityType
  <2>8. Cardinality(MintsOf(t)') = Cardinality(MintsOf(t)) + 1
    BY <1>7, <1>9, FiniteCounts, FS_AddElement DEF CountInv
  <2>9. Cardinality(MintsOf(t)) + Cardinality(Ahead(t)) <= subscriptions
    BY DEF CountInv, MintsAndAhead
  <2>10. Cardinality(MintsOf(t)) \in Nat /\ Cardinality(Ahead(t)) \in Nat /\ subscriptions \in Nat
    BY FiniteCounts DEF CountInv
  <2> QED
    BY <2>6, <2>7, <2>8, <2>9, <2>10
<1> QED
  BY <1>8, <1>9

LEMMA SubscriptionsCounted == subscriptions \in Nat /\ [Next]_vars => subscriptions' \in Nat
<1> SUFFICES ASSUME subscriptions \in Nat, [Next]_vars PROVE subscriptions' \in Nat
  OBVIOUS
<1>1. CASE PlatformStep \/ ChainStep \/ UNCHANGED vars
  BY <1>1 DEF PlatformStep, ChainStep, Execute, Refuse, RunOutOfGas, TransferByOwner,
              TransferElsewhere, PutByOthers, consumers, vars
<1>2. CASE Subscribe
  BY <1>2 DEF Subscribe
<1>3. CASE HearProcessed \/ Restart \/ \E n \in accepted_events : HearAccepted(n)
  BY <1>3 DEF HearProcessed, Restart, HearAccepted, consumers
<1>4. CASE \E s \in DOMAIN position : SubscriptionStep(s)
  BY <1>4 DEF SubscriptionStep, Store, Consume, ContractMissing, PutThrows
<1> QED
  BY <1>1, <1>2, <1>3, <1>4 DEF Next, ApiStep

LEMMA CountsStep == CountInv /\ [Next]_vars => MintsAndAhead'
<1> SUFFICES ASSUME CountInv, [Next]_vars, NEW t \in Tokens
             PROVE  Cardinality(MintsOf(t)') + Cardinality(Ahead(t)') <= subscriptions'
  BY DEF MintsAndAhead
<1>0. /\ Typed /\ subscriptions \in Nat
      /\ \A s \in DOMAIN position : position[s] \in Nat
  BY DEF CountInv, Typed, CreditAndPositions, PositionsOK
<1>1. CASE PlatformStep
  <2>1. UNCHANGED <<position, subscriptions>>
    BY <1>1 DEF PlatformStep, consumers
  <2>2. NotificationsStay /\ deploys' = deploys
    BY <1>1, PlatformNotifies DEF CountInv, Typed, CreditAndPositions, CreditInv
  <2>3. MintsOf(t)' = MintsOf(t) /\ Ahead(t)' \subseteq Ahead(t)
    BY <1>0, <2>1, <2>2, AheadShrinks DEF MintsOf
  <2> QED
    BY <1>0, <2>1, <2>3, CountsKept
<1>2. CASE Subscribe
  <2>1. /\ UNCHANGED <<notifications, deploys>> /\ subscriptions' = subscriptions + 1
        /\ position' = Append(position, 0)
    BY <1>2 DEF Subscribe, StartOfStream, platform
  <2>2. /\ position \in Seq(Nat) /\ Len(position) \in Nat /\ DOMAIN position = 1 .. Len(position)
        /\ DOMAIN position' = DOMAIN position \cup {Len(position) + 1}
        /\ \A s \in DOMAIN position : position'[s] = position[s]
    BY <2>1 DEF CountInv, Typed, CreditAndPositions, PositionsOK
  <2>3. MintsOf(t)' = MintsOf(t) /\ Announced(t)' = Announced(t)
    BY <2>1 DEF MintsOf, Announced
  <2> DEFINE A == Ahead(t) \cup {Len(position) + 1}
  <2>4. Ahead(t)' \subseteq A
    BY <2>2, <2>3 DEF Ahead
  <2>5. Len(position) + 1 \notin Ahead(t)
    BY <2>2 DEF Ahead
  <2>6. IsFiniteSet(A) /\ Cardinality(A) = Cardinality(Ahead(t)) + 1
    BY <1>0, <2>5, FiniteCounts, FS_AddElement
  <2>7. Cardinality(Ahead(t)') <= Cardinality(A) /\ Cardinality(Ahead(t)') \in Nat
    BY <2>4, <2>6, FS_Subset, FS_CardinalityType
  <2>8. Cardinality(MintsOf(t)) + Cardinality(Ahead(t)) <= subscriptions
    BY DEF CountInv, MintsAndAhead
  <2>9. Cardinality(MintsOf(t)) \in Nat /\ Cardinality(Ahead(t)) \in Nat
    BY <1>0, FiniteCounts
  <2> QED
    BY <1>0, <2>1, <2>3, <2>6, <2>7, <2>8, <2>9
<1>3. CASE \E s \in DOMAIN position : Store(s)
  <2>1. UNCHANGED <<notifications, deploys, position, subscriptions>>
    BY <1>3 DEF Store, platform
  <2>2. MintsOf(t)' = MintsOf(t) /\ Ahead(t)' \subseteq Ahead(t)
    BY <2>1 DEF MintsOf, Ahead, Announced
  <2> QED
    BY <1>0, <2>1, <2>2, CountsKept
<1>4. CASE \E s \in DOMAIN position, i \in DOMAIN notifications :
             \/ Consume(s, notifications[i])
             \/ ContractMissing(s, notifications[i])
             \/ PutThrows(s, notifications[i])
  <2>1. PICK s \in DOMAIN position, i \in DOMAIN notifications :
             \/ Consume(s, notifications[i])
             \/ ContractMissing(s, notifications[i])
             \/ PutThrows(s, notifications[i])
    BY <1>4
  <2>2. /\ IsNext(s, notifications[i]) /\ position' = Advanced(s)
        /\ UNCHANGED <<notifications, subscriptions>>
    BY <2>1 DEF Consume, ContractMissing, PutThrows, Fails, AfterException, platform
  <2>3. CASE Put(DeployFor(notifications[i]))
    BY <1>0, <2>2, <2>3, CountsWhenConsumed
  <2>4. CASE deploys' = deploys
    <3>1. /\ DOMAIN position' = DOMAIN position
          /\ \A r \in DOMAIN position : position'[r] \in Nat /\ position'[r] >= position[r]
      BY <1>0, <2>2 DEF Advanced
    <3>2. NotificationsStay
      BY <2>2 DEF NotificationsStay
    <3>3. MintsOf(t)' = MintsOf(t) /\ Ahead(t)' \subseteq Ahead(t)
      BY <1>0, <2>4, <3>1, <3>2, AheadShrinks DEF MintsOf
    <3> QED
      BY <1>0, <2>2, <3>3, CountsKept
  <2> QED
    BY <2>1, <2>3, <2>4 DEF Consume, ContractMissing, PutThrows
<1>5. CASE (\E n \in accepted_events : HearAccepted(n)) \/ HearProcessed \/ UNCHANGED vars
  <2>1. UNCHANGED <<notifications, deploys, position, subscriptions>>
    BY <1>5 DEF HearAccepted, HearProcessed, vars, platform, consumers
  <2>2. MintsOf(t)' = MintsOf(t) /\ Ahead(t)' \subseteq Ahead(t)
    BY <2>1 DEF MintsOf, Ahead, Announced
  <2> QED
    BY <1>0, <2>1, <2>2, CountsKept
<1>6. CASE Restart
  <2>1. UNCHANGED <<deploys, subscriptions>> /\ position' = <<>>
    BY <1>6 DEF Restart
  <2>2. MintsOf(t)' = MintsOf(t) /\ Ahead(t)' \subseteq Ahead(t)
    BY <2>1 DEF MintsOf, Ahead
  <2> QED
    BY <1>0, <2>1, <2>2, CountsKept
<1>7. CASE ChainStep
  <2>1. UNCHANGED <<notifications, position, subscriptions>>
    BY <1>7 DEF ChainStep, Execute, Refuse, RunOutOfGas, TransferByOwner, TransferElsewhere,
                PutByOthers, platform, consumers
  <2>2. Ahead(t)' \subseteq Ahead(t)
    BY <2>1 DEF Ahead, Announced
  <2>3. CASE \E n \in DOMAIN deploys : Execute(n) \/ Refuse(n) \/ RunOutOfGas(n)
    <3>1. \E n \in DOMAIN deploys, r \in {"succeeded", "failed"} : Conclude(n, r)
      BY <2>3 DEF Execute, Refuse, RunOutOfGas
    <3>2. MintsOf(t)' = MintsOf(t)
      BY <1>0, <2>1, <3>1, MintsWhenConcluded
    <3> QED
      BY <1>0, <2>1, <2>2, <3>2, CountsKept
  <2>4. ASSUME NEW call, call.kind # "mint", NEW contract, NEW who,
               PutByOthers(call, contract, who)
        PROVE  MintsOf(t)' = MintsOf(t)
    <3> DEFINE x == [call |-> call, contract |-> contract, by |-> who, status |-> "pending"]
    <3>1. deploys' = Append(deploys, x) /\ x.call = call
      BY <2>4 DEF PutByOthers
    <3> HIDE DEF x
    <3> QED
      BY <1>0, <2>4, <3>1, MintsWhenPut
  <2>5. CASE \E id \in DOMAIN token_owners, b \in Accounts : TransferByOwner(id, b)
    <3>1. PICK id \in DOMAIN token_owners, b \in Accounts : TransferByOwner(id, b)
      BY <2>5
    <3> DEFINE call == [kind |-> "transfer", id |-> id, from |-> token_owners[id], to |-> b]
    <3>2. call.kind # "mint" /\ PutByOthers(call, deploys[id].contract, "owner")
      BY <3>1 DEF TransferByOwner
    <3>3. MintsOf(t)' = MintsOf(t)
      BY <2>4, <3>2
    <3> QED
      BY <1>0, <2>1, <2>2, <3>3, CountsKept
  <2>6. CASE TransferElsewhere
    <3> DEFINE call == [kind |-> "foreign"]
    <3>1. call.kind # "mint" /\ PutByOthers(call, 0, "others")
      BY <2>6 DEF TransferElsewhere
    <3>2. MintsOf(t)' = MintsOf(t)
      BY <2>4, <3>1
    <3> QED
      BY <1>0, <2>1, <2>2, <3>2, CountsKept
  <2> QED
    BY <1>7, <2>3, <2>5, <2>6 DEF ChainStep
<1> QED
  BY <1>1, <1>2, <1>3, <1>4, <1>5, <1>6, <1>7, StepCases

LEMMA CountInit == Init => CountInv
<1> SUFFICES ASSUME Init PROVE CountInv
  OBVIOUS
<1>1. Typed
  BY TypedInit
<1>2. AnnouncedOnce
  BY DEF Init, Announced, AnnouncedOnce
<1>3. subscriptions = 0 /\ \A t : MintsOf(t) = {} /\ Ahead(t) = {}
  BY DEF Init, MintsOf, Ahead
<1>4. Cardinality({}) = 0
  BY FS_EmptySet
<1> QED
  BY <1>1, <1>2, <1>3, <1>4 DEF CountInv, MintsAndAhead

LEMMA CountStep == CountInv /\ [Next]_vars => CountInv'
BY TypedStep, AnnouncedStep, SubscriptionsCounted, CountsStep DEF CountInv

\* A token is minted no more often than /dx/sse/start was called, in all the
\* lives of the API together and whatever its deploys run into.
THEOREM MintedPerSubscription == Spec => []OneMintPerSubscription
<1>1. CountInv => OneMintPerSubscription
  BY FiniteCounts DEF CountInv, MintsAndAhead, OneMintPerSubscription
<1> QED
  BY <1>1, CountInit, CountStep, PTL DEF Spec
=============================================================================
