------------------------ MODULE BridgeAgreementProofs ------------------------
(***************************************************************************)
(* Theorems about Bridge: in what the platform and the chain agree once    *)
(* everything in flight has arrived.                                       *)
(*                                                                         *)
(* Nothing orders the deploys in flight, so the owner of a twin cannot be  *)
(* told from the last announcement.  But it can from counting: whoever has *)
(* got the token once more than sent it is its owner, in whatever order    *)
(* that happened, and if every announcement was put equally often, the     *)
(* chain counts as the platform does.                                      *)
(*                                                                         *)
(* And identifiers arrive because a creation that a subscription has       *)
(* passed leaves a trace all the way: a mint in flight, or its event in    *)
(* the queue, and its hash with the API; what breaks the trace is named.   *)
(***************************************************************************)
EXTENDS BridgeProofs

-----------------------------------------------------------------------------
(* How lists change, element by element.                                   *)

LEMMA ListsTyped ==
  ASSUME Typed
  PROVE  /\ Len(notifications) \in Nat /\ DOMAIN notifications = 1 .. Len(notifications)
         /\ Len(deploys) \in Nat /\ DOMAIN deploys = 1 .. Len(deploys)
         /\ position \in Seq(Nat) /\ Len(position) \in Nat /\ DOMAIN position = 1 .. Len(position)
         /\ \A s \in DOMAIN position : position[s] \in Nat /\ position[s] <= Len(notifications)
BY AppendedList DEF Typed, CreditAndPositions, CreditInv, NotificationsOK, DeploysOK, PositionsOK

LEMMA NotifyAppends ==
  ASSUME Typed, NEW n, Notify(n)
  PROVE  /\ DOMAIN notifications' = DOMAIN notifications \cup {Len(notifications) + 1}
         /\ \A i \in DOMAIN notifications : notifications'[i] = notifications[i]
         /\ notifications'[Len(notifications) + 1] = n
         /\ Len(notifications) + 1 \notin DOMAIN notifications
         /\ Len(notifications') = Len(notifications) + 1
BY AppendedList, ListsTyped DEF Notify, Typed, CreditAndPositions, CreditInv, NotificationsOK

LEMMA PutAppends ==
  ASSUME Typed, NEW x, deploys' = Append(deploys, x)
  PROVE  /\ DOMAIN deploys' = DOMAIN deploys \cup {Len(deploys) + 1}
         /\ \A n \in DOMAIN deploys : deploys'[n] = deploys[n]
         /\ deploys'[Len(deploys) + 1] = x
         /\ Len(deploys) + 1 \notin DOMAIN deploys
BY AppendedList, ListsTyped DEF Typed, CreditAndPositions, CreditInv, DeploysOK

LEMMA ConcludeReplaces ==
  ASSUME Typed, NEW n \in DOMAIN deploys, NEW r, Conclude(n, r)
  PROVE  /\ DOMAIN deploys' = DOMAIN deploys
         /\ \A m \in DOMAIN deploys : /\ deploys'[m].call = deploys[m].call
                                      /\ deploys'[m].contract = deploys[m].contract
                                      /\ deploys'[m].by = deploys[m].by
                                      /\ m # n => deploys'[m].status = deploys[m].status
         /\ deploys[n].status = "pending" /\ deploys'[n].status = r
<1> DEFINE d == deploys[n]
           e == [d EXCEPT !.status = r]
<1>1. deploys' = [deploys EXCEPT ![n] = e] /\ d.status = "pending"
  BY DEF Conclude
<1>2. IsList(deploys) /\ d = [call |-> d.call, contract |-> d.contract, by |-> d.by, status |-> d.status]
  BY DEF Typed, CreditAndPositions, CreditInv, DeploysOK, IsDeploy
<1>3. e = [call |-> d.call, contract |-> d.contract, by |-> d.by, status |-> r]
  BY <1>2
<1>4. e.call = d.call /\ e.contract = d.contract /\ e.by = d.by /\ e.status = r
  BY <1>3
<1> HIDE DEF e
<1>5. DOMAIN deploys' = DOMAIN deploys
  BY <1>1, <1>2, ReplacedInList
<1>6. \A m \in DOMAIN deploys : deploys'[m] = IF m = n THEN e ELSE deploys[m]
  BY <1>1, <1>2 DEF IsList
<1> QED
  BY <1>1, <1>4, <1>5, <1>6

-----------------------------------------------------------------------------
(* What the steps do to the history of transfers.                          *)

\* A platform step announces one thing.
LEMMA PlatformCases ==
  ASSUME PlatformStep
  PROVE  \/ \E n : /\ Notify(n) /\ n.kind \notin {"CreateToken", "TransferToken"}
                   /\ UNCHANGED <<owner, traded, bcId>>
         \/ \E t \in Tokens, a \in Accounts : CreateToken(t, a)
         \/ \E t \in Tokens, b \in Accounts : OffChainTransfer(t, b)
<1>1. ASSUME NEW p \in Projects, CreateProject(p)
      PROVE  \E n : /\ Notify(n) /\ n.kind \notin {"CreateToken", "TransferToken"}
                   /\ UNCHANGED <<owner, traded, bcId>>
  BY <1>1 DEF CreateProject
<1>2. ASSUME NEW p \in Projects, NEW a \in Accounts,
             \/ SignShareholderAgreement(p, a)
             \/ DeclineNdaAndLegReq(p, a)
             \/ RevokeSignature(p, a)
      PROVE  \E n : /\ Notify(n) /\ n.kind \notin {"CreateToken", "TransferToken"}
                   /\ UNCHANGED <<owner, traded, bcId>>
  BY <1>2 DEF SignShareholderAgreement, DeclineNdaAndLegReq, RevokeSignature
<1> QED
  BY <1>1, <1>2 DEF PlatformStep

\* A consumer puts the deploy for a notification.
PutFor(n) == ContractFound(n) /\ Put(DeployFor(n))

\* Somebody else puts a deploy.
PutElse ==
  \E x : /\ deploys' = Append(deploys, x) /\ x.by # "API" /\ x.status = "pending"
         /\ x.call.kind \in {"transfer", "foreign"}

LEMMA OthersPut ==
  ASSUME NEW call, NEW contract, NEW who, PutByOthers(call, contract, who),
         call.kind \in {"transfer", "foreign"}, who # "API"
  PROVE  PutElse
<1> DEFINE x == [call |-> call, contract |-> contract, by |-> who, status |-> "pending"]
<1>1. deploys' = Append(deploys, x)
  BY DEF PutByOthers
<1>2. x.by = who /\ x.status = "pending" /\ x.call = call
  OBVIOUS
<1> HIDE DEF x
<1> QED
  BY <1>1, <1>2 DEF PutElse

\* What the steps of the chain do to deploys and twins.
LEMMA ChainCases ==
  ASSUME ChainStep
  PROVE  /\ UNCHANGED <<platform, maps, consumers, bounds, restarts>>
         /\ \/ \E n \in DOMAIN deploys : Execute(n)
            \/ /\ \E n \in DOMAIN deploys : Conclude(n, "failed")
               /\ UNCHANGED chain
            \/ PutElse /\ UNCHANGED chain
<1>1. CASE \E n \in DOMAIN deploys : Execute(n) \/ Refuse(n) \/ RunOutOfGas(n)
  BY <1>1 DEF Execute, Refuse, RunOutOfGas, counters
<1>2. CASE \E id \in DOMAIN token_owners, b \in Accounts : TransferByOwner(id, b)
  <2>1. PICK id \in DOMAIN token_owners, b \in Accounts : TransferByOwner(id, b)
    BY <1>2
  <2> DEFINE call == [kind |-> "transfer", id |-> id, from |-> token_owners[id], to |-> b]
  <2>2. call.kind = "transfer" /\ PutByOthers(call, deploys[id].contract, "owner")
    BY <2>1 DEF TransferByOwner
  <2> HIDE DEF call
  <2> QED
    BY <2>2, OthersPut DEF PutByOthers
<1>3. CASE TransferElsewhere
  <2> DEFINE call == [kind |-> "foreign"]
  <2>1. call.kind = "foreign" /\ PutByOthers(call, 0, "others")
    BY <1>3 DEF TransferElsewhere
  <2> HIDE DEF call
  <2> QED
    BY <2>1, OthersPut DEF PutByOthers
<1> QED
  BY <1>1, <1>2, <1>3 DEF ChainStep

\* A subscription goes on to notification i, puts a deploy for it or does not,
\* and loses it or does not.
Advances(s, i) ==
  /\ s \in DOMAIN position /\ i \in DOMAIN notifications
  /\ i = position[s] + 1
  /\ DOMAIN position' = DOMAIN position
  /\ \A r \in DOMAIN position : position'[r] = IF r = s THEN i ELSE position[r]
  /\ \/ PutFor(notifications[i]) /\ lost' = lost
     \/ PutFor(notifications[i]) /\ lost' = lost \cup {i}
     \/ deploys' = deploys /\ lost' = lost \cup {i}

\* IsNext names a notification by its content; the one that is consumed stands
\* at the position behind.
LEMMA SubscriptionCases ==
  ASSUME Typed, NEW s \in DOMAIN position, NEW j \in DOMAIN notifications,
         \/ Consume(s, notifications[j])
         \/ ContractMissing(s, notifications[j])
         \/ PutThrows(s, notifications[j])
  PROVE  /\ \E i : Advances(s, i)
         /\ UNCHANGED <<platform, maps, subscriptions, chain, bounds, restarts>>
<1> DEFINE i == position[s] + 1
<1>1. /\ position[s] < Len(notifications) /\ notifications[j] = notifications[i]
      /\ position' = Advanced(s)
      /\ UNCHANGED <<platform, maps, subscriptions, chain, bounds, restarts>>
  BY DEF Consume, ContractMissing, PutThrows, IsNext, Fails, AfterException, counters
<1>2. i \in DOMAIN notifications
  BY <1>1, ListsTyped
<1>3. /\ DOMAIN position' = DOMAIN position
      /\ \A r \in DOMAIN position : position'[r] = IF r = s THEN i ELSE position[r]
  BY <1>1, ListsTyped DEF Advanced
<1>4. \/ PutFor(notifications[i]) /\ lost' = lost
      \/ PutFor(notifications[i]) /\ lost' = lost \cup {i}
      \/ deploys' = deploys /\ lost' = lost \cup {i}
  BY <1>1 DEF Consume, ContractMissing, PutThrows, Fails, PutFor, ContractFound
<1>5. Advances(s, i)
  BY <1>2, <1>3, <1>4 DEF Advances
<1> QED
  BY <1>1, <1>5

\* All steps, as far as transfers are concerned.
LEMMA AgreementCases ==
  ASSUME Typed, [Next]_vars
  PROVE  \/ /\ PlatformStep
            /\ UNCHANGED <<position, lost, subscriptions, chain, deploys, restarts>>
         \/ Subscribe
         \/ /\ \E s, i : Advances(s, i)
            /\ UNCHANGED <<platform, subscriptions, chain, restarts>>
         \/ /\ HearProcessed
            /\ UNCHANGED <<owner, traded, notifications, position, lost, subscriptions, chain,
                           deploys, restarts>>
         \/ Restart
         \/ /\ ChainStep
            /\ UNCHANGED <<platform, position, lost, subscriptions, restarts>>
         \/ UNCHANGED <<platform, position, lost, subscriptions, chain, deploys, restarts>>
<1>1. CASE UNCHANGED vars
  BY <1>1 DEF vars, consumers, counters
<1>2. CASE PlatformStep
  BY <1>2 DEF PlatformStep, consumers, counters
<1>3. CASE \E s \in DOMAIN position : Store(s)
  BY <1>3 DEF Store, counters
<1>4. CASE \E s \in DOMAIN position, i \in DOMAIN notifications :
             \/ Consume(s, notifications[i])
             \/ ContractMissing(s, notifications[i])
             \/ PutThrows(s, notifications[i])
  BY <1>4, SubscriptionCases
<1>5. CASE \E n \in accepted_events : HearAccepted(n)
  BY <1>5 DEF HearAccepted, consumers, counters
<1>6. CASE HearProcessed
  BY <1>6 DEF HearProcessed, consumers, counters
<1>7. CASE ChainStep
  BY <1>7, ChainCases DEF consumers
<1> QED
  BY <1>1, <1>2, <1>3, <1>4, <1>5, <1>6, <1>7, StepCases

-----------------------------------------------------------------------------
(* The counts.  An end of a transfer is its sender or its receiver.        *)

Ends == {"from", "to"}

Same(x, y) == IF x = y THEN 1 ELSE 0

\* The counts are taken of given lists, so that those before and after a step
\* are instances of the same operators.

\* Transfers of id announced in ns, with v at one end.
IsTold(n, id, end, v) == n.kind = "TransferToken" /\ n.id = id /\ n[end] = v

Told(ns, id, end, v) == {i \in DOMAIN ns : IsTold(ns[i], id, end, v)}

\* Each as often as it was consumed, by subscriptions at positions ps.
Consumed(ns, ps, id, end, v) ==
  {p \in (DOMAIN ps) \X (DOMAIN ns) : p[2] \in Told(ns, id, end, v) /\ p[2] <= ps[p[1]]}

IsTransfer(d, id) == d.call.kind = "transfer" /\ d.call.id = id

\* Deploys of the API in ds among the transfers of id.
IsRelayed(d, id, end, v) == IsTransfer(d, id) /\ d.by = "API" /\ d.call[end] = v

Relayed(ds, id, end, v) == {n \in DOMAIN ds : IsRelayed(ds[n], id, end, v)}

\* Transfers of id that went through, whoever put them.
IsExecuted(d, id, end, v) == IsTransfer(d, id) /\ d.status = "succeeded" /\ d.call[end] = v

Executed(ds, id, end, v) == {n \in DOMAIN ds : IsExecuted(ds[n], id, end, v)}

\* The platform's side: who got a token once more than he sent it owns it.
\* Before its first transfer nothing was announced under its identifier.
TitlesToldOK ==
  /\ \A i \in DOMAIN notifications :
       notifications[i].kind = "TransferToken" /\ notifications[i].id # NotAvailable =>
         \E t \in traded : notifications[i].id = bcId[t]
  /\ \A t \in Tokens \ traded, a \in Accounts :
       (\E i \in DOMAIN notifications : notifications[i] = Creation(t, a)) => owner[t] = a
  /\ \A t \in Tokens, v \in Accounts :
       bcId[t] # NotAvailable =>
         Cardinality(Told(notifications, bcId[t], "to", v)) + Same(v, deploys[bcId[t]].call.to)
           = Cardinality(Told(notifications, bcId[t], "from", v)) + Same(v, owner[t])

\* In between: as long as nothing is lost, what was consumed was put.
RelayOK ==
  restarts = 0 =>
    \A id \in Nat, end \in Ends, v \in Accounts :
      ~ LostTransfer(id) =>
        Cardinality(Relayed(deploys, id, end, v))
          = Cardinality(Consumed(notifications, position, id, end, v))

\* The chain's side.
TitlesExecutedOK ==
  /\ \A id \in DOMAIN token_owners : IsAnswered(id)
  /\ \A n \in DOMAIN deploys :
       deploys[n].call.kind = "transfer" /\ deploys[n].status = "succeeded" =>
         deploys[n].call.id \in DOMAIN token_owners
  /\ \A id \in DOMAIN token_owners, v \in Accounts :
       Cardinality(Executed(deploys, id, "to", v)) + Same(v, deploys[id].call.to)
         = Cardinality(Executed(deploys, id, "from", v)) + Same(v, token_owners[id])

TwinsInv ==
  CountInv /\ restarts \in Nat /\ TitlesToldOK /\ RelayOK /\ TitlesExecutedOK

LEMMA FiniteTransfers ==
  ASSUME Typed, NEW id, NEW end, NEW v
  PROVE  /\ IsFiniteSet(Told(notifications, id, end, v))
         /\ Cardinality(Told(notifications, id, end, v)) \in Nat
         /\ IsFiniteSet(Consumed(notifications, position, id, end, v))
         /\ Cardinality(Consumed(notifications, position, id, end, v)) \in Nat
         /\ IsFiniteSet(Relayed(deploys, id, end, v)) /\ Cardinality(Relayed(deploys, id, end, v)) \in Nat
         /\ IsFiniteSet(Executed(deploys, id, end, v)) /\ Cardinality(Executed(deploys, id, end, v)) \in Nat
<1>1. /\ IsFiniteSet(DOMAIN notifications) /\ IsFiniteSet(DOMAIN deploys)
      /\ IsFiniteSet(DOMAIN position)
  BY ListsTyped, FS_Interval
<1>2. IsFiniteSet((DOMAIN position) \X (DOMAIN notifications))
  BY <1>1, FS_Product
<1>3. /\ Told(notifications, id, end, v) \subseteq DOMAIN notifications
      /\ Consumed(notifications, position, id, end, v) \subseteq (DOMAIN position) \X (DOMAIN notifications)
      /\ Relayed(deploys, id, end, v) \subseteq DOMAIN deploys
      /\ Executed(deploys, id, end, v) \subseteq DOMAIN deploys
  BY DEF Told, Consumed, Relayed, Executed, TransfersOf
<1> QED
  BY <1>1, <1>2, <1>3, FS_Subset, FS_CardinalityType

-----------------------------------------------------------------------------
(* The platform's side.                                                    *)

\* Deploys keep their calls, and are never put back in flight.
LEMMA CallsEndure == Typed /\ [Next]_vars => Endures
<1> SUFFICES ASSUME Typed, [Next]_vars PROVE Endures
  OBVIOUS
<1>1. CASE deploys' = deploys
  BY <1>1 DEF Endures
<1>2. CASE \E x : deploys' = Append(deploys, x)
  BY <1>2, PutAppends DEF Endures
<1>3. CASE \E n \in DOMAIN deploys : \E r \in {"succeeded", "failed"} : Conclude(n, r)
  <2>1. PICK n \in DOMAIN deploys, r \in {"succeeded", "failed"} : Conclude(n, r)
    BY <1>3
  <2> QED
    BY <2>1, ConcludeReplaces DEF Endures
<1>4. CASE ChainStep
  BY <1>2, <1>3, <1>4, ChainCases DEF PutElse, Execute
<1>5. CASE Subscribe \/ Restart
  BY <1>1, <1>5 DEF Subscribe, Restart
<1>6. CASE \E s, i : Advances(s, i)
  BY <1>1, <1>2, <1>6 DEF Advances, PutFor, Put
<1> QED
  BY <1>1, <1>4, <1>5, <1>6, AgreementCases

\* An identifier is of one token only, and the token was created for the
\* account the mint names.
LEMMA IdentifiersApart ==
  ASSUME Typed, NEW t \in Tokens, bcId[t] # NotAvailable
  PROVE  /\ IsMint(bcId[t]) /\ bcId[t] \in Nat
         /\ \A u \in Tokens : bcId[u] = bcId[t] => u = t
         /\ \E i \in DOMAIN notifications : notifications[i] = Creation(t, deploys[bcId[t]].call.to)
<1>1. IsMint(bcId[t]) /\ deploys[bcId[t]].call.token = t /\ bcId[t] \in Nat
  BY DEF Typed, CreditAndPositions, CreditInv, IdsOK
<1>2. \A u \in Tokens : bcId[u] # NotAvailable => deploys[bcId[u]].call.token = u
  BY DEF Typed, CreditAndPositions, CreditInv, IdsOK
<1>3. \E i \in DOMAIN notifications : notifications[i] = Creation(t, deploys[bcId[t]].call.to)
  BY <1>1 DEF IsMint, Typed, CreditAndPositions, CreditInv, DeploysOK, Requested
<1> QED
  BY <1>1, <1>2, <1>3

LEMMA ToldWhenNotified ==
  ASSUME Typed, NEW n, Notify(n), NEW id, NEW end, NEW v
  PROVE  /\ ~ IsTold(n, id, end, v) =>
              Told(notifications', id, end, v) = Told(notifications, id, end, v)
         /\ IsTold(n, id, end, v) =>
              Cardinality(Told(notifications', id, end, v))
                = Cardinality(Told(notifications, id, end, v)) + 1
<1> DEFINE m == Len(notifications) + 1
<1>1. CASE ~ IsTold(n, id, end, v)
  <2>1. Told(notifications', id, end, v) = Told(notifications, id, end, v)
    BY <1>1, NotifyAppends DEF Told
  <2> QED
    BY <1>1, <2>1
<1>2. CASE IsTold(n, id, end, v)
  <2>1. /\ Told(notifications', id, end, v) = Told(notifications, id, end, v) \cup {m}
        /\ m \notin Told(notifications, id, end, v)
    BY <1>2, NotifyAppends DEF Told
  <2> QED
    BY <1>2, <2>1, FiniteTransfers, FS_AddElement
<1> QED
  BY <1>1, <1>2

\* What a platform step may not disturb.
LEMMA TitlesToldElsewhere ==
  ASSUME Typed, TitlesToldOK, NEW n, Notify(n), n.kind # "TransferToken",
         n.kind # "CreateToken", UNCHANGED <<owner, traded, bcId, deploys>>
  PROVE  TitlesToldOK'
<1>1. \A id, end, v : Told(notifications', id, end, v) = Told(notifications, id, end, v)
  BY ToldWhenNotified DEF IsTold
<1>2. \A i \in DOMAIN notifications' :
        (i \in DOMAIN notifications /\ notifications'[i] = notifications[i]) \/ notifications'[i] = n
  BY NotifyAppends
<1>3. \A t, a : n # Creation(t, a)
  BY DEF Creation
<1> QED
  BY <1>1, <1>2, <1>3 DEF TitlesToldOK

LEMMA TitlesToldByCreation ==
  ASSUME CountInv, TitlesToldOK, NEW u \in Tokens, NEW b \in Accounts, CreateToken(u, b),
         UNCHANGED deploys
  PROVE  TitlesToldOK'
<1> DEFINE n == [kind |-> "CreateToken", account |-> b, token |-> u]
<1>1. /\ Notify(n) /\ owner[u] = NoAccount /\ UNCHANGED <<traded, bcId>>
      /\ n.kind = "CreateToken" /\ n.token = u /\ n = Creation(u, b)
  BY DEF CreateToken, Creation
<1>2. \A t, a : n = Creation(t, a) => t = u /\ a = b
  BY DEF Creation
<1>3. \A t \in Tokens : owner'[t] = IF t = u THEN b ELSE owner[t]
  BY DEF CreateToken, CountInv, Typed, PlatformOK
<1> HIDE DEF n
<1>4. \A id, end, v : Told(notifications', id, end, v) = Told(notifications, id, end, v)
  BY <1>1, ToldWhenNotified DEF CountInv, IsTold
<1>5. \A i \in DOMAIN notifications' :
        (i \in DOMAIN notifications /\ notifications'[i] = notifications[i]) \/ notifications'[i] = n
  BY <1>1, NotifyAppends DEF CountInv
<1>6. \A a \in Accounts, i \in DOMAIN notifications : notifications[i] # Creation(u, a)
  <2>1. Announced(u) = {}
    BY <1>1 DEF CountInv, AnnouncedOnce
  <2>2. \A a : Creation(u, a).kind = "CreateToken" /\ Creation(u, a).token = u
    BY DEF Creation
  <2> QED
    BY <2>1, <2>2 DEF Announced
<1>7. bcId[u] = NotAvailable
  <2> SUFFICES ASSUME bcId[u] # NotAvailable PROVE FALSE
    OBVIOUS
  <2>1. IsMint(bcId[u]) /\ deploys[bcId[u]].call.to \in Accounts
    BY IdentifiersApart DEF CountInv, Typed, CreditAndPositions, CreditInv, DeploysOK, IsDeploy, IsMint
  <2> QED
    BY <1>6, <2>1, IdentifiersApart DEF CountInv
<1>8. ASSUME NEW i \in DOMAIN notifications', notifications'[i].kind = "TransferToken",
             notifications'[i].id # NotAvailable
      PROVE  \E t \in traded' : notifications'[i].id = bcId'[t]
  BY <1>1, <1>5, <1>8 DEF TitlesToldOK
<1>9. ASSUME NEW t \in Tokens \ traded', NEW a \in Accounts, NEW i \in DOMAIN notifications',
             notifications'[i] = Creation(t, a)
      PROVE  owner'[t] = a
  <2>1. CASE t = u
    BY <1>2, <1>3, <1>5, <1>6, <1>9, <2>1
  <2>2. CASE t # u
    BY <1>1, <1>2, <1>3, <1>5, <1>9, <2>2 DEF TitlesToldOK
  <2> QED
    BY <2>1, <2>2
<1>10. ASSUME NEW t \in Tokens, NEW v \in Accounts, bcId'[t] # NotAvailable
       PROVE  Cardinality(Told(notifications', bcId'[t], "to", v)) + Same(v, deploys'[bcId'[t]].call.to)
                = Cardinality(Told(notifications', bcId'[t], "from", v)) + Same(v, owner'[t])
  <2>1. t # u /\ bcId' = bcId /\ owner'[t] = owner[t]
    BY <1>1, <1>3, <1>7, <1>10
  <2> QED
    BY <1>4, <1>10, <2>1 DEF TitlesToldOK
<1>11. \A t \in Tokens, v \in Accounts :
         bcId'[t] # NotAvailable =>
           Cardinality(Told(notifications', bcId'[t], "to", v)) + Same(v, deploys'[bcId'[t]].call.to)
             = Cardinality(Told(notifications', bcId'[t], "from", v)) + Same(v, owner'[t])
  BY <1>10
<1> QED
  BY <1>8, <1>9, <1>11 DEF TitlesToldOK

LEMMA TitlesToldByTransfer ==
  ASSUME CountInv, TitlesToldOK, NEW u \in Tokens, NEW b \in Accounts, OffChainTransfer(u, b),
         UNCHANGED deploys
  PROVE  TitlesToldOK'
<1> DEFINE n == [kind |-> "TransferToken", from |-> owner[u], to |-> b, id |-> bcId[u]]
           m == Len(notifications) + 1
<1>1. /\ Notify(n) /\ owner[u] \in Accounts /\ traded' = traded \cup {u} /\ UNCHANGED bcId
      /\ n.kind = "TransferToken" /\ n.id = bcId[u] /\ n["from"] = owner[u] /\ n["to"] = b
  BY DEF OffChainTransfer, CountInv, Typed, PlatformOK
<1>2. \A t \in Tokens : owner'[t] = IF t = u THEN b ELSE owner[t]
  BY DEF OffChainTransfer, CountInv, Typed, PlatformOK
<1>3. \A t, a : n # Creation(t, a)
  BY DEF Creation
<1> HIDE DEF n
<1>4. \A i \in DOMAIN notifications' :
        (i \in DOMAIN notifications /\ notifications'[i] = notifications[i]) \/ notifications'[i] = n
  BY <1>1, NotifyAppends DEF CountInv
<1>5. ASSUME NEW i \in DOMAIN notifications', notifications'[i].kind = "TransferToken",
             notifications'[i].id # NotAvailable
      PROVE  \E t \in traded' : notifications'[i].id = bcId'[t]
  BY <1>1, <1>4, <1>5 DEF TitlesToldOK
<1>6. ASSUME NEW t \in Tokens \ traded', NEW a \in Accounts, NEW i \in DOMAIN notifications',
             notifications'[i] = Creation(t, a)
      PROVE  owner'[t] = a
  BY <1>1, <1>2, <1>3, <1>4, <1>6 DEF TitlesToldOK
<1>7. ASSUME NEW t \in Tokens, NEW v \in Accounts, bcId[t] # NotAvailable
      PROVE  Cardinality(Told(notifications', bcId'[t], "to", v)) + Same(v, deploys[bcId[t]].call.to)
               = Cardinality(Told(notifications', bcId'[t], "from", v)) + Same(v, owner'[t])
  <2> DEFINE id == bcId[t]
             c(end) == Cardinality(Told(notifications, id, end, v))
  <2>1. c("to") + Same(v, deploys[id].call.to) = c("from") + Same(v, owner[t])
    BY <1>7 DEF TitlesToldOK
  <2>2. c("to") \in Nat /\ c("from") \in Nat
    BY FiniteTransfers DEF CountInv
  <2>3. CASE t # u
    <3>1. n.id # id
      BY <1>1, <1>7, <2>3, IdentifiersApart DEF CountInv
    <3>2. \A end : Told(notifications', id, end, v) = Told(notifications, id, end, v)
      BY <1>1, <3>1, ToldWhenNotified DEF CountInv, IsTold
    <3>3. owner'[t] = owner[t] /\ bcId'[t] = id
      BY <1>1, <1>2, <2>3
    <3> QED
      BY <2>1, <3>2, <3>3
  <2>4. CASE t = u
    <3>1. n.kind = "TransferToken" /\ n.id = id
      BY <1>1, <2>4
    <3>2. Cardinality(Told(notifications', id, "to", v)) = c("to") + Same(v, b)
      <4>1. IsTold(n, id, "to", v) <=> v = b
        BY <1>1, <3>1 DEF IsTold
      <4> QED
        BY <1>1, <2>2, <4>1, ToldWhenNotified DEF Same, CountInv
    <3>3. Cardinality(Told(notifications', id, "from", v)) = c("from") + Same(v, owner[u])
      <4>1. IsTold(n, id, "from", v) <=> v = owner[u]
        BY <1>1, <3>1 DEF IsTold
      <4> QED
        BY <1>1, <2>2, <4>1, ToldWhenNotified DEF Same, CountInv
    <3>4. bcId'[t] = id /\ owner'[t] = b /\ owner[t] = owner[u]
      BY <1>1, <1>2, <2>4
    <3> HIDE DEF id, c
    <3>5. \A x, y : Same(x, y) \in Nat
      BY DEF Same
    <3> QED
      BY <2>1, <2>2, <3>2, <3>3, <3>4, <3>5 DEF id
  <2> QED
    BY <2>3, <2>4
<1>8. \A t \in Tokens, v \in Accounts :
        bcId'[t] # NotAvailable =>
          Cardinality(Told(notifications', bcId'[t], "to", v)) + Same(v, deploys'[bcId'[t]].call.to)
            = Cardinality(Told(notifications', bcId'[t], "from", v)) + Same(v, owner'[t])
  BY <1>1, <1>7
<1> QED
  BY <1>5, <1>6, <1>8 DEF TitlesToldOK

\* A new identifier has no transfers, and names the present owner.
LEMMA TitlesToldByHearing ==
  ASSUME CountInv, Typed', TitlesToldOK, HearProcessed
  PROVE  TitlesToldOK'
<1>1. UNCHANGED <<owner, traded, notifications, deploys>>
  BY DEF HearProcessed
<1>2. \A id, end, v : Told(notifications', id, end, v) = Told(notifications, id, end, v)
  BY <1>1 DEF Told
<1>3. CASE bcId' = bcId
  BY <1>1, <1>2, <1>3 DEF TitlesToldOK
<1>4. CASE bcId' # bcId
  <2> DEFINE k == Head(processed_events)
  <2>1. PICK e \in EntriesOf(k) : /\ bcId' = [bcId EXCEPT ![e.protocolId] = e.tokenId]
                                  /\ BcIdSettable(e.protocolId)
    BY <1>4 DEF HearProcessed, ProcessedTransfer, ProcessedMint, ProcessedOther
  <2> DEFINE u == e.protocolId
             id == e.tokenId
  <2>2. /\ IsMint(id) /\ deploys[id].call.token = u
    BY DEF EntriesOf, CountInv, Typed, CreditAndPositions, CreditInv, TokensOK
  <2>3. /\ u \in Tokens /\ u \notin traded /\ id \in Nat /\ id # NotAvailable
        /\ deploys[id].call.to \in Accounts
    BY <2>1, <2>2, ListsTyped DEF IsMint, CountInv, Typed, CreditAndPositions, CreditInv, DeploysOK,
                                  IsDeploy, BcIdSettable, NotAvailable
  <2>4. \A t \in Tokens : bcId'[t] = IF t = u THEN id ELSE bcId[t]
    BY <2>1 DEF CountInv, Typed, CreditAndPositions, CreditInv, IdsOK
  <2> HIDE DEF id, u
  <2>5. traded \subseteq Tokens
    BY DEF CountInv, Typed, PlatformOK
  <2>6. \A t \in traded : bcId'[t] = bcId[t] /\ bcId[t] # id
    <3> SUFFICES ASSUME NEW t \in traded PROVE bcId'[t] = bcId[t] /\ bcId[t] # id
      OBVIOUS
    <3>1. t # u
      BY <2>3
    <3>2. bcId[t] # NotAvailable => deploys[bcId[t]].call.token = t
      BY <2>5 DEF CountInv, Typed, CreditAndPositions, CreditInv, IdsOK
    <3> QED
      BY <2>2, <2>3, <2>4, <2>5, <3>1, <3>2
  <2>7. \A end, v : Told(notifications, id, end, v) = {}
    BY <2>3, <2>6 DEF Told, IsTold, TitlesToldOK
  <2>8. owner[u] = deploys[id].call.to
    <3>1. \E i \in DOMAIN notifications : notifications[i] = Creation(u, deploys[id].call.to)
      BY <2>2 DEF IsMint, CountInv, Typed, CreditAndPositions, CreditInv, DeploysOK, Requested
    <3> QED
      BY <2>3, <3>1 DEF TitlesToldOK
  <2>9. ASSUME NEW t \in Tokens, NEW v \in Accounts, bcId'[t] # NotAvailable
        PROVE  Cardinality(Told(notifications, bcId'[t], "to", v)) + Same(v, deploys[bcId'[t]].call.to)
                 = Cardinality(Told(notifications, bcId'[t], "from", v)) + Same(v, owner[t])
    <3>1. CASE t = u
      BY <2>4, <2>7, <2>8, <3>1
    <3>2. CASE t # u
      BY <2>4, <2>9, <3>2 DEF TitlesToldOK
    <3> QED
      BY <3>1, <3>2
  <2>10. \A t \in Tokens, v \in Accounts :
           bcId'[t] # NotAvailable =>
             Cardinality(Told(notifications', bcId'[t], "to", v)) + Same(v, deploys'[bcId'[t]].call.to)
               = Cardinality(Told(notifications', bcId'[t], "from", v)) + Same(v, owner'[t])
    <3>1. \A t, end, v : Told(notifications', bcId'[t], end, v) = Told(notifications, bcId'[t], end, v)
      BY <1>1 DEF Told
    <3> QED
      BY <1>1, <2>9, <3>1
  <2>11. \A i \in DOMAIN notifications :
           notifications[i].kind = "TransferToken" /\ notifications[i].id # NotAvailable =>
             \E t \in traded : notifications[i].id = bcId'[t]
    BY <2>6 DEF TitlesToldOK
  <2>12. \A t \in Tokens \ traded, a \in Accounts :
           (\E i \in DOMAIN notifications : notifications[i] = Creation(t, a)) => owner[t] = a
    BY DEF TitlesToldOK
  <2> QED
    BY <1>1, <2>10, <2>11, <2>12 DEF TitlesToldOK
<1> QED
  BY <1>3, <1>4

LEMMA TitlesToldStep == CountInv /\ Typed' /\ TitlesToldOK /\ [Next]_vars => TitlesToldOK'
<1> SUFFICES ASSUME CountInv, Typed', TitlesToldOK, [Next]_vars PROVE TitlesToldOK'
  OBVIOUS
<1>0. Typed
  BY DEF CountInv
<1>1. CASE UNCHANGED <<notifications, owner, traded, bcId>>
  <2>1. \A id, end, v : Told(notifications', id, end, v) = Told(notifications, id, end, v)
    BY <1>1 DEF Told
  <2>2. \A t \in Tokens : bcId[t] # NotAvailable => deploys'[bcId[t]].call = deploys[bcId[t]].call
    BY <1>0, CallsEndure, IdentifiersApart DEF Endures, IsMint
  <2> QED
    BY <1>1, <2>1, <2>2 DEF TitlesToldOK
<1>2. CASE PlatformStep /\ UNCHANGED deploys
  <2>1. CASE \E n : /\ Notify(n) /\ n.kind \notin {"CreateToken", "TransferToken"}
                   /\ UNCHANGED <<owner, traded, bcId>>
    BY <1>0, <1>2, <2>1, TitlesToldElsewhere
  <2> QED
    BY <1>2, <2>1, PlatformCases, TitlesToldByCreation, TitlesToldByTransfer
<1>3. CASE HearProcessed
  BY <1>3, TitlesToldByHearing
<1>4. CASE Subscribe \/ Restart
  BY <1>1, <1>4 DEF Subscribe, Restart, platform
<1> QED
  BY <1>0, <1>1, <1>2, <1>3, <1>4, AgreementCases DEF platform

-----------------------------------------------------------------------------
(* In between.                                                             *)

\* A transfer is put exactly for a transfer.
LEMMA TransferFor ==
  ASSUME NotificationsOK, NEW i \in DOMAIN notifications, NEW q,
         q = DeployFor(notifications[i]), NEW id, NEW end \in Ends, NEW v
  PROVE  (q.kind = "transfer" /\ q.id = id /\ q[end] = v) <=> IsTold(notifications[i], id, end, v)
<1> DEFINE n == notifications[i]
<1>1. CASE n.kind = "TransferToken"
  <2>1. q = [kind |-> "transfer", id |-> n.id, from |-> n.from, to |-> n.to]
    BY <1>1 DEF DeployFor
  <2>2. q.kind = "transfer" /\ q.id = n.id /\ q[end] = n[end]
    BY <2>1 DEF Ends
  <2> QED
    BY <1>1, <2>2 DEF IsTold
<1>2. CASE n.kind # "TransferToken"
  <2>1. q.kind # "transfer"
    <3>1. CASE n.kind = "CreateProject"
      <4>1. q = [kind |-> "install"]
        BY <3>1 DEF DeployFor
      <4> QED
        BY <4>1
    <3>2. CASE n.kind = "CreateToken"
      <4>1. q = [kind |-> "mint", to |-> n.account, token |-> n.token]
        BY <3>2 DEF DeployFor
      <4> QED
        BY <4>1
    <3>3. CASE n.kind = "AddWhiteListedInvestor"
      <4>1. q = [kind |-> "add", account |-> n.account]
        BY <3>3 DEF DeployFor
      <4> QED
        BY <4>1
    <3>4. CASE n.kind = "RemoveWhiteListedInvestor"
      <4>1. q = [kind |-> "remove", account |-> n.account]
        BY <3>4 DEF DeployFor
      <4> QED
        BY <4>1
    <3> QED
      BY <1>2, <3>1, <3>2, <3>3, <3>4 DEF NotificationsOK
  <2> QED
    BY <1>2, <2>1 DEF IsTold
<1> QED
  BY <1>1, <1>2

LEMMA RelayedWhenPut ==
  ASSUME Typed, NEW x, deploys' = Append(deploys, x), NEW id, NEW end, NEW v
  PROVE  /\ ~ IsRelayed(x, id, end, v) =>
              Relayed(deploys', id, end, v) = Relayed(deploys, id, end, v)
         /\ IsRelayed(x, id, end, v) =>
              Cardinality(Relayed(deploys', id, end, v))
                = Cardinality(Relayed(deploys, id, end, v)) + 1
<1> DEFINE m == Len(deploys) + 1
<1>1. CASE ~ IsRelayed(x, id, end, v)
  <2>1. Relayed(deploys', id, end, v) = Relayed(deploys, id, end, v)
    BY <1>1, PutAppends DEF Relayed
  <2> QED
    BY <1>1, <2>1
<1>2. CASE IsRelayed(x, id, end, v)
  <2>1. /\ Relayed(deploys', id, end, v) = Relayed(deploys, id, end, v) \cup {m}
        /\ m \notin Relayed(deploys, id, end, v)
    BY <1>2, PutAppends DEF Relayed
  <2> QED
    BY <1>2, <2>1, FiniteTransfers, FS_AddElement
<1> QED
  BY <1>1, <1>2

LEMMA RelayedWhenConcluded ==
  ASSUME Typed, NEW m \in DOMAIN deploys, NEW r, Conclude(m, r), NEW id, NEW end, NEW v
  PROVE  Relayed(deploys', id, end, v) = Relayed(deploys, id, end, v)
BY ConcludeReplaces DEF Relayed, IsRelayed, IsTransfer

LEMMA ConsumedWhenAdvanced ==
  ASSUME Typed, UNCHANGED notifications, NEW s, NEW i, Advances(s, i), NEW id, NEW end, NEW v
  PROVE  /\ ~ IsTold(notifications[i], id, end, v) =>
              Consumed(notifications', position', id, end, v)
                = Consumed(notifications, position, id, end, v)
         /\ IsTold(notifications[i], id, end, v) =>
              Cardinality(Consumed(notifications', position', id, end, v))
                = Cardinality(Consumed(notifications, position, id, end, v)) + 1
<1> DEFINE C == Consumed(notifications, position, id, end, v)
           D == Consumed(notifications', position', id, end, v)
<1>1. /\ s \in DOMAIN position /\ i \in DOMAIN notifications /\ i = position[s] + 1
      /\ DOMAIN position' = DOMAIN position
      /\ \A r \in DOMAIN position : position'[r] = IF r = s THEN i ELSE position[r]
      /\ DOMAIN notifications \subseteq Nat
      /\ \A r \in DOMAIN position : position[r] \in Nat
  BY ListsTyped DEF Advances
<1>2. ASSUME NEW r \in DOMAIN position, NEW j \in DOMAIN notifications
      PROVE  j <= position'[r] <=> (j <= position[r] \/ (r = s /\ j = i))
  BY <1>1
<1>3. ASSUME NEW r \in DOMAIN position, NEW j \in DOMAIN notifications
      PROVE  <<r, j>> \in D <=>
               (<<r, j>> \in C \/ (<<r, j>> = <<s, i>> /\ IsTold(notifications[i], id, end, v)))
  BY <1>1, <1>2 DEF Consumed, Told
<1>4. \A p \in C \cup D : \E r \in DOMAIN position, j \in DOMAIN notifications : p = <<r, j>>
  BY <1>1 DEF Consumed
<1>5. CASE ~ IsTold(notifications[i], id, end, v)
  <2> HIDE DEF C, D
  <2>1. C = D
    BY <1>3, <1>4, <1>5
  <2> QED
    BY <1>5, <2>1 DEF C, D
<1>6. CASE IsTold(notifications[i], id, end, v)
  <2>1. D = C \cup {<<s, i>>}
    BY <1>1, <1>3, <1>4, <1>6
  <2>2. <<s, i>> \notin C
    BY <1>1 DEF Consumed
  <2> HIDE DEF C, D
  <2>3. IsFiniteSet(C)
    BY FiniteTransfers DEF C
  <2>4. Cardinality(D) = Cardinality(C) + 1
    BY <2>1, <2>2, <2>3, FS_AddElement
  <2> QED
    BY <1>6, <2>4 DEF C, D
<1> QED
  BY <1>5, <1>6

\* What stands behind all positions is consumed by nobody.
LEMMA ConsumedWhenNotified ==
  ASSUME Typed, NEW n, Notify(n), NEW id, NEW end, NEW v
  PROVE  Consumed(notifications', position, id, end, v)
           = Consumed(notifications, position, id, end, v)
<1> DEFINE C == Consumed(notifications, position, id, end, v)
           D == Consumed(notifications', position, id, end, v)
           m == Len(notifications) + 1
<1>1. ASSUME NEW r \in DOMAIN position, NEW j \in DOMAIN notifications', j <= position[r]
      PROVE  j \in DOMAIN notifications
  <2>1. j # m
    BY <1>1, ListsTyped
  <2> QED
    BY <2>1, NotifyAppends
<1>2. ASSUME NEW r \in DOMAIN position, NEW j
      PROVE  <<r, j>> \in C <=> <<r, j>> \in D
  BY <1>1, NotifyAppends DEF Consumed, Told
<1>3. \A p \in C \cup D : \E r \in DOMAIN position : \E j : p = <<r, j>>
  BY DEF Consumed
<1> HIDE DEF C, D
<1>4. C = D
  BY <1>2, <1>3
<1> QED
  BY <1>4 DEF C, D

\* A new subscription has consumed nothing.
LEMMA ConsumedWhenSubscribed ==
  ASSUME Typed, position' = Append(position, 0), NEW id, NEW end, NEW v
  PROVE  Consumed(notifications, position', id, end, v)
           = Consumed(notifications, position, id, end, v)
<1> DEFINE C == Consumed(notifications, position, id, end, v)
           D == Consumed(notifications, position', id, end, v)
<1>1. /\ DOMAIN position' = DOMAIN position \cup {Len(position) + 1}
      /\ position'[Len(position) + 1] = 0
      /\ \A r \in DOMAIN position : position'[r] = position[r]
      /\ Len(position) + 1 \notin DOMAIN position
  BY ListsTyped
<1>2. \A j \in DOMAIN notifications : ~ (j <= 0)
  BY ListsTyped
<1>3. ASSUME NEW r \in DOMAIN position', NEW j \in DOMAIN notifications
      PROVE  <<r, j>> \in C <=> <<r, j>> \in D
  BY <1>1, <1>2 DEF Consumed
<1>4. \A p \in C \cup D : \E r \in DOMAIN position', j \in DOMAIN notifications : p = <<r, j>>
  BY <1>1 DEF Consumed
<1> HIDE DEF C, D
<1>5. \A p : p \in C <=> p \in D
  <2> SUFFICES ASSUME NEW p \in C \cup D PROVE p \in C <=> p \in D
    OBVIOUS
  <2> QED
    BY <1>3, <1>4
<1>6. C = D
  BY <1>5
<1> QED
  BY <1>6 DEF C, D

LEMMA LostStays == Typed /\ [Next]_vars => NotificationsStay /\ lost \subseteq lost'
<1> SUFFICES ASSUME Typed, [Next]_vars PROVE NotificationsStay /\ lost \subseteq lost'
  OBVIOUS
<1>1. CASE UNCHANGED notifications
  <2>1. CASE Subscribe \/ Restart
    BY <1>1, <2>1 DEF Subscribe, Restart, NotificationsStay
  <2> QED
    BY <1>1, <2>1, AgreementCases DEF NotificationsStay, Advances
<1>2. CASE PlatformStep
  BY <1>2, PlatformNotifies, AgreementCases
     DEF PlatformStep, consumers, Typed, CreditAndPositions, CreditInv
<1>3. UNCHANGED notifications \/ PlatformStep
  BY AgreementCases DEF Subscribe, Restart, platform
<1> QED
  BY <1>1, <1>2, <1>3

LEMMA RelayStep == Typed /\ restarts \in Nat /\ RelayOK /\ [Next]_vars => RelayOK'
<1> SUFFICES ASSUME Typed, restarts \in Nat, RelayOK, [Next]_vars, restarts' = 0,
                    NEW id \in Nat, NEW end \in Ends, NEW v \in Accounts, ~ LostTransfer(id)'
             PROVE  Cardinality(Relayed(deploys', id, end, v))
                      = Cardinality(Consumed(notifications', position', id, end, v))
  BY DEF RelayOK
<1>1. NotificationsStay /\ lost \subseteq lost'
  BY LostStays
<1>2. ~ LostTransfer(id)
  BY <1>1 DEF LostTransfer, NotificationsStay, Typed, LostOK
<1>3. ~ Restart
  BY DEF Restart
<1>4. restarts = 0
  BY <1>3, AgreementCases DEF Subscribe, counters
<1>5. Cardinality(Relayed(deploys, id, end, v))
        = Cardinality(Consumed(notifications, position, id, end, v))
  BY <1>2, <1>4 DEF RelayOK
<1>6. CASE UNCHANGED <<notifications, position, deploys>>
  BY <1>5, <1>6
<1>7. CASE PlatformStep /\ UNCHANGED <<position, deploys>>
  <2>1. \E n : Notify(n)
    BY <1>7, PlatformCases DEF CreateToken, OffChainTransfer
  <2>2. Consumed(notifications', position, id, end, v) = Consumed(notifications, position, id, end, v)
    BY <2>1, ConsumedWhenNotified
  <2> QED
    BY <1>5, <1>7, <2>2
<1>8. CASE Subscribe
  <2>1. position' = Append(position, 0) /\ UNCHANGED <<notifications, deploys>>
    BY <1>8 DEF Subscribe, StartOfStream, platform
  <2>2. Consumed(notifications, position', id, end, v) = Consumed(notifications, position, id, end, v)
    BY <2>1, ConsumedWhenSubscribed
  <2> QED
    BY <1>5, <2>1, <2>2
<1>9. CASE (\E s, i : Advances(s, i)) /\ UNCHANGED platform
  <2>1. PICK s, i : Advances(s, i)
    BY <1>9
  <2>2. UNCHANGED notifications /\ i \in DOMAIN notifications
    BY <1>9, <2>1 DEF platform, Advances
  <2>3. CASE IsTold(notifications[i], id, end, v)
    <3>1. i \notin lost'
      BY <2>2, <2>3 DEF LostTransfer, IsTold
    <3>2. PutFor(notifications[i])
      BY <2>1, <3>1 DEF Advances
    <3> DEFINE q == DeployFor(notifications[i])
               x == [call |-> q, contract |-> nft_contract, by |-> "API", status |-> "pending"]
    <3>3. q.kind = "transfer" /\ q.id = id /\ q[end] = v
      BY <2>2, <2>3, TransferFor DEF Typed, CreditAndPositions, CreditInv
    <3> HIDE DEF q
    <3>4. x.call = q /\ x.by = "API"
      OBVIOUS
    <3>5. deploys' = Append(deploys, x)
      BY <3>2 DEF PutFor, Put, q
    <3> HIDE DEF x
    <3>6. IsRelayed(x, id, end, v)
      BY <3>3, <3>4 DEF IsRelayed, IsTransfer
    <3> QED
      BY <1>5, <2>1, <2>2, <2>3, <3>5, <3>6, RelayedWhenPut, ConsumedWhenAdvanced
  <2>4. CASE ~ IsTold(notifications[i], id, end, v)
    <3>1. CASE deploys' = deploys
      BY <1>5, <2>1, <2>2, <2>4, <3>1, ConsumedWhenAdvanced
    <3>2. CASE PutFor(notifications[i])
      <4> DEFINE q == DeployFor(notifications[i])
                 x == [call |-> q, contract |-> nft_contract, by |-> "API", status |-> "pending"]
      <4>1. ~ (q.kind = "transfer" /\ q.id = id /\ q[end] = v)
        BY <2>2, <2>4, TransferFor DEF Typed, CreditAndPositions, CreditInv
      <4> HIDE DEF q
      <4>2. x.call = q
        OBVIOUS
      <4>3. deploys' = Append(deploys, x)
        BY <3>2 DEF PutFor, Put, q
      <4> HIDE DEF x
      <4>4. ~ IsRelayed(x, id, end, v)
        BY <4>1, <4>2 DEF IsRelayed, IsTransfer
      <4> QED
        BY <1>5, <2>1, <2>2, <2>4, <4>3, <4>4, RelayedWhenPut, ConsumedWhenAdvanced
    <3> QED
      BY <2>1, <3>1, <3>2 DEF Advances
  <2> QED
    BY <2>3, <2>4
<1>10. CASE ChainStep /\ UNCHANGED <<platform, position>>
  <2>1. UNCHANGED <<notifications, position>>
    BY <1>10 DEF platform
  <2>2. CASE \E n \in DOMAIN deploys, r \in {"succeeded", "failed"} : Conclude(n, r)
    BY <1>5, <2>1, <2>2, RelayedWhenConcluded
  <2>3. CASE PutElse
    <3>1. PICK x : deploys' = Append(deploys, x) /\ x.by # "API"
      BY <2>3 DEF PutElse
    <3>2. ~ IsRelayed(x, id, end, v)
      BY <3>1 DEF IsRelayed
    <3> QED
      BY <1>5, <2>1, <3>1, <3>2, RelayedWhenPut
  <2> QED
    BY <1>10, <2>2, <2>3, ChainCases DEF Execute
<1> QED
  BY <1>3, <1>6, <1>7, <1>8, <1>9, <1>10, AgreementCases DEF platform

-----------------------------------------------------------------------------
(* The chain's side.                                                       *)

LEMMA ExecutedWhenPut ==
  ASSUME Typed, NEW x, x.status = "pending", deploys' = Append(deploys, x), NEW id, NEW end, NEW v
  PROVE  Executed(deploys', id, end, v) = Executed(deploys, id, end, v)
BY PutAppends DEF Executed, IsExecuted

\* What a failed deploy asked for was not done.
LEMMA ExecutedWhenFailed ==
  ASSUME Typed, NEW m \in DOMAIN deploys, Conclude(m, "failed"), NEW id, NEW end, NEW v
  PROVE  Executed(deploys', id, end, v) = Executed(deploys, id, end, v)
BY ConcludeReplaces DEF Executed, IsExecuted, IsTransfer

LEMMA ExecutedWhenSucceeded ==
  ASSUME Typed, NEW m \in DOMAIN deploys, Conclude(m, "succeeded"), NEW id, NEW end, NEW v
  PROVE  /\ ~ (IsTransfer(deploys[m], id) /\ deploys[m].call[end] = v) =>
              Executed(deploys', id, end, v) = Executed(deploys, id, end, v)
         /\ IsTransfer(deploys[m], id) /\ deploys[m].call[end] = v =>
              Cardinality(Executed(deploys', id, end, v))
                = Cardinality(Executed(deploys, id, end, v)) + 1
<1>1. CASE ~ (IsTransfer(deploys[m], id) /\ deploys[m].call[end] = v)
  <2>1. Executed(deploys', id, end, v) = Executed(deploys, id, end, v)
    BY <1>1, ConcludeReplaces DEF Executed, IsExecuted, IsTransfer
  <2> QED
    BY <1>1, <2>1
<1>2. CASE IsTransfer(deploys[m], id) /\ deploys[m].call[end] = v
  <2>1. /\ Executed(deploys', id, end, v) = Executed(deploys, id, end, v) \cup {m}
        /\ m \notin Executed(deploys, id, end, v)
    BY <1>2, ConcludeReplaces DEF Executed, IsExecuted, IsTransfer
  <2> QED
    BY <1>2, <2>1, FiniteTransfers, FS_AddElement
<1> QED
  BY <1>1, <1>2

\* Where no deploy succeeds, nothing changes for the twins.
LEMMA TitlesExecutedElsewhere ==
  ASSUME Typed, TitlesExecutedOK, Endures, UNCHANGED token_owners,
         \A n \in DOMAIN deploys' :
           deploys'[n].status = "succeeded" =>
             n \in DOMAIN deploys /\ deploys[n].status = "succeeded",
         \A id, end, v : Executed(deploys', id, end, v) = Executed(deploys, id, end, v)
  PROVE  TitlesExecutedOK'
<1>1. \A id \in DOMAIN token_owners' : IsAnswered(id)' /\ deploys'[id].call = deploys[id].call
  BY DEF TitlesExecutedOK, IsAnswered, Endures
<1>2. ASSUME NEW n \in DOMAIN deploys', deploys'[n].call.kind = "transfer",
             deploys'[n].status = "succeeded"
      PROVE  deploys'[n].call.id \in DOMAIN token_owners'
  BY <1>2 DEF TitlesExecutedOK, Endures
<1> QED
  BY <1>1, <1>2 DEF TitlesExecutedOK

LEMMA TitlesExecutedByExecution ==
  ASSUME Typed, TitlesExecutedOK, NEW m \in DOMAIN deploys, Execute(m)
  PROVE  TitlesExecutedOK'
<1> DEFINE call == deploys[m].call
<1>1. Conclude(m, "succeeded") /\ Accepts(deploys[m].contract, call)
  BY DEF Execute
<1>2. /\ DOMAIN deploys' = DOMAIN deploys
      /\ \A n \in DOMAIN deploys :
           deploys'[n].call = deploys[n].call /\ (n # m => deploys'[n].status = deploys[n].status)
      /\ deploys[m].status = "pending" /\ deploys'[m].status = "succeeded"
  BY <1>1, ConcludeReplaces
<1>3. m \notin DOMAIN token_owners
  BY <1>2 DEF TitlesExecutedOK, IsAnswered
<1>4. ASSUME NEW n \in DOMAIN deploys, n # m, deploys'[n].call.kind = "transfer",
             deploys'[n].status = "succeeded"
      PROVE  deploys'[n].call.id \in DOMAIN token_owners
  BY <1>2, <1>4 DEF TitlesExecutedOK
<1>5. CASE call.kind = "mint"
  <2>1. /\ DOMAIN token_owners' = DOMAIN token_owners \cup {m}
        /\ token_owners'[m] = call.to
        /\ \A id \in DOMAIN token_owners : token_owners'[id] = token_owners[id]
    BY <1>3, <1>5 DEF Execute
  <2>2. \A id, end, v : Executed(deploys', id, end, v) = Executed(deploys, id, end, v)
    BY <1>1, <1>5, ExecutedWhenSucceeded DEF IsTransfer
  <2>3. \A end, v : Executed(deploys, m, end, v) = {}
    BY <1>3 DEF Executed, IsExecuted, IsTransfer, TitlesExecutedOK
  <2>4. ASSUME NEW id \in DOMAIN token_owners', NEW v \in Accounts
        PROVE  Cardinality(Executed(deploys', id, "to", v)) + Same(v, deploys'[id].call.to)
                 = Cardinality(Executed(deploys', id, "from", v)) + Same(v, token_owners'[id])
    <3>1. CASE id = m
      <4>1. Executed(deploys', id, "to", v) = Executed(deploys', id, "from", v)
        BY <2>2, <2>3, <3>1
      <4>2. deploys'[id].call.to = token_owners'[id]
        BY <1>2, <2>1, <3>1
      <4> QED
        BY <4>1, <4>2
    <3>2. CASE id # m
      <4>1. id \in DOMAIN token_owners /\ id \in DOMAIN deploys
        BY <2>1, <3>2 DEF Typed, ChainOK
      <4> QED
        BY <1>2, <2>1, <2>2, <4>1 DEF TitlesExecutedOK
    <3> QED
      BY <3>1, <3>2
  <2>5. \A id \in DOMAIN token_owners' : IsAnswered(id)'
    BY <1>2, <2>1 DEF TitlesExecutedOK, IsAnswered
  <2>6. ASSUME NEW n \in DOMAIN deploys', deploys'[n].call.kind = "transfer",
               deploys'[n].status = "succeeded"
        PROVE  deploys'[n].call.id \in DOMAIN token_owners'
    BY <1>2, <1>4, <1>5, <2>1, <2>6
  <2> QED
    BY <2>4, <2>5, <2>6 DEF TitlesExecutedOK
<1>6. CASE call.kind = "transfer"
  <2> DEFINE k == call.id
  <2>1. k \in DOMAIN token_owners /\ token_owners[k] = call.from
    BY <1>1, <1>6 DEF Accepts
  <2>2. token_owners' = [token_owners EXCEPT ![k] = call.to]
    BY <1>6 DEF Execute
  <2>3. /\ DOMAIN token_owners' = DOMAIN token_owners
        /\ \A id \in DOMAIN token_owners :
             token_owners'[id] = IF id = k THEN call.to ELSE token_owners[id]
    BY <2>2
  <2>4. ASSUME NEW id \in DOMAIN token_owners', NEW v \in Accounts
        PROVE  Cardinality(Executed(deploys', id, "to", v)) + Same(v, deploys'[id].call.to)
                 = Cardinality(Executed(deploys', id, "from", v)) + Same(v, token_owners'[id])
    <3> DEFINE c(end) == Cardinality(Executed(deploys, id, end, v))
               d(end) == Cardinality(Executed(deploys', id, end, v))
    <3>1. /\ c("to") + Same(v, deploys[id].call.to) = c("from") + Same(v, token_owners[id])
          /\ deploys'[id].call.to = deploys[id].call.to
      BY <1>2, <2>3 DEF TitlesExecutedOK, Typed, ChainOK
    <3>2. CASE id # k
      <4>1. d("to") = c("to") /\ d("from") = c("from")
        BY <1>1, <3>2, ExecutedWhenSucceeded DEF IsTransfer
      <4>2. token_owners'[id] = token_owners[id]
        BY <2>3, <3>2
      <4> QED
        BY <3>1, <4>1, <4>2
    <3>3. CASE id = k
      <4>1. c("to") \in Nat /\ c("from") \in Nat /\ \A x, y : Same(x, y) \in Nat
        BY FiniteTransfers DEF Same
      <4>2. IsTransfer(deploys[m], id)
        BY <1>6, <3>3 DEF IsTransfer
      <4>3. d("to") = c("to") + Same(v, call.to)
        BY <1>1, <4>1, <4>2, ExecutedWhenSucceeded DEF Same
      <4>4. d("from") = c("from") + Same(v, token_owners[id])
        <5>1. token_owners[id] = call["from"]
          BY <2>1, <3>3
        <5> QED
          BY <1>1, <4>1, <4>2, <5>1, ExecutedWhenSucceeded DEF Same
      <4>5. token_owners'[id] = call.to
        BY <2>3, <3>3
      <4> HIDE DEF c, d, call
      <4> QED
        BY <3>1, <4>1, <4>3, <4>4, <4>5 DEF c, d
    <3> QED
      BY <3>2, <3>3
  <2>5. \A id \in DOMAIN token_owners' : IsAnswered(id)'
    BY <1>2, <2>3 DEF TitlesExecutedOK, IsAnswered
  <2>6. ASSUME NEW n \in DOMAIN deploys', deploys'[n].call.kind = "transfer",
               deploys'[n].status = "succeeded"
        PROVE  deploys'[n].call.id \in DOMAIN token_owners'
    BY <1>2, <1>4, <2>1, <2>3, <2>6
  <2> QED
    BY <2>4, <2>5, <2>6 DEF TitlesExecutedOK
<1>7. CASE call.kind \notin {"mint", "transfer"}
  <2>1. token_owners' = token_owners
    BY <1>7 DEF Execute
  <2>2. \A id, end, v : Executed(deploys', id, end, v) = Executed(deploys, id, end, v)
    BY <1>1, <1>7, ExecutedWhenSucceeded DEF IsTransfer
  <2>3. \A id \in DOMAIN token_owners' : IsAnswered(id)' /\ deploys'[id].call = deploys[id].call
    BY <1>2, <2>1 DEF TitlesExecutedOK, IsAnswered
  <2>4. ASSUME NEW n \in DOMAIN deploys', deploys'[n].call.kind = "transfer",
               deploys'[n].status = "succeeded"
        PROVE  deploys'[n].call.id \in DOMAIN token_owners'
    BY <1>2, <1>4, <1>7, <2>1, <2>4
  <2> QED
    BY <2>1, <2>2, <2>3, <2>4 DEF TitlesExecutedOK
<1> QED
  BY <1>5, <1>6, <1>7

LEMMA TitlesExecutedStep == Typed /\ TitlesExecutedOK /\ [Next]_vars => TitlesExecutedOK'
<1> SUFFICES ASSUME Typed, TitlesExecutedOK, [Next]_vars PROVE TitlesExecutedOK'
  OBVIOUS
<1>0. Endures
  BY CallsEndure
<1>1. CASE UNCHANGED <<deploys, token_owners>>
  BY <1>1 DEF TitlesExecutedOK, IsAnswered
<1>2. CASE \E n \in DOMAIN deploys : Execute(n)
  BY <1>2, TitlesExecutedByExecution
<1>3. CASE UNCHANGED token_owners /\ \E n \in DOMAIN deploys : Conclude(n, "failed")
  <2>1. PICK m \in DOMAIN deploys : Conclude(m, "failed")
    BY <1>3
  <2>2. \A id, end, v : Executed(deploys', id, end, v) = Executed(deploys, id, end, v)
    BY <2>1, ExecutedWhenFailed
  <2>3. \A n \in DOMAIN deploys' :
          deploys'[n].status = "succeeded" =>
            n \in DOMAIN deploys /\ deploys[n].status = "succeeded"
    BY <2>1, ConcludeReplaces
  <2> QED
    BY <1>0, <1>3, <2>2, <2>3, TitlesExecutedElsewhere
<1>4. CASE UNCHANGED token_owners /\ \E x : x.status = "pending" /\ deploys' = Append(deploys, x)
  <2>1. PICK x : x.status = "pending" /\ deploys' = Append(deploys, x)
    BY <1>4
  <2>2. \A id, end, v : Executed(deploys', id, end, v) = Executed(deploys, id, end, v)
    BY <2>1, ExecutedWhenPut
  <2>3. \A n \in DOMAIN deploys' :
          deploys'[n].status = "succeeded" =>
            n \in DOMAIN deploys /\ deploys[n].status = "succeeded"
    BY <2>1, PutAppends
  <2> QED
    BY <1>0, <1>4, <2>2, <2>3, TitlesExecutedElsewhere
<1>5. CASE ChainStep
  BY <1>2, <1>3, <1>4, <1>5, ChainCases DEF PutElse, chain
<1>6. CASE (\E s, i : Advances(s, i)) /\ UNCHANGED chain
  <2>1. PICK s, i : Advances(s, i)
    BY <1>6
  <2>2. ASSUME PutFor(notifications[i])
        PROVE  \E x : x.status = "pending" /\ deploys' = Append(deploys, x)
    <3> DEFINE q == DeployFor(notifications[i])
               x == [call |-> q, contract |-> nft_contract, by |-> "API", status |-> "pending"]
    <3> HIDE DEF q
    <3>1. x.status = "pending"
      OBVIOUS
    <3>2. deploys' = Append(deploys, x)
      BY <2>2 DEF PutFor, Put, q
    <3> HIDE DEF x
    <3> QED
      BY <3>1, <3>2
  <2> QED
    BY <1>1, <1>4, <1>6, <2>1, <2>2 DEF Advances, chain
<1>7. CASE Subscribe \/ Restart
  BY <1>1, <1>7 DEF Subscribe, Restart, chain
<1> QED
  BY <1>1, <1>5, <1>6, <1>7, AgreementCases DEF chain

-----------------------------------------------------------------------------
(* Together.                                                               *)

LEMMA TwinsInit == Init => TitlesToldOK /\ RelayOK /\ TitlesExecutedOK /\ restarts \in Nat
<1> SUFFICES ASSUME Init PROVE TitlesToldOK /\ RelayOK /\ TitlesExecutedOK /\ restarts \in Nat
  OBVIOUS
<1>1. /\ notifications = <<>>
      /\ \A t \in Tokens : bcId[t] = NotAvailable
      /\ deploys = <<>> /\ position = <<>> /\ token_owners = <<>> /\ restarts = 0
  BY DEF Init
<1>2. TitlesToldOK
  BY <1>1 DEF TitlesToldOK
<1>3. \A id, end, v :
        /\ Relayed(deploys, id, end, v) = {}
        /\ Consumed(notifications, position, id, end, v) = {}
  BY <1>1 DEF Relayed, Consumed
<1>4. RelayOK
  BY <1>3 DEF RelayOK
<1>5. TitlesExecutedOK
  BY <1>1 DEF TitlesExecutedOK
<1> QED
  BY <1>1, <1>2, <1>4, <1>5

LEMMA RestartsCounted == Typed /\ restarts \in Nat /\ [Next]_vars => restarts' \in Nat
<1> SUFFICES ASSUME Typed, restarts \in Nat, [Next]_vars PROVE restarts' \in Nat
  OBVIOUS
<1>1. restarts' = restarts \/ Restart
  BY AgreementCases DEF Subscribe, counters
<1>2. Restart => restarts' = restarts + 1
  BY DEF Restart
<1> QED
  BY <1>1, <1>2

LEMMA TwinsStep == TwinsInv /\ [Next]_vars => TwinsInv'
<1> SUFFICES ASSUME TwinsInv, [Next]_vars PROVE TwinsInv'
  OBVIOUS
<1>1. CountInv /\ Typed
  BY DEF TwinsInv, CountInv
<1>2. CountInv' /\ Typed'
  BY <1>1, CountStep DEF CountInv
<1> QED
  BY <1>1, <1>2, RestartsCounted, TitlesToldStep, RelayStep, TitlesExecutedStep DEF TwinsInv

\* Of an undisturbed token every deploy of the API went through, and nobody
\* else put one.
LEMMA AllRelayedExecuted ==
  ASSUME NEW id, Undisturbed(id), NEW end, NEW v
  PROVE  Executed(deploys, id, end, v) = Relayed(deploys, id, end, v)
BY DEF Undisturbed, TransfersOf, Executed, IsExecuted, Relayed, IsRelayed, IsTransfer

\* When all is quiet, every subscription has consumed everything.
LEMMA QuietConsumed ==
  ASSUME Typed, Quiet, NEW id, NEW end, NEW v
  PROVE  /\ Len(position) \in Nat \ {0}
         /\ Cardinality(Consumed(notifications, position, id, end, v))
              = Len(position) * Cardinality(Told(notifications, id, end, v))
<1> DEFINE T == Told(notifications, id, end, v)
<1>1. Len(position) \in Nat \ {0}
  BY ListsTyped DEF Quiet
<1>2. Consumed(notifications, position, id, end, v) = (1 .. Len(position)) \X T
  <2>1. \A s \in DOMAIN position : position[s] = Len(notifications)
    BY DEF Quiet
  <2>2. \A j \in DOMAIN notifications, s \in DOMAIN position : j <= position[s]
    BY <2>1, ListsTyped
  <2>3. DOMAIN position = 1 .. Len(position) /\ T \subseteq DOMAIN notifications
    BY ListsTyped DEF Told
  <2> HIDE DEF T
  <2> QED
    BY <2>2, <2>3 DEF Consumed, T
<1>3. IsFiniteSet(1 .. Len(position)) /\ Cardinality(1 .. Len(position)) = Len(position)
  BY <1>1, FS_Interval
<1>4. IsFiniteSet(T)
  BY FiniteTransfers
<1> HIDE DEF T
<1>5. Cardinality((1 .. Len(position)) \X T) = Len(position) * Cardinality(T)
  BY <1>3, <1>4, FS_Product
<1> QED
  BY <1>1, <1>2, <1>5 DEF T

\* However often a transfer is repeated and in whatever order the node executes
\* what it was sent: if all of it went through, the twin on the chain has the
\* owner the platform says.
THEOREM TwinsAgree == Spec => []TwinsAgreeOnceQuiet
<1>1. Init => TwinsInv
  BY CountInit, TwinsInit DEF TwinsInv
<1>2. TwinsInv => TwinsAgreeOnceQuiet
  <2> SUFFICES ASSUME TwinsInv, NEW t \in Tokens, Quiet, restarts = 0,
                      bcId[t] \in DOMAIN token_owners, Undisturbed(bcId[t])
               PROVE  token_owners[bcId[t]] = owner[t]
    BY DEF TwinsAgreeOnceQuiet
  <2> DEFINE id == bcId[t]
             o == owner[t]
             w == token_owners[id]
             a == deploys[id].call.to
             S == Len(position)
             told(end) == Cardinality(Told(notifications, id, end, o))
             done(end) == Cardinality(Executed(deploys, id, end, o))
  <2>1. Typed /\ TitlesToldOK /\ RelayOK /\ TitlesExecutedOK
    BY DEF TwinsInv, CountInv
  <2>2. id # NotAvailable
    BY <2>1, ListsTyped DEF Typed, ChainOK, NotAvailable
  <2>3. o \in Accounts
    <3>1. IsMint(id) /\ a \in Accounts
      BY <2>1, <2>2, IdentifiersApart DEF Typed, CreditAndPositions, CreditInv, DeploysOK, IsDeploy, IsMint
    <3>2. PICK i \in DOMAIN notifications : notifications[i] = Creation(t, a)
      BY <2>1, <2>2, IdentifiersApart
    <3>3. Creation(t, a).kind = "CreateToken" /\ Creation(t, a).token = t
      BY DEF Creation
    <3>4. i \in Announced(t)
      BY <3>2, <3>3 DEF Announced
    <3>5. o # NoAccount
      BY <3>4 DEF TwinsInv, CountInv, AnnouncedOnce
    <3> QED
      BY <2>1, <3>5 DEF Typed, PlatformOK
  <2>4. told("to") + Same(o, a) = told("from") + Same(o, o)
    BY <2>1, <2>2, <2>3 DEF TitlesToldOK
  <2>5. done("to") + Same(o, a) = done("from") + Same(o, w)
    BY <2>1, <2>3 DEF TitlesExecutedOK
  <2>6. ASSUME NEW end \in Ends
        PROVE  done(end) = S * told(end)
    <3>1. id \in Nat
      BY <2>1, <2>2, IdentifiersApart
    <3>2. done(end) = Cardinality(Relayed(deploys, id, end, o))
      BY AllRelayedExecuted
    <3>3. Cardinality(Relayed(deploys, id, end, o))
            = Cardinality(Consumed(notifications, position, id, end, o))
      BY <2>1, <2>3, <3>1 DEF RelayOK, Undisturbed
    <3> QED
      BY <2>1, <3>2, <3>3, QuietConsumed
  <2>7. S \in Nat \ {0} /\ told("to") \in Nat /\ told("from") \in Nat
    BY <2>1, QuietConsumed, FiniteTransfers
  <2>8. done("to") = S * told("to") /\ done("from") = S * told("from")
    BY <2>6 DEF Ends
  <2>9. Same(o, o) = 1 /\ (o = a => Same(o, a) = 1) /\ (o # a => Same(o, a) = 0)
    BY DEF Same
  <2> HIDE DEF id, o, w, a, S, told, done
  <2>10. Same(o, w) # 0
    <3>1. CASE o = a
      <4>1. told("to") = told("from")
        BY <2>4, <2>7, <2>9, <3>1
      <4>2. done("to") = done("from") /\ done("to") \in Nat
        BY <2>7, <2>8, <4>1
      <4> QED
        BY <2>5, <2>9, <3>1, <4>2
    <3>2. CASE o # a
      <4>1. told("to") = told("from") + 1
        BY <2>4, <2>7, <2>9, <3>2
      <4>2. done("to") = done("from") + S /\ done("from") \in Nat
        BY <2>7, <2>8, <4>1
      <4> QED
        BY <2>5, <2>7, <2>9, <3>2, <4>2
    <3> QED
      BY <3>1, <3>2
  <2> QED
    BY <2>10 DEF Same, id, o, w
<1> QED
  BY <1>1, <1>2, TwinsStep, PTL DEF Spec

-----------------------------------------------------------------------------
(* Replays.  The chain's count alone shows that nothing is taken back: who *)
(* has got a token and never sent it is its owner, and the API sends only  *)
(* what was announced.                                                     *)

RelayedAreTold ==
  \A n \in DOMAIN deploys, end \in Ends :
    \A id, v :
      IsRelayed(deploys[n], id, end, v) =>
        \E i \in DOMAIN notifications : IsTold(notifications[i], id, end, v)

KeptInv == Typed /\ TitlesExecutedOK /\ RelayedAreTold

LEMMA RelayedAreToldStep == Typed /\ RelayedAreTold /\ [Next]_vars => RelayedAreTold'
<1> SUFFICES ASSUME Typed, RelayedAreTold, [Next]_vars,
                    NEW n \in DOMAIN deploys', NEW end \in Ends, NEW id, NEW v,
                    IsRelayed(deploys'[n], id, end, v)
             PROVE  \E i \in DOMAIN notifications' : IsTold(notifications'[i], id, end, v)
  BY DEF RelayedAreTold
<1>1. \A i \in DOMAIN notifications :
        i \in DOMAIN notifications' /\ notifications'[i] = notifications[i]
  BY LostStays DEF NotificationsStay
<1>2. CASE n \in DOMAIN deploys /\ IsRelayed(deploys[n], id, end, v)
  BY <1>1, <1>2 DEF RelayedAreTold
<1>3. CASE deploys' = deploys
  BY <1>2, <1>3
<1>4. CASE \E k \in DOMAIN deploys, r \in {"succeeded", "failed"} : Conclude(k, r)
  BY <1>2, <1>4, ConcludeReplaces DEF IsRelayed, IsTransfer
<1>5. CASE PutElse
  <2>1. PICK x : deploys' = Append(deploys, x) /\ x.by # "API"
    BY <1>5 DEF PutElse
  <2>2. ~ IsRelayed(x, id, end, v)
    BY <2>1 DEF IsRelayed
  <2> QED
    BY <1>2, <2>1, <2>2, PutAppends
<1>6. CASE \E s, i : Advances(s, i)
  <2>1. PICK s, i : Advances(s, i)
    BY <1>6
  <2>2. i \in DOMAIN notifications /\ (deploys' = deploys \/ Put(DeployFor(notifications[i])))
    BY <2>1 DEF Advances, PutFor
  <2>3. CASE Put(DeployFor(notifications[i]))
    <3> DEFINE q == DeployFor(notifications[i])
               x == [call |-> q, contract |-> nft_contract, by |-> "API", status |-> "pending"]
    <3>1. (q.kind = "transfer" /\ q.id = id /\ q[end] = v) <=> IsTold(notifications[i], id, end, v)
      BY <2>2, TransferFor DEF Typed, CreditAndPositions, CreditInv
    <3>2. deploys' = Append(deploys, x)
      BY <2>3 DEF Put
    <3> HIDE DEF q
    <3>3. x.call = q
      OBVIOUS
    <3> HIDE DEF x
    <3>4. IsRelayed(x, id, end, v) => IsTold(notifications[i], id, end, v)
      BY <3>1, <3>3 DEF IsRelayed, IsTransfer
    <3>5. \/ n \in DOMAIN deploys /\ deploys'[n] = deploys[n]
          \/ deploys'[n] = x
      BY <3>2, PutAppends
    <3> QED
      BY <1>1, <1>2, <2>2, <3>4, <3>5
  <2> QED
    BY <1>3, <2>2, <2>3
<1>7. CASE ChainStep
  BY <1>4, <1>5, <1>7, ChainCases DEF Execute
<1>8. CASE Subscribe \/ Restart
  BY <1>3, <1>8 DEF Subscribe, Restart
<1> QED
  BY <1>3, <1>6, <1>7, <1>8, AgreementCases

\* Whoever got a token and was never announced as its giver keeps it on the
\* chain, through any number of restarts, subscriptions that replay the past,
\* failures, and orders of execution.
THEOREM NothingTakenBack == Spec => []NothingIsTakenBack
<1>1. Init => KeptInv
  BY TypedInit, TwinsInit DEF Init, KeptInv, RelayedAreTold
<1>2. KeptInv /\ [Next]_vars => KeptInv'
  BY TypedStep, TitlesExecutedStep, RelayedAreToldStep DEF KeptInv
<1>3. KeptInv => NothingIsTakenBack
  <2> SUFFICES ASSUME KeptInv, NEW id \in DOMAIN token_owners, NEW a \in Accounts,
                      \A n \in TransfersOf(id) : deploys[n].by = "API",
                      Received(a, id), ~ Gave(a, id)
               PROVE  token_owners[id] = a
    BY DEF NothingIsTakenBack
  <2> DEFINE got == Cardinality(Executed(deploys, id, "to", a))
             given == Cardinality(Executed(deploys, id, "from", a))
  <2>1. got + Same(a, deploys[id].call.to) = given + Same(a, token_owners[id])
    BY DEF KeptInv, TitlesExecutedOK
  <2>2. given = 0
    <3>1. ASSUME NEW n \in Executed(deploys, id, "from", a)
          PROVE  FALSE
      <4>1. n \in DOMAIN deploys /\ IsTransfer(deploys[n], id) /\ deploys[n].call.from = a
        BY <3>1 DEF Executed, IsExecuted
      <4>2. deploys[n].by = "API"
        BY <4>1 DEF TransfersOf, IsTransfer
      <4>3. IsRelayed(deploys[n], id, "from", a) /\ "from" \in Ends
        BY <4>1, <4>2 DEF IsRelayed, Ends
      <4>4. PICK i \in DOMAIN notifications : IsTold(notifications[i], id, "from", a)
        BY <4>1, <4>3 DEF KeptInv, RelayedAreTold
      <4> QED
        BY <4>4 DEF IsTold, Gave
    <3>2. Executed(deploys, id, "from", a) = {}
      BY <3>1
    <3> QED
      BY <3>2, FS_EmptySet
  <2>3. got \in Nat /\ IsFiniteSet(Executed(deploys, id, "to", a))
    BY FiniteTransfers DEF KeptInv
  <2>4. got > 0 \/ a = deploys[id].call.to
    <3>1. CASE \E n \in TransfersOf(id) : deploys[n].status = "succeeded" /\ deploys[n].call.to = a
      <4>1. Executed(deploys, id, "to", a) # {}
        BY <3>1 DEF TransfersOf, Executed, IsExecuted, IsTransfer
      <4>2. got # 0
        BY <2>3, <4>1, FS_EmptySet
      <4> QED
        BY <2>3, <4>2
    <3> QED
      BY <3>1 DEF Received
  <2> HIDE DEF got, given
  <2> QED
    BY <2>1, <2>2, <2>3, <2>4 DEF Same
<1> QED
  BY <1>1, <1>2, <1>3, PTL DEF Spec

-----------------------------------------------------------------------------
(* Every token gets its identifier.  From the moment a subscription has    *)
(* passed the creation of a token, its mint is on its way, or there is an  *)
(* excuse for it.                                                          *)

Excused(t) ==
  \/ bcId[t] # NotAvailable
  \/ LostToken(t)
  \/ MintsOf(t) \cap premature # {}
  \/ t \in traded
  \/ ~ listening

\* The node will still answer for the mint, or has, and the API knows or will
\* know whose it is.
IsOnItsWay(m) ==
  /\ \/ deploys[m].status = "pending"
     \/ \E k \in DOMAIN processed_events : processed_events[k] = m
  /\ \/ \E s \in DOMAIN unstored : unstored[s] = m
     \/ EntriesOf(m) # {}

Provided(t) == Excused(t) \/ \E m \in MintsOf(t) : IsOnItsWay(m)

CreationsProvided ==
  \A t \in Tokens, s \in DOMAIN position :
    (\E i \in Announced(t) : i <= position[s]) => Provided(t)

OwnedAreAnnounced == \A t \in Tokens : owner[t] # NoAccount => Announced(t) # {}

\* What closes the stream.
ClosedWithCause ==
  /\ transfers \in Nat
  /\ ~ listening => traded # {} \/ transfers > 0
  /\ deploysTransfers # {} => transfers > 0
  /\ \A n \in DOMAIN deploys : deploys[n].call.kind = "foreign" => transfers > 0

LinkInv == Typed /\ CreationsProvided /\ OwnedAreAnnounced /\ ClosedWithCause

LEMMA LinkInit == Init => LinkInv
<1> SUFFICES ASSUME Init PROVE LinkInv
  OBVIOUS
<1>1. Typed
  BY TypedInit
<1>2. /\ position = <<>> /\ deploys = <<>> /\ deploysTransfers = {} /\ listening
      /\ transfers = 0 /\ \A t \in Tokens : owner[t] = NoAccount
  BY DEF Init
<1> QED
  BY <1>1, <1>2 DEF LinkInv, CreationsProvided, OwnedAreAnnounced, ClosedWithCause

\* What excuses a token goes on excusing it, until the API restarts.
LEMMA ExcuseLasts ==
  ASSUME Typed, [Next]_vars, ~ Restart, NEW t \in Tokens, Excused(t)
  PROVE  Excused(t)'
<1>1. NotificationsStay /\ lost \subseteq lost' /\ Endures
  BY LostStays, CallsEndure
<1>2. MintsOf(t) \subseteq MintsOf(t)'
  BY <1>1 DEF MintsOf, Endures
<1>3. LostToken(t) => LostToken(t)'
  BY <1>1 DEF LostToken, NotificationsStay, Typed, LostOK
<1>4. CASE HearProcessed
  <2> DEFINE n == Head(processed_events)
  <2>1. /\ traded' = traded /\ premature \subseteq premature'
        /\ ProcessedTransfer(n) \/ ProcessedMint(n) \/ ProcessedOther(n)
    BY <1>4 DEF HearProcessed
  <2>2. listening' => listening
    BY <2>1 DEF ProcessedTransfer, ProcessedMint, ProcessedOther, Heard, Disconnect
  <2>3. bcId[t] # NotAvailable => bcId'[t] # NotAvailable
    <3>1. CASE bcId' = bcId
      BY <3>1
    <3>2. CASE bcId' # bcId
      <4>1. PICK e \in deploysTokens : bcId' = [bcId EXCEPT ![e.protocolId] = e.tokenId]
        BY <2>1, <3>2 DEF ProcessedTransfer, ProcessedMint, ProcessedOther, EntriesOf
      <4>2. e.tokenId # NotAvailable
        BY ListsTyped DEF Typed, MapsOK, NotAvailable
      <4> QED
        BY <4>1, <4>2 DEF Typed, CreditAndPositions, CreditInv, IdsOK
    <3> QED
      BY <3>1, <3>2
  <2> QED
    BY <1>2, <1>3, <2>1, <2>2, <2>3 DEF Excused
<1>5. CASE UNCHANGED <<bcId, premature, listening>> /\ traded \subseteq traded'
  BY <1>2, <1>3, <1>5 DEF Excused
<1>6. CASE PlatformStep
  <2>1. UNCHANGED <<bcId, premature, listening>> /\ traded \subseteq traded'
    BY <1>6 DEF PlatformStep, CreateProject, SignShareholderAgreement, DeclineNdaAndLegReq, RevokeSignature,
                CreateToken, OffChainTransfer, streams
  <2> QED
    BY <1>5, <2>1
<1>7. CASE \/ ChainStep \/ Subscribe \/ UNCHANGED vars
           \/ \E n \in accepted_events : HearAccepted(n)
           \/ \E s \in DOMAIN position : SubscriptionStep(s)
  <2>1. UNCHANGED <<bcId, premature, listening, traded>>
    BY <1>7 DEF ChainStep, Execute, Refuse, RunOutOfGas, TransferByOwner, TransferElsewhere,
                PutByOthers, Subscribe, HearAccepted, SubscriptionStep, Store, Consume,
                ContractMissing, PutThrows, platform, streams, vars
  <2> QED
    BY <1>5, <2>1
<1> QED
  BY <1>4, <1>6, <1>7 DEF Next, ApiStep

\* Where neither the node answers nor the API hears, what is on its way stays so.
LEMMA StaysOnItsWay ==
  ASSUME Typed, NEW m \in DOMAIN deploys, IsOnItsWay(m),
         m \in DOMAIN deploys', deploys'[m].status = deploys[m].status,
         UNCHANGED processed_events,
         \A s \in DOMAIN unstored :
           unstored[s] = m => \/ EntriesOf(m)' # {}
                              \/ s \in DOMAIN unstored' /\ unstored'[s] = m,
         deploysTokens \subseteq deploysTokens'
  PROVE  IsOnItsWay(m)'
BY DEF IsOnItsWay, EntriesOf

\* The node answers: its event is queued.
LEMMA AnsweredOnItsWay ==
  ASSUME Typed, NEW t \in Tokens, NEW m \in MintsOf(t), IsOnItsWay(m), listening,
         NEW n \in DOMAIN deploys, NEW r, Conclude(n, r),
         UNCHANGED <<unstored, deploysTokens>>
  PROVE  IsOnItsWay(m)'
<1>1. m \in DOMAIN deploys /\ deploys[m].call.kind = "mint"
  BY DEF MintsOf
<1>2. /\ n # m => deploys'[m].status = deploys[m].status
      /\ processed_events' = IF OfInterest(deploys[n].call)
                               THEN Append(processed_events, n) ELSE processed_events
  BY <1>1, ConcludeReplaces DEF Conclude
<1>3. processed_events \in Seq(Nat)
  BY DEF Typed, CreditAndPositions, CreditInv, EventsOK
<1>4. n \in Nat
  BY ListsTyped
<1>5. \A k \in DOMAIN processed_events :
        k \in DOMAIN processed_events' /\ processed_events'[k] = processed_events[k]
  BY <1>2, <1>3, <1>4
<1>6. n = m => \E k \in DOMAIN processed_events' : processed_events'[k] = m
  <2>1. n = m => processed_events' = Append(processed_events, n)
    BY <1>1, <1>2 DEF OfInterest
  <2>2. ASSUME n = m
        PROVE  /\ Len(processed_events) + 1 \in DOMAIN processed_events'
               /\ processed_events'[Len(processed_events) + 1] = m
    BY <1>3, <1>4, <2>1, <2>2
  <2> QED
    BY <2>2
<1> QED
  BY <1>2, <1>5, <1>6 DEF IsOnItsWay, EntriesOf

\* The API hears of a deploy: if it is the mint, it has arrived, or came before
\* its hash was stored.
LEMMA HeardOnItsWay ==
  ASSUME Typed, HearProcessed, NEW t \in Tokens, NEW m \in MintsOf(t), IsOnItsWay(m)
  PROVE  Excused(t)' \/ IsOnItsWay(m)'
<1> DEFINE n == Head(processed_events)
<1>1. /\ processed_events # <<>>
      /\ ProcessedTransfer(n) \/ ProcessedMint(n) \/ ProcessedOther(n)
      /\ premature' = premature \cup {k \in {n} : \E s \in DOMAIN unstored : unstored[s] = k}
      /\ UNCHANGED <<deploys, unstored>>
  BY DEF HearProcessed, consumers
<1>2. /\ processed_events \in Seq(Nat) /\ n = processed_events[1] /\ 1 \in DOMAIN processed_events
      /\ IsAnswered(n)
  BY <1>1 DEF Typed, CreditAndPositions, CreditInv, EventsOK
<1>3. deploysTokens' = deploysTokens
  BY <1>1 DEF ProcessedTransfer, ProcessedMint, ProcessedOther, maps
<1>4. CASE Disconnect
  BY <1>4 DEF Disconnect, Excused
<1>5. CASE ~ Disconnect /\ n # m
  <2>1. processed_events' = Tail(processed_events)
    BY <1>1, <1>5 DEF ProcessedTransfer, ProcessedMint, ProcessedOther, Heard
  <2>2. ASSUME NEW k \in DOMAIN processed_events, processed_events[k] = m
        PROVE  \E j \in DOMAIN processed_events' : processed_events'[j] = m
    <3>1. k # 1 /\ k \in 1 .. Len(processed_events) /\ Len(processed_events) \in Nat
      BY <1>2, <1>5, <2>2
    <3>2. k - 1 \in DOMAIN processed_events' /\ processed_events'[k - 1] = m
      BY <1>1, <1>2, <2>1, <2>2, <3>1
    <3> QED
      BY <3>2
  <2> HIDE DEF n
  <2> QED
    BY <1>1, <1>3, <2>2 DEF IsOnItsWay, EntriesOf
<1>6. CASE ~ Disconnect /\ n = m
  <2>1. CASE ProcessedMint(n)
    <3>1. PICK e \in EntriesOf(n) : bcId' = [bcId EXCEPT ![e.protocolId] = e.tokenId]
      BY <1>6, <2>1 DEF ProcessedMint
    <3>2. e.tokenId = m /\ e.protocolId = deploys[m].call.token
      BY <1>6 DEF EntriesOf, Typed, CreditAndPositions, CreditInv, TokensOK
    <3>3. deploys[m].call.token = t /\ m # NotAvailable
      BY ListsTyped DEF MintsOf, NotAvailable
    <3>4. bcId'[t] # NotAvailable
      BY <3>1, <3>2, <3>3 DEF Typed, CreditAndPositions, CreditInv, IdsOK
    <3> QED
      BY <3>4 DEF Excused
  <2>2. CASE ProcessedOther(n)
    <3>1. EntriesOf(m) = {}
      BY <1>6, <2>2 DEF ProcessedOther
    <3>2. \E s \in DOMAIN unstored : unstored[s] = m
      BY <3>1 DEF IsOnItsWay
    <3>3. m \in premature'
      BY <1>1, <1>6, <3>2
    <3>4. m \in MintsOf(t)'
      BY <1>1 DEF MintsOf
    <3> QED
      BY <3>3, <3>4 DEF Excused
  <2> QED
    BY <1>1, <1>6, <2>1, <2>2 DEF ProcessedTransfer
<1> QED
  BY <1>4, <1>5, <1>6

\* A subscription puts deploys, stores hashes, or fails; it never makes the API
\* forget a mint.
LEMMA ServedOnItsWay ==
  ASSUME Typed, NEW r \in DOMAIN position, SubscriptionStep(r), [Next]_vars,
         NEW m \in DOMAIN deploys, IsOnItsWay(m)
  PROVE  IsOnItsWay(m)'
<1>0. unstored \in Seq(Nat) /\ m # 0
  BY ListsTyped DEF Typed, CreditAndPositions, CreditInv, UnstoredOK
<1>1. m \in DOMAIN deploys'
  BY CallsEndure DEF Endures
<1>2. CASE Store(r)
  <2> DEFINE e == [hash |-> unstored[r], tokenId |-> unstored[r],
                   protocolId |-> deploys[unstored[r]].call.token]
  <2>1. /\ deploysTokens' = deploysTokens \cup {e}
        /\ unstored' = [unstored EXCEPT ![r] = 0]
        /\ UNCHANGED <<deploys, processed_events>>
    BY <1>2 DEF Store, streams
  <2>2. e.hash = unstored[r]
    OBVIOUS
  <2> HIDE DEF e
  <2>3. unstored[r] = m => EntriesOf(m)' # {}
    BY <2>1, <2>2 DEF EntriesOf
  <2>4. \A s \in DOMAIN unstored : s # r => s \in DOMAIN unstored' /\ unstored'[s] = unstored[s]
    BY <1>0, <2>1
  <2> QED
    BY <1>1, <2>1, <2>3, <2>4, StaysOnItsWay
<1>3. CASE \E i \in DOMAIN notifications :
             \/ Consume(r, notifications[i])
             \/ ContractMissing(r, notifications[i])
             \/ PutThrows(r, notifications[i])
  <2>1. PICK i \in DOMAIN notifications :
             \/ Consume(r, notifications[i])
             \/ ContractMissing(r, notifications[i])
             \/ PutThrows(r, notifications[i])
    BY <1>3
  <2>2. /\ unstored[r] = 0 /\ UNCHANGED <<processed_events, deploysTokens>>
        /\ unstored' = unstored \/ unstored' = [unstored EXCEPT ![r] = Len(deploys) + 1]
        /\ deploys' = deploys \/ Put(DeployFor(notifications[i]))
    BY <2>1 DEF Consume, ContractMissing, PutThrows, IsNext, maps, streams
  <2>3. \A s \in DOMAIN unstored : s # r => s \in DOMAIN unstored' /\ unstored'[s] = unstored[s]
    BY <1>0, <2>2
  <2>4. deploys'[m].status = deploys[m].status
    <3>1. CASE Put(DeployFor(notifications[i]))
      <4>1. deploys'[m] = deploys[m]
        BY <3>1, PutAppends DEF Put
      <4> QED
        BY <4>1
    <3> QED
      BY <2>2, <3>1
  <2> QED
    BY <1>0, <1>1, <2>2, <2>3, <2>4, StaysOnItsWay
<1> QED
  BY <1>2, <1>3 DEF SubscriptionStep

\* A token that was provided for stays so, until the API restarts.
LEMMA ProvidedStays ==
  ASSUME Typed, [Next]_vars, ~ Restart, NEW t \in Tokens, Provided(t)
  PROVE  Provided(t)'
<1>1. CASE Excused(t)
  BY <1>1, ExcuseLasts DEF Provided
<1>2. CASE ~ Excused(t)
  <2>1. PICK m \in MintsOf(t) : IsOnItsWay(m)
    BY <1>2 DEF Provided
  <2>2. m \in DOMAIN deploys /\ m \in MintsOf(t)' /\ m \in DOMAIN deploys'
    BY CallsEndure DEF Endures, MintsOf
  <2>3. CASE UNCHANGED <<processed_events, deploysTokens>>
             /\ deploys'[m].status = deploys[m].status
             /\ \A s \in DOMAIN unstored : s \in DOMAIN unstored' /\ unstored'[s] = unstored[s]
    BY <2>1, <2>2, <2>3, StaysOnItsWay DEF Provided
  <2>4. CASE HearProcessed
    <3>1. Excused(t)' \/ IsOnItsWay(m)'
      BY <2>1, <2>4, HeardOnItsWay
    <3> QED
      BY <2>2, <3>1 DEF Provided
  <2>5. CASE \E s \in DOMAIN position : SubscriptionStep(s)
    BY <2>1, <2>2, <2>5, ServedOnItsWay DEF Provided
  <2>6. CASE ChainStep
    <3>1. listening /\ UNCHANGED <<unstored, deploysTokens>>
      BY <1>2, <2>6, ChainCases DEF Excused, consumers, maps
    <3>2. CASE \E n \in DOMAIN deploys : Execute(n) \/ Refuse(n) \/ RunOutOfGas(n)
      <4>1. \E n \in DOMAIN deploys, r \in {"succeeded", "failed"} : Conclude(n, r)
        BY <3>2 DEF Execute, Refuse, RunOutOfGas
      <4> QED
        BY <2>1, <2>2, <3>1, <4>1, AnsweredOnItsWay DEF Provided
    <3>3. CASE \E call, contract, who : PutByOthers(call, contract, who)
      <4>1. processed_events' = processed_events /\ \E x : deploys' = Append(deploys, x)
        BY <3>3 DEF PutByOthers
      <4>2. deploys'[m] = deploys[m]
        BY <2>2, <4>1, PutAppends
      <4> QED
        BY <2>3, <3>1, <4>1, <4>2
    <3> QED
      BY <2>6, <3>2, <3>3 DEF ChainStep, TransferByOwner, TransferElsewhere
  <2>7. CASE Subscribe
    <3>1. unstored' = Append(unstored, 0) /\ unstored \in Seq(Nat)
      BY <2>7 DEF Subscribe, Typed, CreditAndPositions, CreditInv, UnstoredOK
    <3>2. \A s \in DOMAIN unstored : s \in DOMAIN unstored' /\ unstored'[s] = unstored[s]
      BY <3>1
    <3> QED
      BY <2>3, <2>7, <3>2 DEF Subscribe, maps, streams
  <2>8. CASE PlatformStep \/ UNCHANGED vars \/ \E n \in accepted_events : HearAccepted(n)
    <3>1. UNCHANGED <<processed_events, deploysTokens, deploys, unstored>>
      BY <2>8 DEF PlatformStep, HearAccepted, maps, consumers, streams, vars
    <3> QED
      BY <2>3, <3>1
  <2> QED
    BY <2>4, <2>5, <2>6, <2>7, <2>8 DEF Next, ApiStep
<1> QED
  BY <1>1, <1>2

\* A creation is provided for by the subscription that passes it.
LEMMA ProvidedWhenPassed ==
  ASSUME Typed, NEW s \in DOMAIN position, NEW j \in DOMAIN notifications,
         \/ Consume(s, notifications[j])
         \/ ContractMissing(s, notifications[j])
         \/ PutThrows(s, notifications[j]),
         NEW t \in Tokens, position[s] + 1 \in Announced(t)
  PROVE  Provided(t)'
<1> DEFINE i == position[s] + 1
           n == notifications[j]
<1>1. /\ i \in DOMAIN notifications /\ notifications[i].kind = "CreateToken"
      /\ notifications[i].token = t
  BY DEF Announced
<1>2. n = notifications[i] /\ unstored[s] = 0 /\ notifications' = notifications
  BY DEF Consume, ContractMissing, PutThrows, IsNext, platform
<1>3. CASE lost' = lost \cup {i}
  <2>1. LostToken(t)'
    BY <1>1, <1>2, <1>3 DEF LostToken
  <2> QED
    BY <2>1 DEF Provided, Excused
<1>4. CASE Consume(s, n)
  <2>0. PICK m : m = Len(deploys) + 1
    OBVIOUS
  <2> DEFINE q == DeployFor(n)
             x == [call |-> q, contract |-> nft_contract, by |-> "API", status |-> "pending"]
  <2>1. q.kind = "mint" /\ q.token = t
    <3>1. q = [kind |-> "mint", to |-> n.account, token |-> n.token]
      BY <1>1, <1>2 DEF DeployFor
    <3> QED
      BY <1>1, <1>2, <3>1
  <2>2. deploys' = Append(deploys, x)
    BY <1>4 DEF Consume, Put
  <2> HIDE DEF q
  <2>3. x.call = q /\ x.status = "pending"
    OBVIOUS
  <2> HIDE DEF x
  <2>4. m \in DOMAIN deploys' /\ deploys'[m] = x
    BY <2>0, <2>2, PutAppends
  <2>5. m \in MintsOf(t)'
    BY <2>1, <2>3, <2>4 DEF MintsOf
  <2>6. s \in DOMAIN unstored' /\ unstored'[s] = m
    <3>1. unstored' = [unstored EXCEPT ![s] = m]
      BY <1>1, <1>2, <1>4, <2>0 DEF Consume
    <3>2. s \in DOMAIN unstored
      BY DEF Typed, CreditAndPositions, CreditInv, UnstoredOK, PositionsOK
    <3> QED
      BY <3>1, <3>2
  <2>7. IsOnItsWay(m)'
    BY <2>3, <2>4, <2>6 DEF IsOnItsWay
  <2> QED
    BY <2>5, <2>7 DEF Provided
<1> QED
  BY <1>3, <1>4 DEF ContractMissing, PutThrows, Fails

LEMMA CreationsProvidedStep == LinkInv /\ [Next]_vars => CreationsProvided'
<1> SUFFICES ASSUME LinkInv, [Next]_vars,
                    NEW t \in Tokens, NEW s \in DOMAIN position',
                    NEW i \in Announced(t)', i <= position'[s]
             PROVE  Provided(t)'
  BY DEF CreationsProvided
<1>0. Typed /\ CreationsProvided
  BY DEF LinkInv
<1>1. ~ Restart
  BY DEF Restart
<1>2. CASE s \in DOMAIN position /\ i \in Announced(t) /\ i <= position[s]
  BY <1>0, <1>1, <1>2, ProvidedStays DEF CreationsProvided
<1>3. CASE PlatformStep
  <2>1. position' = position
    BY <1>3 DEF PlatformStep, consumers
  <2>2. i \in DOMAIN notifications
    <3>1. position[s] <= Len(notifications) /\ DOMAIN notifications = 1 .. Len(notifications)
      BY <1>0, <2>1, ListsTyped
    <3>2. i \in Nat \ {0}
      BY ListsTyped DEF Announced, Typed, CreditAndPositions, CreditInv, NotificationsOK, IsList
    <3> QED
      BY <1>0, <2>1, <3>1, <3>2, ListsTyped
  <2>3. i \in Announced(t)
    BY <1>0, <2>2, LostStays DEF Announced, NotificationsStay
  <2> QED
    BY <1>2, <2>1, <2>3
<1>4. CASE Subscribe
  <2>1. position' = Append(position, 0) /\ notifications' = notifications
    BY <1>4 DEF Subscribe, StartOfStream, platform
  <2>2. i \in Announced(t) /\ i \in Nat \ {0}
    BY <1>0, <2>1, ListsTyped DEF Announced
  <2>3. s = Len(position) + 1 => position'[s] = 0
    BY <1>0, <2>1, ListsTyped
  <2>4. s # Len(position) + 1 => s \in DOMAIN position /\ position'[s] = position[s]
    BY <1>0, <2>1, ListsTyped
  <2> QED
    BY <1>2, <2>2, <2>3, <2>4
<1>5. CASE \E r \in DOMAIN position, j \in DOMAIN notifications :
             \/ Consume(r, notifications[j])
             \/ ContractMissing(r, notifications[j])
             \/ PutThrows(r, notifications[j])
  <2>1. PICK r \in DOMAIN position, j \in DOMAIN notifications :
             \/ Consume(r, notifications[j])
             \/ ContractMissing(r, notifications[j])
             \/ PutThrows(r, notifications[j])
    BY <1>5
  <2>2. /\ position' = Advanced(r) /\ notifications' = notifications
    BY <2>1 DEF Consume, ContractMissing, PutThrows, Fails, AfterException, platform
  <2>3. /\ s \in DOMAIN position
        /\ position'[s] = IF s = r THEN position[r] + 1 ELSE position[s]
    BY <1>0, <2>2, ListsTyped DEF Advanced
  <2>4. i \in Announced(t) /\ i \in Nat
    BY <1>0, <2>2, ListsTyped DEF Announced
  <2>5. i <= position[s] \/ (s = r /\ i = position[r] + 1)
    BY <1>0, <2>3, <2>4, ListsTyped
  <2> QED
    BY <1>0, <1>2, <2>1, <2>3, <2>4, <2>5, ProvidedWhenPassed
<1>6. CASE UNCHANGED <<position, notifications>>
  BY <1>2, <1>6 DEF Announced
<1>7. CASE \/ ChainStep \/ HearProcessed \/ UNCHANGED vars
           \/ \E n \in accepted_events : HearAccepted(n)
           \/ \E r \in DOMAIN position : Store(r)
  <2>1. UNCHANGED <<position, notifications>>
    BY <1>7, ChainCases DEF HearProcessed, HearAccepted, Store, consumers, platform, vars
  <2> QED
    BY <1>6, <2>1
<1> QED
  BY <1>1, <1>3, <1>4, <1>5, <1>7, StepCases

LEMMA OwnedAreAnnouncedStep == Typed /\ OwnedAreAnnounced /\ [Next]_vars => OwnedAreAnnounced'
<1> SUFFICES ASSUME Typed, OwnedAreAnnounced, [Next]_vars,
                    NEW t \in Tokens, owner'[t] # NoAccount
             PROVE  Announced(t)' # {}
  BY DEF OwnedAreAnnounced
<1>1. Announced(t) \subseteq Announced(t)'
  BY LostStays DEF Announced, NotificationsStay
<1>2. CASE owner[t] # NoAccount
  BY <1>1, <1>2 DEF OwnedAreAnnounced
<1>3. CASE UNCHANGED owner
  BY <1>2, <1>3
<1>4. CASE PlatformStep
  <2>1. CASE \E u \in Tokens, a \in Accounts : CreateToken(u, a)
    <3>1. PICK u \in Tokens, a \in Accounts : CreateToken(u, a)
      BY <2>1
    <3> DEFINE n == Creation(u, a)
    <3>2. Notify(n) /\ n.kind = "CreateToken" /\ n.token = u
      BY <3>1 DEF CreateToken, Creation
    <3> HIDE DEF n
    <3>3. u = t => Announced(t)' # {}
      BY <3>2, NotifyAppends DEF Announced
    <3>4. u # t => owner'[t] = owner[t]
      BY <3>1 DEF CreateToken, Typed, PlatformOK
    <3> QED
      BY <1>2, <3>3, <3>4
  <2>2. CASE \E u \in Tokens, b \in Accounts : OffChainTransfer(u, b)
    BY <1>2, <2>2 DEF OffChainTransfer, Typed, PlatformOK
  <2> QED
    BY <1>3, <1>4, <2>1, <2>2, PlatformCases
<1> QED
  BY <1>3, <1>4, AgreementCases DEF Subscribe, Restart, platform

\* The consumers call no contract but their own.
LEMMA PutsNothingForeign ==
  ASSUME NotificationsOK, NEW i \in DOMAIN notifications, NEW q,
         q = DeployFor(notifications[i])
  PROVE  q.kind # "foreign"
<1> DEFINE n == notifications[i]
<1>1. CASE n.kind = "CreateProject"
  <2>1. q = [kind |-> "install"]
    BY <1>1 DEF DeployFor
  <2> QED
    BY <2>1
<1>2. CASE n.kind = "CreateToken"
  <2>1. q = [kind |-> "mint", to |-> n.account, token |-> n.token]
    BY <1>2 DEF DeployFor
  <2> QED
    BY <2>1
<1>3. CASE n.kind = "TransferToken"
  <2>1. q = [kind |-> "transfer", id |-> n.id, from |-> n.from, to |-> n.to]
    BY <1>3 DEF DeployFor
  <2> QED
    BY <2>1
<1>4. CASE n.kind = "AddWhiteListedInvestor"
  <2>1. q = [kind |-> "add", account |-> n.account]
    BY <1>4 DEF DeployFor
  <2> QED
    BY <2>1
<1>5. CASE n.kind = "RemoveWhiteListedInvestor"
  <2>1. q = [kind |-> "remove", account |-> n.account]
    BY <1>5 DEF DeployFor
  <2> QED
    BY <2>1
<1> QED
  BY <1>1, <1>2, <1>3, <1>4, <1>5 DEF NotificationsOK

\* Nobody but others puts a deploy of a foreign contract.
LEMMA ForeignIsCounted ==
  ASSUME Typed, ClosedWithCause, [Next]_vars, transfers' = transfers,
         NEW n \in DOMAIN deploys', deploys'[n].call.kind = "foreign"
  PROVE  transfers > 0
<1>1. CASE n \in DOMAIN deploys
  BY <1>1, CallsEndure DEF Endures, ClosedWithCause
<1>2. CASE n \notin DOMAIN deploys
  <2>1. CASE \E k \in DOMAIN deploys, r \in {"succeeded", "failed"} : Conclude(k, r)
    BY <1>2, <2>1, ConcludeReplaces
  <2>2. CASE \E call, contract, who : PutByOthers(call, contract, who)
    BY <2>2 DEF PutByOthers, ClosedWithCause
  <2>3. CASE ChainStep
    BY <2>1, <2>2, <2>3 DEF ChainStep, Execute, Refuse, RunOutOfGas, TransferByOwner,
                            TransferElsewhere
  <2>4. CASE \E s, i : Advances(s, i)
    <3>1. PICK s, i : Advances(s, i)
      BY <2>4
    <3>2. i \in DOMAIN notifications /\ Put(DeployFor(notifications[i]))
      BY <1>2, <3>1 DEF Advances, PutFor
    <3> DEFINE q == DeployFor(notifications[i])
               x == [call |-> q, contract |-> nft_contract, by |-> "API", status |-> "pending"]
    <3>3. q.kind # "foreign"
      BY <3>2, PutsNothingForeign DEF Typed, CreditAndPositions, CreditInv
    <3>4. deploys' = Append(deploys, x)
      BY <3>2 DEF Put
    <3> HIDE DEF q
    <3>5. x.call = q
      OBVIOUS
    <3> HIDE DEF x
    <3>6. deploys'[n] = x
      BY <1>2, <3>4, PutAppends
    <3> QED
      BY <3>3, <3>5, <3>6
  <2> QED
    BY <1>2, <2>3, <2>4, AgreementCases DEF Subscribe, Restart
<1> QED
  BY <1>1, <1>2

LEMMA ClosedWithCauseStep == Typed /\ ClosedWithCause /\ [Next]_vars => ClosedWithCause'
<1> SUFFICES ASSUME Typed, ClosedWithCause, [Next]_vars PROVE ClosedWithCause'
  OBVIOUS
<1>0. transfers \in Nat
  BY DEF ClosedWithCause
<1>1. CASE \E call, contract, who : PutByOthers(call, contract, who)
  <2>1. transfers' = transfers + 1
    BY <1>1 DEF PutByOthers
  <2>2. transfers' \in Nat /\ transfers' > 0
    BY <1>0, <2>1
  <2> QED
    BY <2>2 DEF ClosedWithCause
<1>2. ASSUME transfers' = transfers, traded \subseteq traded',
             ~ listening' => ~ listening \/ traded # {} \/ transfers > 0,
             deploysTransfers' # {} => transfers > 0
      PROVE  ClosedWithCause'
  <2>1. \A n \in DOMAIN deploys' : deploys'[n].call.kind = "foreign" => transfers' > 0
    BY <1>2, ForeignIsCounted
  <2> QED
    BY <1>2, <2>1 DEF ClosedWithCause
<1>3. CASE PlatformStep
  <2>1. traded \subseteq traded'
    BY <1>3, PlatformCases DEF CreateToken, OffChainTransfer
  <2> QED
    BY <1>2, <1>3, <2>1 DEF PlatformStep, maps, streams, counters, ClosedWithCause
<1>4. CASE \/ Subscribe \/ UNCHANGED vars
           \/ \E s \in DOMAIN position : SubscriptionStep(s)
           \/ \E n \in DOMAIN deploys : Execute(n) \/ Refuse(n) \/ RunOutOfGas(n)
  <2>1. UNCHANGED <<transfers, traded, listening, deploysTransfers>>
    BY <1>4 DEF Subscribe, SubscriptionStep, Store, Consume, ContractMissing, PutThrows,
                Execute, Refuse, RunOutOfGas, platform, maps, streams, counters, vars
  <2> QED
    BY <1>2, <2>1 DEF ClosedWithCause
<1>5. CASE \E n \in accepted_events : HearAccepted(n)
  <2>1. PICK n \in accepted_events : HearAccepted(n)
    BY <1>5
  <2>2. UNCHANGED <<transfers, traded, listening>>
    BY <2>1 DEF HearAccepted, platform, counters
  <2>3. n \in DOMAIN deploys
    BY DEF Typed, StreamsOK
  <2>4. deploysTransfers' # {} => transfers > 0
    BY <2>1, <2>3 DEF HearAccepted, IsNumericTransfer, ClosedWithCause
  <2> QED
    BY <1>2, <2>2, <2>4
<1>6. CASE HearProcessed
  <2> DEFINE n == Head(processed_events)
  <2>1. /\ ProcessedTransfer(n) \/ ProcessedMint(n) \/ ProcessedOther(n)
        /\ UNCHANGED <<transfers, traded>>
    BY <1>6 DEF HearProcessed, counters
  <2> HIDE DEF n
  <2>2. deploysTransfers' = deploysTransfers
    BY <2>1 DEF ProcessedTransfer, ProcessedMint, ProcessedOther, maps
  <2>3. CASE ProcessedTransfer(n)
    BY <1>2, <2>1, <2>2, <2>3 DEF ProcessedTransfer, ClosedWithCause
  <2>4. CASE ProcessedMint(n)
    <3>1. listening' = listening \/ traded # {}
      BY <2>4 DEF ProcessedMint, BcIdSettable, Heard
    <3> QED
      BY <1>2, <2>1, <2>2, <3>1 DEF ClosedWithCause
  <2>5. CASE ProcessedOther(n)
    BY <1>2, <2>1, <2>2, <2>5 DEF ProcessedOther, Heard, ClosedWithCause
  <2> QED
    BY <2>1, <2>3, <2>4, <2>5
<1>7. CASE Restart
  BY <1>2, <1>7 DEF Restart, platform
<1> QED
  BY <1>1, <1>3, <1>4, <1>5, <1>6, <1>7
     DEF Next, ApiStep, ChainStep, TransferByOwner, TransferElsewhere

LEMMA LinkStep == LinkInv /\ [Next]_vars => LinkInv'
BY TypedStep, CreationsProvidedStep, OwnedAreAnnouncedStep, ClosedWithCauseStep DEF LinkInv

\* Through all interleavings, failures and restarts: where nothing is left to
\* do, a token without identifier has one of the excuses, and a closed stream
\* one of its two causes.  That nothing is left to do some day is for TLC.
THEOREM LinkedOrExcused == Spec => []LinkedOnceQuiet
<1>1. LinkInv => LinkedOnceQuiet
  <2> SUFFICES ASSUME LinkInv, NEW t \in Tokens, Quiet, owner[t] # NoAccount
               PROVE  \/ bcId[t] # NotAvailable
                      \/ LostToken(t)
                      \/ MintsOf(t) \cap premature # {}
                      \/ t \in traded
                      \/ ~ listening /\ (traded # {} \/ transfers > 0)
    BY DEF LinkedOnceQuiet
  <2>1. PICK i \in Announced(t) : TRUE
    BY DEF LinkInv, OwnedAreAnnounced
  <2>2. 1 \in DOMAIN position /\ i <= position[1]
    <3>1. position # <<>> /\ \A s \in DOMAIN position : position[s] = Len(notifications)
      BY DEF Quiet
    <3>2. 1 \in DOMAIN position
      BY <3>1, ListsTyped DEF LinkInv
    <3> QED
      BY <3>1, <3>2, ListsTyped DEF LinkInv, Announced
  <2>3. Provided(t)
    BY <2>1, <2>2 DEF LinkInv, CreationsProvided
  <2>4. ASSUME NEW m \in MintsOf(t)
        PROVE  ~ IsOnItsWay(m)
    BY DEF Quiet, IsOnItsWay, MintsOf
  <2> QED
    BY <2>3, <2>4 DEF Provided, Excused, LinkInv, ClosedWithCause
<1> QED
  BY <1>1, LinkInit, LinkStep, PTL DEF Spec
=============================================================================
