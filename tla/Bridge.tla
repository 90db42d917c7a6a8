------------------------------- MODULE Bridge -------------------------------
(***************************************************************************)
(* The API between the platform and the chain (api/src/main/kotlin), with  *)
(* as much of both sides as it sees: the notifications of the platform,    *)
(* and the deploys and events of the node.                                 *)
(*                                                                         *)
(* Conventions.                                                            *)
(*  - A deploy is known by its number, which stands for its hash.  The     *)
(*    UUID under which a token is minted is fresh for every deploy, so the *)
(*    number of the mint stands for it too; 0 stands for "n/a".            *)
(*  - Nothing orders the execution of deploys that are in flight.          *)
(*  - The node's events come in the order of execution, those on accepted  *)
(*    deploys, a stream of its own, in any order.                          *)
(*  - A mishap is whatever can go wrong outside the code: the node cannot  *)
(*    be reached, its answer gets lost, a deploy runs out of gas.          *)
(***************************************************************************)
EXTENDS Integers, Sequences, FiniteSets

CONSTANTS
  Projects,
  Accounts,            \* account hashes of investors
  Tokens,              \* tokens of the platform
  ProjectOf,           \* token -> the project of its share class
  NoAccount,           \* the owner of a token that does not exist
  Bounds               \* bound: how often, and to whom, these may happen

ASSUME NoAccountAssumption == NoAccount \notin Accounts

ASSUME ProjectsAssumption == ProjectOf \in [Tokens -> Projects]

ASSUME BoundsAssumption ==
  Bounds \subseteq [notifications : Nat,   \* what the platform announces
                   projects : SUBSET Projects,  \* that are created
                   tokens : SUBSET Tokens,      \* that are created
                   leaving : SUBSET Accounts,   \* removed from the whitelist
                   subscriptions : Nat,   \* requests to /dx/sse/start in all
                   restarts : Nat,        \* of the API
                   mishaps : Nat,         \* failures outside the code
                   transfers : Nat]       \* that others put on the chain

VARIABLES
  \* The platform.
  listed,              \* project -> the accounts of its whiteListedInvestors
  owner, traded, bcId, \* of its tokens
  notifications,
  \* The API.
  position,            \* subscription -> notifications it has consumed
  unstored,            \* subscription -> a mint whose hash is still to be stored
  deploysTokens, deploysTransfers, mintedTokens,
  listening,           \* whether the subscription to the main stream lives
  \* The chain.
  deploys,             \* everything that was put, with what became of it
  nft_contract,        \* the installation behind the installer's named key
  token_owners,        \* token minted by a deploy -> account
  accepted_events, processed_events,   \* on their way to the API
  \* History and bounds.
  lost,                \* notifications whose consumer threw
  premature,           \* mints whose event came before their hash was stored
  bounds, subscriptions, restarts, mishaps, transfers

platform == <<listed, owner, traded, bcId, notifications>>
maps == <<deploysTokens, deploysTransfers, mintedTokens>>
consumers == <<position, unstored, lost, subscriptions>>
chain == <<nft_contract, token_owners>>
streams == <<accepted_events, processed_events, listening, premature>>
counters == <<bounds, restarts, mishaps, transfers>>
vars == <<platform, maps, consumers, chain, deploys, streams, counters>>

NotAvailable == 0

Init ==
  /\ listed = [p \in Projects |-> {}]
  /\ owner = [t \in Tokens |-> NoAccount] /\ traded = {}
  /\ bcId = [t \in Tokens |-> NotAvailable]
  /\ notifications = <<>>
  /\ position = <<>> /\ unstored = <<>>
  /\ deploysTokens = {} /\ deploysTransfers = {} /\ mintedTokens = {}
  /\ listening = TRUE
  /\ deploys = <<>> /\ nft_contract = 0 /\ token_owners = <<>>
  /\ accepted_events = {} /\ processed_events = <<>>
  /\ lost = {} /\ premature = {}
  /\ bounds \in Bounds
  /\ subscriptions = 0 /\ restarts = 0 /\ mishaps = 0 /\ transfers = 0

-----------------------------------------------------------------------------
(* The platform, as far as it notifies.                                    *)

Notify(n) ==
  /\ Len(notifications) < bounds.notifications
  /\ notifications' = Append(notifications, n)

Created(p) ==
  \E i \in DOMAIN notifications : notifications[i] = [kind |-> "CreateProject", project |-> p]

CreateProject(p) ==
  /\ p \in bounds.projects
  /\ ~ Created(p)
  /\ Notify([kind |-> "CreateProject", project |-> p])
  /\ UNCHANGED <<listed, owner, traded, bcId>>

\* Signing again is possible, and announced again.
SignShareholderAgreement(p, a) ==
  /\ Created(p)
  /\ Notify([kind |-> "AddWhiteListedInvestor", account |-> a])
  /\ listed' = [listed EXCEPT ![p] = @ \cup {a}]
  /\ UNCHANGED <<owner, traded, bcId>>

DeclineNdaAndLegReq(p, a) ==
  /\ Created(p)
  /\ a \in bounds.leaving
  /\ Notify([kind |-> "RemoveWhiteListedInvestor", account |-> a])
  /\ listed' = [listed EXCEPT ![p] = @ \ {a}]
  /\ UNCHANGED <<owner, traded, bcId>>

\* Leaves the platform's own list alone.
RevokeSignature(p, a) ==
  /\ Created(p)
  /\ a \in bounds.leaving
  /\ Notify([kind |-> "RemoveWhiteListedInvestor", account |-> a])
  /\ UNCHANGED <<listed, owner, traded, bcId>>

CreateToken(t, a) ==
  /\ t \in bounds.tokens
  /\ Created(ProjectOf[t])
  /\ owner[t] = NoAccount
  /\ Notify([kind |-> "CreateToken", account |-> a, token |-> t])
  /\ owner' = [owner EXCEPT ![t] = a]
  /\ UNCHANGED <<listed, traded, bcId>>

OffChainTransfer(t, b) ==
  /\ owner[t] # NoAccount
  /\ b \in listed[ProjectOf[t]]
  /\ Notify([kind |-> "TransferToken", from |-> owner[t], to |-> b, id |-> bcId[t]])
  /\ owner' = [owner EXCEPT ![t] = b]
  /\ traded' = traded \cup {t}
  /\ UNCHANGED <<listed, bcId>>

PlatformStep ==
  /\ \/ \E p \in Projects : CreateProject(p)
     \/ \E p \in Projects, a \in Accounts : \/ SignShareholderAgreement(p, a)
                                           \/ DeclineNdaAndLegReq(p, a)
                                           \/ RevokeSignature(p, a)
     \/ \E t \in Tokens, a \in Accounts : CreateToken(t, a) \/ OffChainTransfer(t, a)
  /\ UNCHANGED <<maps, consumers, chain, deploys, streams, counters>>

-----------------------------------------------------------------------------
(* The consumers of the platform's notifications.                          *)

\* Faulty variant: a subscription starts behind the last notification.
PastTheEnd == Len(notifications) + 1

\* Every request to /dx/sse/start subscribes to all notifications from the
\* first on.
StartOfStream == 0

Subscribe ==
  /\ subscriptions < bounds.subscriptions
  /\ subscriptions' = subscriptions + 1
  /\ position' = Append(position, StartOfStream)
  /\ unstored' = Append(unstored, 0)
  /\ UNCHANGED <<platform, maps, lost, chain, deploys, streams, counters>>

\* What the consumers ask of the chain.  The field token of a mint is not part
\* of the deploy, but what the API remembers about it.
DeployFor(n) ==
  CASE n.kind = "CreateProject" -> [kind |-> "install"]
    [] n.kind = "CreateToken" -> [kind |-> "mint", to |-> n.account, token |-> n.token]
    [] n.kind = "TransferToken" -> [kind |-> "transfer", id |-> n.id, from |-> n.from, to |-> n.to]
    [] n.kind = "AddWhiteListedInvestor" -> [kind |-> "add", account |-> n.account]
    [] n.kind = "RemoveWhiteListedInvestor" -> [kind |-> "remove", account |-> n.account]

\* getContractHash looks up the installer's named key before every deploy but
\* an installation, and throws if it is missing.
ContractFound(n) == n.kind = "CreateProject" \/ nft_contract # 0

Put(call) ==
  deploys' = Append(deploys, [call |-> call, contract |-> nft_contract, by |-> "API",
                              status |-> "pending"])

\* The next notification of a subscription is n.
IsNext(s, n) ==
  /\ unstored[s] = 0
  /\ position[s] < Len(notifications)
  /\ n = notifications[position[s] + 1]

Advanced(s) == [position EXCEPT ![s] = @ + 1]

\* Faulty variant: what failed is tried again.
TriedAgain(s) == position

\* An exception is logged, and the notification is done with.
AfterException(s) == Advanced(s)

Fails(s) == position' = AfterException(s) /\ lost' = lost \cup {position[s] + 1}

AnnounceTransfer(n) ==
  accepted_events' = IF n.kind = "TransferToken"
                       THEN accepted_events \cup {Len(deploys) + 1} ELSE accepted_events

Consume(s, n) ==
  /\ IsNext(s, n)
  /\ ContractFound(n)
  /\ Put(DeployFor(n))
  /\ AnnounceTransfer(n)
  /\ unstored' = IF n.kind = "CreateToken"
                   THEN [unstored EXCEPT ![s] = Len(deploys) + 1] ELSE unstored
  /\ position' = Advanced(s)
  /\ UNCHANGED <<platform, maps, lost, subscriptions, chain, processed_events,
                 listening, premature, counters>>

ContractMissing(s, n) ==
  /\ IsNext(s, n)
  /\ ~ ContractFound(n)
  /\ Fails(s)
  /\ UNCHANGED <<platform, maps, unstored, subscriptions, chain, deploys, streams,
                 counters>>

\* putDeploy throws, though the node may have received the deploy.
PutThrows(s, n) ==
  /\ mishaps < bounds.mishaps
  /\ IsNext(s, n)
  /\ ContractFound(n)
  /\ mishaps' = mishaps + 1
  /\ \/ Put(DeployFor(n)) /\ AnnounceTransfer(n)
     \/ UNCHANGED <<deploys, accepted_events>>
  /\ Fails(s)
  /\ UNCHANGED <<platform, maps, unstored, subscriptions, chain, processed_events,
                 listening, premature, bounds, restarts, transfers>>

\* deploysTokens[deployHash] = ..., after putDeploy has returned.
Store(s) ==
  /\ unstored[s] # 0
  /\ deploysTokens' = deploysTokens \cup
       {[hash |-> unstored[s], tokenId |-> unstored[s], protocolId |-> deploys[unstored[s]].call.token]}
  /\ unstored' = [unstored EXCEPT ![s] = 0]
  /\ UNCHANGED <<platform, deploysTransfers, mintedTokens, position, lost,
                 subscriptions, chain, deploys, streams, counters>>

SubscriptionStep(s) ==
  \/ Store(s)
  \/ \E i \in DOMAIN notifications :
       LET n == notifications[i]
       IN  \/ Consume(s, n)
           \/ ContractMissing(s, n)
           \/ PutThrows(s, n)

-----------------------------------------------------------------------------
(* The chain.                                                              *)

\* How often a contract has done something with an account.
Times(kind, contract, a) ==
  Cardinality({n \in DOMAIN deploys : /\ deploys[n].call = [kind |-> kind, account |-> a]
                                     /\ deploys[n].contract = contract
                                     /\ deploys[n].status = "succeeded"})

\* The whitelist of a contract is a vector: an account is on it once for every
\* addition that was not undone.
Entries(contract, a) == Times("add", contract, a) - Times("remove", contract, a)

\* Faulty variant: whose the token is was checked by the platform.
AcceptsAnySource(contract, call) ==
  CASE call.kind = "transfer" -> /\ call.id \in DOMAIN token_owners
                                 /\ deploys[call.id].contract = contract
                                 /\ Entries(contract, call.to) > 0
    [] call.kind = "remove" -> Entries(contract, call.account) > 0
    [] OTHER -> TRUE

\* What the contract checks, as far as the deploys of the API can fail it.
Accepts(contract, call) ==
  CASE call.kind = "transfer" -> /\ call.id \in DOMAIN token_owners
                                 /\ deploys[call.id].contract = contract
                                 /\ token_owners[call.id] = call.from
                                 /\ Entries(contract, call.to) > 0
    [] call.kind = "remove" -> Entries(contract, call.account) > 0
    [] OTHER -> TRUE

\* The event of another deploy is in none of the maps, and changes nothing.
OfInterest(call) == call.kind \in {"mint", "transfer", "foreign"}

Conclude(n, result) ==
  /\ deploys[n].status = "pending"
  /\ deploys' = [deploys EXCEPT ![n].status = result]
  /\ processed_events' = IF listening /\ OfInterest(deploys[n].call)
                            THEN Append(processed_events, n) ELSE processed_events

\* An installation, whichever project it is for, replaces the named key under
\* which the last one was found.
Execute(n) ==
  LET call == deploys[n].call IN
  /\ Accepts(deploys[n].contract, call)
  /\ Conclude(n, "succeeded")
  /\ nft_contract' = IF call.kind = "install" THEN n ELSE nft_contract
  /\ token_owners' =
       CASE call.kind = "mint" -> [m \in DOMAIN token_owners \cup {n} |->
                                    IF m = n THEN call.to ELSE token_owners[m]]
         [] call.kind = "transfer" -> [token_owners EXCEPT ![call.id] = call.to]
         [] OTHER -> token_owners
  /\ UNCHANGED <<platform, maps, consumers, accepted_events, listening, premature,
                 counters>>

Refuse(n) ==
  /\ ~ Accepts(deploys[n].contract, deploys[n].call)
  /\ Conclude(n, "failed")
  /\ UNCHANGED <<platform, maps, consumers, chain, accepted_events, listening, premature,
                 counters>>

RunOutOfGas(n) ==
  /\ mishaps < bounds.mishaps
  /\ Conclude(n, "failed")
  /\ mishaps' = mishaps + 1
  /\ UNCHANGED <<platform, maps, consumers, chain, accepted_events, listening,
                 premature, bounds, restarts, transfers>>

PutByOthers(call, contract, who) ==
  /\ transfers < bounds.transfers
  /\ transfers' = transfers + 1
  /\ deploys' = Append(deploys, [call |-> call, contract |-> contract, by |-> who,
                                 status |-> "pending"])
  /\ accepted_events' = accepted_events \cup {Len(deploys) + 1}
  /\ UNCHANGED <<platform, maps, consumers, chain, processed_events, listening,
                 premature, bounds, restarts, mishaps>>

\* The owner of a token transfers it with a wallet of his own.
TransferByOwner(id, b) ==
  PutByOthers([kind |-> "transfer", id |-> id, from |-> token_owners[id], to |-> b],
              deploys[id].contract, "owner")

\* Somebody calls the entry point "transfer" of another contract, with a number.
TransferElsewhere == PutByOthers([kind |-> "foreign"], 0, "others")

-----------------------------------------------------------------------------
(* The consumer of the node's events.                                      *)

\* (args[0].value.parsed as BigInteger): the identifiers of the installed
\* contract are strings and fail the cast; the exception is logged.
IsNumericTransfer(call) == call.kind = "foreign"

HearAccepted(n) ==
  /\ n \in accepted_events
  /\ accepted_events' = accepted_events \ {n}
  /\ deploysTransfers' = IF IsNumericTransfer(deploys[n].call)
                           THEN deploysTransfers \cup {n} ELSE deploysTransfers
  /\ UNCHANGED <<platform, deploysTokens, mintedTokens, consumers, chain, deploys,
                 processed_events, listening, premature, counters>>

\* Faulty variant: the subscription is renewed, and goes on with what is next.
Reconnect == listening' = listening /\ processed_events' = <<>>

\* An exception in the callback cancels the subscription to the stream.
Disconnect == listening' = FALSE /\ processed_events' = <<>>

Heard == listening' = listening /\ processed_events' = Tail(processed_events)

\* Faulty variant: the last entry is taken for the deploy's.
LatestEntry(n) ==
  {e \in deploysTokens : \A f \in deploysTokens : f.hash <= e.hash}

\* Faulty variant: a map is asked that this very event is to fill.
EntriesMinted(n) == {e \in deploysTokens : /\ e.hash = n
                                          /\ \E m \in mintedTokens : m.tokenId = e.tokenId}

EntriesOf(n) == {e \in deploysTokens : e.hash = n}

\* Faulty variant: the platform accepts the identifier in every state.
AlwaysSettable(t) == TRUE

\* setBcId is open in the state minted only.
BcIdSettable(t) == t \notin traded

\* token.onChainTransfer throws: the number is no key of mintedTokens, and the
\* platform would refuse the party rePlatform anyway.
ProcessedTransfer(n) ==
  /\ n \in deploysTransfers
  /\ Disconnect
  /\ UNCHANGED <<bcId, maps>>

\* Whether the deploy succeeded is not asked.
ProcessedMint(n) ==
  \E e \in EntriesOf(n) :
    /\ n \notin deploysTransfers
    /\ mintedTokens' = mintedTokens \cup {[tokenId |-> e.tokenId, protocolId |-> e.protocolId]}
    /\ IF BcIdSettable(e.protocolId)
         THEN bcId' = [bcId EXCEPT ![e.protocolId] = e.tokenId] /\ Heard
         ELSE UNCHANGED bcId /\ Disconnect
    /\ UNCHANGED <<deploysTokens, deploysTransfers>>

ProcessedOther(n) ==
  /\ n \notin deploysTransfers /\ EntriesOf(n) = {}
  /\ Heard
  /\ UNCHANGED <<bcId, maps>>

HearProcessed ==
  /\ processed_events # <<>>
  /\ LET n == Head(processed_events)
     IN  /\ ProcessedTransfer(n) \/ ProcessedMint(n) \/ ProcessedOther(n)
         /\ premature' = premature \cup {m \in {n} : \E s \in DOMAIN unstored : unstored[s] = m}
  /\ UNCHANGED <<listed, owner, traded, notifications, consumers, chain, deploys,
                 accepted_events, counters>>

\* The maps are forgotten, the events of the meantime are missed, and nobody
\* has called /dx/sse/start yet.
Restart ==
  /\ restarts < bounds.restarts
  /\ restarts' = restarts + 1
  /\ position' = <<>> /\ unstored' = <<>>
  /\ deploysTokens' = {} /\ deploysTransfers' = {} /\ mintedTokens' = {}
  /\ listening' = TRUE
  /\ accepted_events' = {} /\ processed_events' = <<>>
  /\ UNCHANGED <<platform, lost, premature, subscriptions, chain, deploys, bounds,
                 mishaps, transfers>>

-----------------------------------------------------------------------------

ApiStep ==
  \/ Subscribe
  \/ \E s \in DOMAIN position : SubscriptionStep(s)
  \/ \E n \in accepted_events : HearAccepted(n)
  \/ HearProcessed
  \/ Restart

ChainStep ==
  \/ \E n \in DOMAIN deploys : Execute(n) \/ Refuse(n) \/ RunOutOfGas(n)
  \/ \E id \in DOMAIN token_owners, b \in Accounts : TransferByOwner(id, b)
  \/ TransferElsewhere

Next == PlatformStep \/ ApiStep \/ ChainStep

Spec == Init /\ [][Next]_vars

\* Subscriptions and streams go on as long as they live, and the node executes
\* what it has accepted.
Fairness ==
  /\ WF_vars(\E s \in DOMAIN position : SubscriptionStep(s))
  /\ WF_vars(\E n \in DOMAIN deploys : Execute(n) \/ Refuse(n))
  /\ WF_vars(\E n \in accepted_events : HearAccepted(n))
  /\ WF_vars(HearProcessed)

FairSpec == Spec /\ Fairness

-----------------------------------------------------------------------------
(* Properties.                                                             *)

\* The variables hold values of the types of the code: positions lie within
\* the notifications, and the maps speak of deploys that were put.
TypeOK ==
  /\ listed \in [Projects -> SUBSET Accounts] /\ traded \subseteq Tokens
  /\ owner \in [Tokens -> Accounts \cup {NoAccount}]
  /\ bcId \in [Tokens -> 0 .. Len(deploys)]
  /\ position \in [1 .. Len(unstored) -> 0 .. Len(notifications)]
  /\ unstored \in [1 .. Len(position) -> 0 .. Len(deploys)]
  /\ deploysTokens \subseteq
       [hash : DOMAIN deploys, tokenId : DOMAIN deploys, protocolId : Tokens]
  /\ mintedTokens \subseteq [tokenId : DOMAIN deploys, protocolId : Tokens]
  /\ deploysTransfers \subseteq DOMAIN deploys
  /\ accepted_events \subseteq DOMAIN deploys
  /\ \A k \in DOMAIN processed_events : processed_events[k] \in DOMAIN deploys
  /\ premature \subseteq DOMAIN deploys
  /\ lost \subseteq DOMAIN notifications
  /\ nft_contract \in 0 .. Len(deploys)
  /\ DOMAIN token_owners \subseteq DOMAIN deploys

MintsOf(t) ==
  {n \in DOMAIN deploys : deploys[n].call.kind = "mint" /\ deploys[n].call.token = t}

\* The identifier a token carries is one under which that very token was to be
\* put on the chain, in the name of the investor it was created for, and about
\* which the node has answered: no answer is credited to another deploy, in
\* whatever order mints, answers and the storing of hashes come.
IdentifierIsOfItsToken ==
  \A t \in Tokens :
    bcId[t] # NotAvailable =>
      /\ bcId[t] \in MintsOf(t)
      /\ deploys[bcId[t]].status # "pending"
      /\ \E i \in DOMAIN notifications :
           notifications[i] = [kind |-> "CreateToken", token |-> t,
                               account |-> deploys[bcId[t]].call.to]

\* A token is minted no more often than /dx/sse/start was called: the consumers
\* never retry, whatever putDeploy throws.
OneMintPerSubscription ==
  \A t \in Tokens : Cardinality(MintsOf(t)) <= subscriptions

\* Everything announced has been consumed, executed and heard of.
Quiet ==
  /\ position # <<>>
  /\ \A s \in DOMAIN position : position[s] = Len(notifications) /\ unstored[s] = 0
  /\ \A n \in DOMAIN deploys : deploys[n].status # "pending"
  /\ processed_events = <<>> /\ accepted_events = {}

TransfersOf(id) ==
  {n \in DOMAIN deploys : deploys[n].call.kind = "transfer" /\ deploys[n].call.id = id}

LostTransfer(id) ==
  \E i \in lost : notifications[i].kind = "TransferToken" /\ notifications[i].id = id

\* The transfers of a token all came from the platform and all went through.
Undisturbed(id) ==
  /\ ~ LostTransfer(id)
  /\ \A n \in TransfersOf(id) : deploys[n].status = "succeeded" /\ deploys[n].by = "API"

\* Once everything has arrived, the token and its twin have the same owner,
\* though deploys are executed in any order and subscriptions repeat them:
\* what can part them is a transfer that fails, is lost or is not announced by
\* the platform, or a restart in the middle.
TwinsAgreeOnceQuiet ==
  \A t \in Tokens :
    Quiet /\ restarts = 0 /\ bcId[t] \in DOMAIN token_owners /\ Undisturbed(bcId[t])
      => token_owners[bcId[t]] = owner[t]

LostToken(t) ==
  \E i \in lost : notifications[i].kind = "CreateToken" /\ notifications[i].token = t

\* Every token gets its identifier.  What can prevent it: nobody is subscribed;
\* the consumer threw; the node was faster than the storing of the hash; the
\* token was traded first; the stream was closed, which takes a token traded
\* too early or a transfer of somebody else.
TokensGetTheirIdentifier ==
  \A t \in Tokens :
    owner[t] # NoAccount ~>
      \/ bcId[t] # NotAvailable
      \/ position = <<>>
      \/ LostToken(t)
      \/ MintsOf(t) \cap premature # {}
      \/ t \in traded
      \/ ~ listening /\ (traded # {} \/ transfers > 0)

\* The same, as it can be seen once everything has arrived: no token is left
\* without identifier but for one of these reasons, and the stream is never
\* closed but by one of its two causes.
LinkedOnceQuiet ==
  \A t \in Tokens :
    Quiet /\ owner[t] # NoAccount =>
      \/ bcId[t] # NotAvailable
      \/ LostToken(t)
      \/ MintsOf(t) \cap premature # {}
      \/ t \in traded
      \/ ~ listening /\ (traded # {} \/ transfers > 0)

Received(a, id) ==
  \/ deploys[id].call.to = a
  \/ \E n \in TransfersOf(id) : deploys[n].status = "succeeded" /\ deploys[n].call.to = a

Gave(a, id) ==
  \E i \in DOMAIN notifications :
    /\ notifications[i].kind = "TransferToken"
    /\ notifications[i].id = id /\ notifications[i].from = a

\* An account that got a token and was never announced as the giver of it keeps
\* it on the chain, in whatever order the node executes the transfers and
\* however many restarts and subscriptions repeat those of the past, as long as
\* no owner transfers it by himself.
NothingIsTakenBack ==
  \A id \in DOMAIN token_owners, a \in Accounts :
    /\ \A n \in TransfersOf(id) : deploys[n].by = "API"
    /\ Received(a, id)
    /\ ~ Gave(a, id)
    => token_owners[id] = a

\* "The off-chain smart contract protocol is directly linked to an on-chain
\* token stored on Casper and thus holds its Casper ID in the field bcId"
\* (README.md).
LinkedTokensExist ==
  \A t \in Tokens : bcId[t] # NotAvailable => bcId[t] \in DOMAIN token_owners

\* Everything was announced for one project and consumed by one subscription,
\* and every deploy went through.
NothingWentWrong ==
  /\ \A p, q \in Projects : Created(p) /\ Created(q) => p = q
  /\ subscriptions = 1 /\ restarts = 0 /\ lost = {}
  /\ \A n \in DOMAIN deploys : deploys[n].status = "succeeded"

\* "The Project protocol is replicated on Casper, where it holds a whitelist of
\* investors which are permitted to hold tokens" (README.md): once everything
\* has arrived, whom the contract admits is on the list of the project.
WhitelistIsReplicated ==
  \A p \in Projects, a \in Accounts :
    Quiet /\ NothingWentWrong /\ Created(p) /\ Entries(nft_contract, a) > 0
      => a \in listed[p]

\* "The API listens continuously to Casper to detect actions which originate
\* from Casper, such as an on-chain transfer of a token" (README.md).
OnChainTransfersAreRecorded ==
  \A t \in Tokens :
    (\E n \in TransfersOf(bcId[t]) :
       /\ deploys[n].status = "succeeded" /\ deploys[n].by = "owner"
       /\ deploys[n].call.from # deploys[n].call.to) ~> t \in traded
=============================================================================
