# A TLA+ model of the real-estate tokenization platform

This directory models the program of this repository in TLA+: the NFT contract on
the Casper chain (`casper/contract`), the off-chain platform written in NPL
(`npl/src/main/npl/platform`) and the API that connects the two (`api`). Modules are checked with TLC on small instances; what
matters most is proved with TLAPS for every value of the constants.

Running it: `tlc -config market.cfg MCPrimaryMarket.tla` checks a run,
`tlapm NFTContractProofs.tla` a proof. `PROJECT.json` lists runs, mutants (faulty
variants of definitions with which TLC must find a property violated), theorems,
hazards, findings, and for every definition the lines it stands for.

## 1. The system

| Component | State | Operations | Talks to |
|---|---|---|---|
| NFT contract, `casper/contract/src/main.rs` | dictionaries: owners, issuers, metadata, owned_tokens, token_counts, operator, burnt_tokens; account and contract whitelist; counters and installation arguments | `set_variables`, `add_to_/remove_from_account_whitelist`, `mint`, `burn`, `approve`, `set_approval_for_all`, `transfer`, `set_token_metadata`, reads | called by the API with the installer's key, and by any account on the chain |
| Primary market: `project.npl`, `shareClass.npl`, `offer.npl`, `subscriptionAgreement.npl`, `nonDisclosureAgreement.npl`, `shareholderAgreement.npl`, `investor.npl` | protocol instances with states; the project's sets of selected, white- and blacklisted investors; the class's lists of committed, confirmed and rejected agreements and its available shares | select, whitelist, offer, accept, decline, expire, collect, confirm, sign and revoke papers, close | notifies the API: `CreateProject`, `CreateToken`, `AddWhiteListedInvestor`, `RemoveWhiteListedInvestor` |
| Secondary market: `token.npl`, `tradeAgreement.npl`, `wallet.npl` | a token's owner, `bcId`, state; an agreement's state and deadline; tokens and liquidity of wallets | buyer and seller agree, deadline rejects, off-chain and on-chain transfer, `setBcId` | notifies `TransferToken`; called back by the API |
| Bridge: `App.kt`, `dx/sse/*`, `ContractClient.kt`, `ContractEventConsumer.kt` | three in-memory maps: deploys of transfers, deploys of mints, minted tokens; position in two event streams | one consumer per kind of notification, `consumeDeployAccepted`, `consumeDeployProcessed` | subscribes to the platform's notifications and the node's events, puts deploys |
| Contract installer and HTTP endpoints: `ContractInstaller.kt`, `*Http.kt` | none | install, forward calls | node |
| Project data room: `project_dataroom.npl` | documents | upload, read | - |
| Demo: `demo.npl`, `dx/model/Demo.kt` | the steps of one scenario | four endpoints | platform |
| Client sessions and tests of the contract | none | forward arguments | contract |
| Deployment: containers, Nomad, Keycloak | - | - | - |

**How they interact.** Platform and chain hold two copies of the same facts: who is
on the whitelist and who owns a token. Every change on the platform is announced in
a notification; the API turns it into a deploy, learns from the node's events that
the deploy was processed, and reports back (`setBcId`, `onChainTransfer`). Nothing
is locked across the two.

**What is hard.** In the contract, three dictionaries repeat who holds what, burning
leaves a token where it is, and identifiers may be chosen by the caller. In the
primary market, conditions are checked when something is signed and used much later;
guards sit deep in chains of calls; a loop allocates shares while it edits the list
it runs over; deadlines race answers. Between the two: notifications delivered again
or lost, events out of order, a restart that forgets the maps. `PROJECT.json` lists
these hazards line by line, with the properties that would notice each.

**What makes each part correct.**

- *NFT contract*: the dictionaries agree; a burnt token is final; an approval ends
  with the ownership under which it was given; tokens go to listed keys only; the
  identity of a token is fixed when it is minted; the branches marked "This should
  never happen" never do. In short: it is a register in which each token has one
  holder.
- *Primary market*: shares are conserved and granted first come first served, once
  per accepted offer; the oversubscription query tells the truth; nobody is listed
  without having been selected and having signed; the classes stay within the project's
  value and tokens carry what was granted; a closed project takes nobody's commitment
  any more, though the bank may go on with its classes; every offer is settled in time.
- *Secondary market*: executed agreements form an unbroken chain of title, to
  investors listed at that moment; an agreement is executed or rejected, once; a
  token lies in a wallet of its owner.
- *Bridge*: every token is minted once per subscription and gets an identifier that
  is its own; the owners on both sides agree once everything in flight has arrived -
  as far as the code achieves it, which the properties say exactly. That the
  whitelists agree is promised and not so: see the findings.

## 2. Modules

| Module | Models | |
|---|---|---|
| `TokenRegister` | what the contract promises: issue, reassign, retire | abstract |
| `NFTContract` | the contract | refines `TokenRegister` |
| `NFTContractProofs` | theorems about it | TLAPS |
| `MCNFTContract` | installations for TLC | |
| `SubscriptionBook` | what a share class promises: requests in order, decided first come first served | abstract |
| `PrimaryMarket` | the primary market of one project | refines `SubscriptionBook`, once per class |
| `MCPrimaryMarket` | instances for TLC | |
| `PrimaryMarketProofs` | theorems about its invariants | TLAPS |
| `SubscriptionBookProofs` | theorems about what a confirmation decides, and the refinement | TLAPS |
| `TokenTitles` | what the secondary market promises: titles that pass when a deal settles | abstract |
| `TradeSettlement` | tokens, wallets and trade agreements of one project | refines `TokenTitles` |
| `MCTradeSettlement` | an instance for TLC | |
| `TradeSettlementProofs` | theorems about it | TLAPS |
| `Bridge` | the API, with platform and chain as it sees them | |
| `MCBridge` | instances for TLC | |
| `BridgeProofs` | theorems about identifiers and mints | TLAPS |
| `BridgeAgreementProofs` | theorems about what platform and chain agree in | TLAPS |
| `BoundedRecursion` | lemmas: a function defined by recursion over `0 .. n` exists and has its type | TLAPS |
| `SetSums` | lemmas: a sum over a finite set, and how it changes with one or two of its terms | TLAPS |

### NFTContract

A state is the content of the contract's storage between two deploys. A deploy is
atomic and a revert undoes it, so each entry point is one action whose guards are
its checks. A call comes from a pair: the account that signed the deploy
(`get_caller`, asked by the installer checks) and the key at the end of the call
stack (`get_verified_caller`, asked by everything else), which may be a contract.
The installation is part of the initial state: the installation arguments range over
a constant set, less the combinations `call` and `init` refuse.

`account_whitelist` is a vector that may hold a key several times, hence a bag;
`owned_tokens` lists are guarded against repetition, hence sets. Metadata are
reduced to the set that passes `validate_metadata`. `approver` is a history variable:
the code stores an operator and forgets who set it.

`metadata` of a token can be changed by its owner if that is the installer, and by
nobody else, as in the code. Three oddities of the code are kept: a burnt token
stays in its owner's list and keeps its owner; `set_approval_for_all` writes the
operator of burnt tokens too; who may call `transfer` depends on the holder mode.

In Hash mode the caller chooses the identifier, and nothing in the contract keeps an
identifier from being minted twice. `Unique` says that it has not happened: as many
tokens were minted as identifiers have an owner (of an Ordinal contract it is true by
definition, since there the contract numbers the tokens). `FreshSpec` is the contract
among callers that keep it so, as the platform does: `TokenCreateEventConsumer` draws
a new UUID for each mint. What holds under `Spec` holds whoever calls, what holds
under `FreshSpec` rests on that habit of the callers of a Hash contract, and on
nothing where contracts are Ordinal.

### PrimaryMarket

A permission runs as a transaction together with every permission it calls, so each
permission that somebody calls from outside is one action, and the steps inside it
(`addSubscriptionAgreement`, `addWhitelistedInvestor` called by
`signShareholderAgreement` ...) are part of it. A guard deep in the
chain is a guard of the action: this is how a closed project refuses acceptances.

The bank holds the share classes themselves and may call them directly. Their
permissions do not ask for the project's state, so sending offers
(`SendOriginalOffers`), collecting (`CollectSubscriptionsOf`) and confirming
(`ConfirmSubscriptions`) go on after the project was closed; the project's own
permissions are guarded and look the class up by name (`Found`), or go through all
classes (`CollectSubscriptions`, `ConfirmSubscriptionAgreements`). Bank and investor may
call `createToken` of an agreement in any state (`CreateToken`); a token carries what is
confirmed at that moment. What only keeps the books of another permission
(`reduceAvailableAmountForSubscription`, `confirmSubscriptionAgreement`,
`becomeFullyAllocated` ...) is not called alone: calling it with arguments of one's own
would leave nothing to say about the books.

| In the code | In the model |
|---|---|
| state of `Project` and its sets | `project_state`, `available_amount`, `selected`, `blacklisted`, `whitelisted` |
| the two compliance flags of `Investor` | `compliant`: both are set, which is all that a reader ever asks |
| wallet found by `returnWalletPerProject` | `liquidity` |
| an investor's set of NDAs | how many are `created`, `signed`, `declined`: `returnNdaPerProject` takes any of them |
| the project's set of shareholder agreements | how many are `signed`, `revoked` |
| `SubscriptionOffer`s of a class | `offers[c][i]`: a class sends them once |
| committed, confirmed and rejected subscriptions | `agreements[c]` in order of commitment, with the state of each |
| tokens created for an agreement, by a confirmation or directly | the field `tokens` of the agreement: the numbers of shares they carry |
| the engine's clock and `otherwise become expired` | `DeadlinePasses`, `ExpireOffer` |

A `Number` is a decimal; the model counts in units of which `Part` make a share.
The price in an offer must equal the class's nominal price
(`checkSharePriceInOffer`), so it is not a variable. Nothing checks the sign of a
class's value or of its numbers of shares, so `Terms` may be any integers; only a
total of 0 fails, being divided by. Agreements in
`agreements[c]` keep their place after a decision: the three lists of the code are
the subsequences by state.

`pBank` and `pPlatform` are parties given as constants, since one line depends on
it: declining an NDA calls a permission of `pBank` in the name of `pPlatform`
(`nonDisclosureAgreement.npl:24`, `project.npl:96`), and goes through only if they
are the same party. `market.cfg` has two parties, `market_papers.cfg` one.

`setCompliant` sets both compliance flags, while `demo.npl:118-119`,
`demo_support.npl` and `npl_demo.npl` set them one by one. Every reader asks for both,
so `compliant` is their conjunction, and setting one of them is either `SetCompliant`
or no step at all.

Left out: setters of values that nothing reads (`setOriginalOfferDeadline`), the
contract hash, reminders, data room documents, and the class `createToken` is given,
which decides only in whose set of tokens the new one is filed. The limits of an
offer are natural numbers: a negative commitment would be a credit.

### TradeSettlement

A trade is an `OffChainTradeAgreement` or an `OnChainTradeAgreement`; `status`,
`token`, `buyer`, `pBuyer`, `pSeller` are its fields. A token has an investor as
`owner` and a party, `pOwner`, that may dispose of it: the code changes them by
different paths, and `setBuyer` is how they can come to differ. The party of an
investor is identified with the investor, which makes that difference visible.

| In the code | In the model |
|---|---|
| the two guards and three `addTradeAgreement` calls of the agreement's creation | `CreateTrade`; the last call is made in the seller's name on the *owner's* investor protocol, hence the guard `pOwner[t] = owner[t]` |
| `buyerAgree`, `sellerAgree` | `FirstConsent`, or `SecondConsent` with the whole of `offChainTransfer` and `transferOwnership` |
| `before taDeadline ... otherwise become rejected` | `DeadlinePasses`, `Reject`; an agreement past its deadline takes no consent |
| `onChainTransfer` with its `OnChainTradeAgreement` | `OnChainTransfer` |
| wallets created by each selection; `returnWalletPerProject` takes any | `wallets[i]`, a sequence; `TransferOwnership` picks one with `\E` on both sides |

The two-party consent of `OffChainTradeAgreement` may be given by `pBank` for either
side; the model does not say who consents, only for which side. `issued_to` is a
history variable, the start of the chain of title. `TokenTitles` knows neither
wallets nor whitelists nor deadlines: a deal is open, settled or void, and title
moves in the step that settles it.

### Bridge

The platform is reduced to what it announces, for any number of projects: each has a
whitelist of its own and announces itself when it is created, and each announcement
has a contract installed under the one named key of the installer, so that the last
installation is the contract of all projects. The chain is reduced to what a deploy of the API
can run into: the owner of a token, the whitelist as a list that may hold an account
several times, and the contract behind the named key. The API is modelled in full.

| In the code | In the model |
|---|---|
| a subscription to `/dx/sse/start`, from `-1` | `position[s]`, number of notifications consumed; `Subscribe` appends one at 0 |
| `getContractHash` of every deploy but the installation | `ContractFound`, else `ContractMissing` |
| the five consumers, each with its `catch` | `Consume`, or `PutThrows`: logged, and done with |
| `deploysTokens[deployHash] = ...` after `putDeploy` returned | `unstored[s]`, then `Store(s)`: the node may be faster |
| `consumeDeployAccepted`, its cast and its `catch` | `HearAccepted` |
| `consumeDeployProcessed`: look-ups, callbacks to the platform, and the exception that ends the subscription | `HearProcessed` with `ProcessedTransfer`, `ProcessedMint`, `ProcessedOther`; `Disconnect` |
| the process ends and starts | `Restart`: maps, positions and queued events are gone |

The node executes pending deploys in any order (`Execute`), refuses those whose
checks fail (`Refuse`) or runs out of gas (`RunOutOfGas`); `PutThrows` covers both a
deploy that was not received and one that was, with its answer lost. The notification
of a token names the token; the UUID under which it is minted is fresh and stands in
the model as the number of the deploy. `lost` and `premature` are history variables:
what was never put, and which events came before their hash was stored.

## 3. Runs

| Run | Instance | Shows |
|---|---|---|
| `nft_unique` | installer, an account, a contract; the platform's installation with two hashes, each minted once, and three Ordinal installations | types, `BooksAgree`, `ApprovedByOwner`, `BurntIsFinal`, `ReceiversAreListed`, `ProvenanceIsFixed`, and that the contract implements `TokenRegister` |
| `nft_holdings` | installer, an account, a contract, two hashes, three Hash installations, the platform's among them, and an Ordinal one with mutable metadata; whoever calls | what the books guarantee even when an identifier is minted again: `FatalUnreachable`, `SupplyIsConserved`, `BalancesCover` |
| `nft_hash_reissue` | the platform's installation | *violation* of `ProvenanceIsFixed`: see findings |
| `market` | two investors, one class with 2 units on offer, requests of 1 or 2 units, two units a share, a second token of an agreement | types, `SharesConserved`, `OneAgreementPerOffer`, `TokensCarryGrants`, `OversubscriptionIsForetold`, and that each class implements `SubscriptionBook` |
| `market_papers` | one investor, an NDA and a shareholder agreement, one party for both roles, blacklisting, two classes that share a name, of negative value and of more than the project's, with fairness of the clock | `WhitelistIsGrounded`, `ClassesAreBacked`, `ClosedToInvestors`, `OffersSettle` |
| `market_whitelist` | two investors, two classes | *violation* of `WhitelistedHaveSigned` |
| `market_tokens` | the same | *violation* of `TokensHoldTheShares` |
| `trades` | two investors, one with two wallets; two agreements on two tokens; one party that takes the places of others; fairness of the clock | types, `WalletsFollowOwners`, `ChainOfTitle`, `OwnersDispose`, `ReceiversAreWhitelisted`, `TradesEnd`, and that it implements `TokenTitles` |
| `bridge` | two accounts, three tokens of two projects, one kind of trouble at a time, or one token traded there and back, or two projects with a token each | types, `IdentifierIsOfItsToken`, `OneMintPerSubscription`, `TwinsAgreeOnceQuiet`, `LinkedOnceQuiet`, `NothingIsTakenBack`, `TokensGetTheirIdentifier` |
| `bridge_onchain` | one token, and a transfer by its owner on the chain | *violation* of `OnChainTransfersAreRecorded` |
| `bridge_failed_mint` | one token, and a deploy that fails | *violation* of `LinkedTokensExist` |
| `bridge_whitelist` | one project, one account, no token, and nothing that fails | *violation* of `WhitelistIsReplicated` |

**Bounds, and why they are enough.** Two tokens and a supply of 2 (one
installation has 1) reach the limit of the supply and leave a token untouched while
the other moves. Three keys let a token travel in a circle, and come back to its
owner directly. One whitelist entry per key suffices for the contract's own
properties, which ask only whether a key is listed; duplicate entries matter to
`Bridge`, where an account can be added several times. Two investors on one class are the fewest for which order of
allocation matters; 2 units for two requests of up to 2 give full, partial and no
allocation, and exhaustion by equality. A class can be confirmed again
after its investors have been decided, in every state, and `MaxTokens` allows one
more token of an agreement, before its confirmation, after it or after a rejection.
`MaxPapers` bounds how many papers
of a kind an investor signs; one is enough to be signed and withdrawn, and
`market_whitelist` has two. `Suspects` keeps the blacklist, which only blocks a selection,
out of the larger run. The terms of `market_papers` are a value of less than nothing,
one of more than the project has, which only the first makes room for, and terms that
offer more shares than there are: any two classes can be created in any order, the
second being a namesake, which is what `ClassesAreBacked` is about. Two names at once
are met by `market_whitelist` and
`market_tokens` only; the theorems hold for any number of them.

Two agreements are the fewest that can compete for one token, or follow each other
through it, and a second token shows that the other one stays put. Two investors are
buyer and seller, and either may be the same person; the second wallet of one of them
is what `WalletsFollowOwners` needs to be more than an equality. One party suffices
to take somebody else's place in an agreement.

`Bounds` of the bridge is a set of records, one of which is chosen at the start: what
can go wrong is bounded together, not each by itself. `Bound(4, 1, 0, 1, 0)` lets one
subscription handle the installation and three more notifications with one failure:
enough to list, create and transfer, to create both tokens, or to sign twice and
revoke. `Bound(2, 2, 1, 1, 0)` replays a creation in a second subscription, before or
after a restart. `Bound(3, 1, 0, 0, 1)` has somebody else transfer a token, or call
another contract's `transfer`. `ThereAndBack` lists both investors and trades one token
between them, so that two transfers of it are on their way at once; nobody is removed
from the list there, and no other token is created. `TwoProjects` announces two
projects and up to two tokens, one of each: the second installation may replace the
first before, between or after the mints. Deploys are never bounded by themselves: they are at
most as many as notifications, subscriptions and transfers by others allow.

**Symmetry** is used where no temporal property with fairness is checked: `ada` and
`ben` are interchangeable in every definition of the market, and so are the hashes
`h1` and `h2` and the metadata `m1` and `m2` in those of the contract.

**Fairness.** The engine triggers an obligation when its deadline passes, so the
clock's steps `DeadlinePasses` and `ExpireOffer` are weakly fair. Nobody is assumed
to call any permission. `OffersSettle` needs no more than that, and neither does
`TradesEnd`, whose clock is `DeadlinePasses` and `Reject`. In `Bridge` three kinds of
process run by themselves: a live subscription to the notifications handles the next
one, the two event streams deliver what the node has sent, and the node executes or
refuses what it has accepted; each is weakly fair. Nobody has to announce, subscribe,
restart or transfer anything, and no failure has to happen.

**Deadlock** is checked in the runs of the contract and of both markets: the
installer, the bank's compliance and selection steps, and the changes of the
whitelist stay possible. It is not checked in the runs of the bridge, which really
stops when everything announced has arrived and the bounds are used up.

### Findings

Disagreements between the code and its documentation met while modelling, each with
a run that shows it:

1. `mint` says "Check that we are not minting a duplicate token" and looks in the
   new owner's list only. On a Hash contract, which is what `ContractInstaller.kt`
   installs, minting an issued identifier to somebody else replaces owner, issuer
   and the metadata that `casper/README.md` calls essential to be immutable
   (`nft_hash_reissue`).
2. A whitelisted investor is said to comply "with all legal requirements" and to have
   signed "all necessary documents". `signShareholderAgreement` asks for no NDA, and
   neither revoking the shareholder agreement nor losing compliance takes an investor
   off the project's list (`market_whitelist`).
3. "The off-chain tokens then hold the number of shares that are held by each
   account." An investor may call `createToken` of his agreement again: every call
   creates a token of all shares he was allotted, and announces it for minting
   (`market_tokens`). `TokensCarryGrants` says what is left of the sentence.
4. "The API listens continuously to Casper to detect actions which originate from
   Casper, such as an on-chain transfer of a token." The listener casts the token's
   identifier to a number, while the contract the platform installs identifies tokens
   by strings; no transfer of such a token is ever recorded (`bridge_onchain`).
5. The token on the platform is "directly linked to an on-chain token" by its `bcId`.
   The listener sets it when the deploy of a mint has been processed, whether it
   succeeded or not; the result is parsed and not used (`bridge_failed_mint`).
6. "The Project protocol is replicated on Casper, where it holds a whitelist of
   investors which are permitted to hold tokens." The platform keeps a set and
   announces every signature, the contract keeps a list and takes one entry off for
   each withdrawal: who signed twice and withdrew once is still admitted by the
   contract, though every deploy went through (`bridge_whitelist`).

Noted without a run of their own: the holder mode ("whether Accounts or Contracts, or
both can hold NFTs", `main.rs:1742`) is checked for the caller of an entry point, not
for the key that `mint` or `transfer` makes the owner (`main.rs:507`); `acceptOffer`
refuses what is "not within the limit or multiple of share value" (`offer.npl:38`), but
tests the limits only, and accepts half a share; all projects share one named key, so
that the contract installed last takes the whitelist and the transfers of all of them
(`App.kt:71`); `consumeDeployAccepted` parses the event outside its `try`
(`ContractEventConsumer.kt:126`), so that an event it cannot parse ends that stream;
the comment at `shareClass.npl:91` says a
subscription is never reduced, while the loop below it allocates partially;
`README.md` says tokens are minted when the offer deadline is reached, while the bank
has to call `confirmSubscriptionAgreements`; `ContractInstaller.kt` comments
mutability and NFT kind with the names of other values than it passes, and installs
Mixed, Unlocked and Hash where `casper/README.md` documents Accounts, Locked and
Ordinal; the `metadata` entry point reads the schema under a name that is never
stored (`main.rs:1275`); two share classes may have one name
(`project.npl:61`); selecting an investor again gives him a second wallet; the
comment at `token.npl:37` says an on-chain transfer "must also succeed on the
platform", while line 39 fails if the receiver is not whitelisted there; a second
call of `/dx/sse/start` replays everything, mints each token again and installs a
second contract under the same name; a token traded before its `bcId` arrives is
announced as `n/a`, never gets an identifier, and its event ends the subscription to
the node; a token that is traded away and back, with a restart and a new subscription
in between, can end up with different owners on the two sides - `NothingIsTakenBack`
says how far such a replay can go.

## 4. Theorems

`NFTContractProofs` proves, for all sets of accounts, contracts, hashes and
installations and all bounds, every property the passing NFT runs check.

The assumptions are those `NFTContract` names: the bounds are natural numbers, the
installer is an account, `NoKey` is not a key, `NoMetadata` is not metadata, and the
installations are of their type. TLC evaluates them in every run.

- `TypeCorrect`: `TypeOK` is inductive.
- `HoldingsInvariant`, for **every** installation. `FatalUnreachable` alone is not
  inductive: that a balance is positive after a burn or a transfer follows only if
  the balance covers *all* unburnt tokens of the list. `HoldingsInv` therefore says:
  lists are finite, an owned token is in its owner's list, a burnt token was once
  owned, and balances cover the unburnt tokens. `BalancesCover` and
  `FatalUnreachable` follow.
- `SupplyStaysConserved`, for every installation and finitely many keys. The
  invariant adds what makes the balances summable, that they are natural numbers for
  a finite set of keys; a mint, burn or transfer changes one or two terms of the sum
  (`SupplyBySums`). `SetSums` shows first that the sum exists: the community modules
  define it by recursion over subsets, and that such a function obeys its recursion
  is shown by induction on cardinality.
- `ExactInvariant`, for every installation: mints are counted, indices of an Ordinal
  contract are issued up to the counter, and *while* `Unique` holds, lists equal
  ownership, balances equal cardinalities and approvals come from the owner. The step
  that matters is `MintIsFresh`: if there are as many mints as issued identifiers after
  a mint, there were before, and the identifier had no owner; for Ordinal contracts
  `NextIndexIsFresh` shows it of the counter. Every other entry point leaves the number
  of issued identifiers alone. `BooksAlwaysAgree` and `ApprovalsComeFromTheOwner`
  follow, of any behaviour of any contract.
- `BurntStaysFinal`, `ProvenanceStaysFixed`, `ReceiversAreAlwaysListed` and
  `ContractImplementsRegister` are about steps and need `Unique` before and after each,
  hence `FreshSpec`: they hold of the contract the platform installs, called as the
  platform calls it. Without that habit `nft_hash_reissue` refutes one of them. The
  refinement reads the holder off the lists, so it needs `BooksAgree` for the mapping
  to be single-valued.
- `OrdinalContracts`: if every installation is Ordinal, the same four hold under `Spec`,
  whoever calls.
- `TransferLooksUpInVain`, also of `FreshSpec`: what `transfer` checks of lists and
  balances never refuses; ownership mode, caller, named owner and whitelist alone
  decide whether a live token moves.

`PrimaryMarketProofs` proves, for all sets of investors, classes and terms and
however long the lists of agreements grow, every invariant the market runs check,
and `ClosedToInvestors`. The assumptions are `NumbersAssumption` (bounds are natural
numbers, amounts integers), `SuspectsAssumption` and `TermsAssumption` of
`PrimaryMarket`; values and shares of a class may be negative.

- `SharesAreConserved`. `SharesConserved` needs two strengthenings: nothing is
  confirmed of an agreement still subscribed (`UndecidedUnconfirmed`), without which
  deciding it could count its shares twice; and a class that has not sent offers has
  neither agreements nor answers (`NoAgreementsBeforeOffers`), without which creating
  a class could find old agreements. `SharesInv` joins them. The step that matters is
  `ConservedByConfirmation`: `LoopConservesShares` shows, agreement by agreement, that
  what the loop takes from the shares left is what it confirms.
- `ClassesStayBacked`, for finitely many classes. `BackedInv` adds to
  `SharesInv` that the terms a class was created with offer no more than it is divided
  into (`TermsFit`), that values and rest are the project's value (`ValuesFit`), and
  that the rest is not negative once there is a class (`NothingOverspent`). The sum is
  written with the recursion of
  `SetSums` so that creating a class changes one term of it (`SumChanges`). A namesake
  is a class like any other here, and a negative value adds to the rest what it takes
  from the sum.
- `TokensAlwaysCarryGrants`. `GrantsInv` adds that nothing is confirmed of an
  agreement to which no shares are allocated, so that a token created before its
  decision, or after its rejection, carries nothing; a confirmation decides an agreement once
  (`GrantsCarried`), so that what later tokens carry is what the first one did.
- `OneAgreementEach` extends `SharesInv`: when a class sends its offers nothing may
  have been accepted yet.
- `WhitelistStaysGrounded` is inductive once selections and signatories are seen to
  grow only (`SignatoriesGrow`): a revoked paper still counts, which is why the
  invariant survives a revocation and why it says no more than it does.
- `ClosedStaysClosedToInvestors` needs no more than the types: each chain of calls that
  ends in a commitment, on the whitelist or in a class meets a guard of the project, and
  what the bank may still do to its classes keeps the requests as they stand
  (`RequestsStand`, `AgreementSteps`).

`SubscriptionBookProofs` goes on from there, under the same assumptions, to what a
confirmation decides, so that of what the passing market runs check only liveness is
left to TLC.

- `OversubscriptionForetold`. The query compares a sum with the shares left, the loop
  decides one by one; `LoopMeetsCommitments` shows that the loop meets all undecided
  agreements in full exactly if what they ask together is there. It needs every
  commitment to be positive (`CommitmentsInv`): a commitment of nothing would be met
  by nothing and still count as short.
- `MarketImplementsBook`, the refinement of `SubscriptionBook` by every class.
  `ServedInv` says that the decided agreements are the first ones in the queue, each
  granted what its request takes of what its forerunners left (`ServedInOrder`);
  `LoopServesInOrder` carries this over a confirmation and `QueueGrows` over a new
  request. `ConfirmationIsDecision` is then the abstract step, all others stutter or
  open, list and enqueue (`BookStep`).

`TradeSettlementProofs` proves, for all sets of investors, tokens and agreements, any
number of wallets and any set of parties that take places, every property the run
`trades` checks but liveness. The assumptions are `RebindersAssumption`,
`NobodyAssumption` and `BoundsAssumption`. `StepKinds` says that each step does one of
three things to titles: nothing, create a token, or execute one agreement (`Moves`);
the rest builds on it.

- `WalletsFollow` is inductive with `TypeOK`: moving a token takes it out of some
  wallet of the old owner and leaves it in another only if there is another.
- `Chained`: `ChainOfTitle` alone says nothing of the token's present party at the
  moment it was issued, so `ChainInv` adds that a token nobody was issued has no
  executed agreements and no party (`IssuedOnce`). An execution adds the same
  agreement to the sales of one party and the purchases of another, and the last term
  of each side moves along.
- `Dispose` and `Whitelisted` follow from the guards of an execution, `Refinement`
  from `StepKinds` with one abstract step per kind.

`BridgeProofs` proves the type invariant of `Bridge`, `IdentifierIsOfItsToken` and
`OneMintPerSubscription` for all sets of projects, accounts and tokens and all bounds: any
number of subscriptions, restarts, failures and transfers by others. Notifications
and deploys are records of different shapes, so their lists have no common element
type; `AppendedList` and `ReplacedInList` state what is needed of `Append` and
`EXCEPT` for any list.

- `IdentifiersAreCredited`. That an identifier is set from an event depends on what
  the map of mints said, which depends on what `putDeploy` returned, which depends on
  a notification. `CreditInv` states each link: a mint was requested by a notification
  (`Requested`), what waits to be stored is a mint, an entry of the map is of its
  deploy's token, an event speaks of an answered deploy, and an identifier of all of
  these. A deploy never changes its call and never becomes pending again (`Endures`),
  so every link survives every step that does not write it.
- `MintedPerSubscription`. The number of mints is not inductive: nothing bounds the
  next one. The invariant counts what is still to come as well: the mints of a token
  and the subscriptions that stand ahead of its creation (`Ahead`) are together at most
  the subscriptions ever started. A mint takes one from the second number, since a
  token is created in one notification only (`AnnouncedOnce`); a restart only lowers it.
- `TypeCorrect` adds the remaining maps, queues and history variables.

`BridgeAgreementProofs` proves `TwinsAgreeOnceQuiet`, `NothingIsTakenBack` and
`LinkedOnceQuiet`, again for all bounds and any number of projects. The first two compare
announcements with deploys that are executed in any order, and are proved by counting.

- `TwinsAgree`. The owner of a twin cannot be told from the last announcement, but it
  can from the counts: whoever got the token once more than he sent it owns it.
  `TitlesToldOK` says so of the platform's announcements and its owner,
  `TitlesExecutedOK` of the transfers that went through and the owner on the chain,
  both starting from the account the mint was for. In between, `RelayOK`: as long as
  nothing is lost and the API was not restarted, the deploys for a token are as many
  as the announcements consumed, over all subscriptions. When all is quiet, every
  announcement has been consumed once per subscription, so the chain's counts are a
  multiple of the platform's; the difference between received and sent is 0 or 1 on
  both sides, and both therefore name the same owner.
- `NothingTakenBack` needs half of that argument, and so holds where the other fails,
  for any number of restarts and subscriptions that replay the past.
  `TitlesExecutedOK` alone says that who got a token and never sent it owns it; what
  was sent in the API's deploys was announced (`RelayedAreTold`), however often. What
  the theorem excludes is all that replays can do: take a token from an account that
  the platform did announce as its giver at some time.
- `LinkedOrExcused` follows a token from its creation to its identifier. `LinkInv` says
  at each moment where it has got to, or why it will not arrive: once a subscription
  has passed the creation, the token has one of the excuses (`Excused`), or there is a
  mint of it that the node has not answered or whose answer is queued, and whose hash
  is known or about to be stored (`IsOnItsWay`). `AnsweredOnItsWay`,
  `HeardOnItsWay` and `ServedOnItsWay` carry that over the three steps that move a
  token on. `ClosedWithCause` keeps record of what closes the stream: a trade before
  the identifier, or a deploy that did not come from the platform. When all is quiet
  nothing can be on its way. This is the safety half of `TokensGetTheirIdentifier`;
  that quiet is reached is left to TLC.

The loop over agreements and the sums over them are recursive functions on
`0 .. n`. That such a function obeys its recursion and has its type is shown in
`BoundedRecursion`, by induction over sets of natural numbers: the statements are
about sets, not about operators, so that the provers can instantiate them.

Only model-checked is everything live - `OffersSettle`, `TradesEnd`,
`TokensGetTheirIdentifier` - since liveness is out of the prover's reach. Every
invariant and every action property of the passing runs is proved.
`ClassesStayBacked` and `SupplyStaysConserved` assume a finite set of classes and of keys,
without which the sums they speak of would have no value.

## 5. Not modelled

- The client sessions of the contract forward their arguments to one entry point.
- The data room holds documents; its one precondition, a signed NDA, is a read.
- The demo scenario is one behaviour of the platform's modules.
- The HTTP endpoints translate requests into the calls of `ContractClient`; a deploy
  put through them is one the bridge does not know, like `TransferElsewhere`.
- Deployment: build files, containers, Keycloak.
- Of the contract, receipts, error codes and JSON schemas are abstracted; of the
  primary market, setters of values nothing reads, reminders, the contract hash, the
  filing class of a token, and direct calls of permissions that only keep the books; of
  the secondary market, a permission reserved for tests; of the bridge, lost
  connections to the node, which end a stream as an exception does, and an event of the
  accepted stream that cannot be parsed, which ends that stream; no property depends on
  it. The contract's whitelist and its owned-token lists drop the
  tag of a key; here an account and a contract are always different keys.
- Platform, bridge and chain are not composed at full detail: `Bridge` has its own
  reduced platform and chain. Its platform makes every announcement the primary and
  secondary market can make, and more, since it leaves out their guards but the
  whitelist's; its chain checks what the entry points check of the arguments the API
  can pass.

The order in which the modules were built is that of section 2: contract, primary
market, secondary market, bridge. What would come next: an abstract ledger of owners and
whitelist entries that both `NFTContract` and the chain inside `Bridge` are shown to
implement, and the same for the platform inside `Bridge` and the two market modules.
