---------------------------- MODULE NFTContract ----------------------------
(***************************************************************************)
(* The CEP-78 NFT contract with account whitelisting that represents one   *)
(* real-estate project on the Casper chain (casper/contract/src).          *)
(*                                                                         *)
(* Conventions.                                                            *)
(*  - A state is the content of the contract's named keys and              *)
(*    dictionaries between two deploys: a deploy executes atomically and a *)
(*    call that reverts leaves no trace, so every check of an entry point  *)
(*    is a guard and a reverted call is a stuttering step.                 *)
(*  - A call is made by (a, k): a is the account that signed the deploy    *)
(*    (runtime::get_caller), k the key the call comes from, which is a     *)
(*    itself or a contract on the way (runtime::get_call_stack).           *)
(*  - account_whitelist and owned_tokens are vectors in the code.  Their   *)
(*    order is never observed.  A whitelist may hold an account several    *)
(*    times, hence a bag; an owned_tokens vector is guarded against        *)
(*    repetition, hence a set.                                             *)
(*  - args holds the installation arguments that no entry point changes.   *)
(***************************************************************************)
EXTENDS Integers, FiniteSetsExt

CONSTANTS
  Accounts,        \* account hashes
  Contracts,       \* contract hashes other than the NFT contract's own
  Installer,       \* the account that installed the contract
  NoKey,           \* no owner, no operator, no issuer
  Hashes,          \* the token hashes that deploys pass in Hash mode
  Metadata,        \* token metadata that validate_metadata accepts
  NoMetadata,      \* the metadata of a token that was never minted
  Installations,   \* the arguments with which the contract may be installed
  MaxSupply,       \* bound: the largest total_token_supply
  MaxListed        \* bound: how often one key is in the account whitelist

Keys == Accounts \cup Contracts

Ids == Hashes \cup 0 .. (MaxSupply - 1)

InstallArgs ==
  [ownership  : {"Minter", "Assigned", "Transferable"},
   holder     : {"Accounts", "Contracts", "Mixed"},
   minting    : {"Installer", "Public"},
   whitelist  : {"Unlocked", "Locked"},
   identifier : {"Ordinal", "Hash"},
   mutability : {"Immutable", "Mutable"},
   supply     : 0 .. MaxSupply,
   allow_minting      : BOOLEAN,
   contract_whitelist : SUBSET Contracts,
   account_whitelist  : [Keys -> 0 .. MaxListed]]

ASSUME BoundsAssumption == MaxSupply \in Nat /\ MaxListed \in Nat

ASSUME KeyAssumption == Installer \in Accounts /\ NoKey \notin Keys

ASSUME MetadataAssumption == NoMetadata \notin Metadata

ASSUME InstallationsAssumption == Installations \subseteq InstallArgs

VARIABLES
  args,                      \* what the installation fixed for good
  allow_minting,
  contract_whitelist,        \* contracts that may mint for the installer
  account_whitelist,         \* a bag: how often each key is listed
  number_of_minted_tokens,
  token_owners,
  token_issuers,
  metadata,
  owned_tokens,              \* key -> the tokens of its owned_tokens entry
  token_counts,              \* key -> its balance
  operator,                  \* token -> the key approved to transfer it
  burnt_tokens,
  approver                   \* history: token -> who set its operator

settings == <<allow_minting, contract_whitelist, account_whitelist>>
issued == <<number_of_minted_tokens, token_issuers>>
holdings == <<token_owners, owned_tokens, token_counts>>
approvals == <<operator, approver>>
vars == <<args, settings, issued, metadata, holdings, approvals, burnt_tokens>>

-----------------------------------------------------------------------------
(* Installation.                                                           *)

\* call and init refuse these combinations of arguments.
Installable(i) ==
  /\ ~ (i.identifier = "Hash" /\ i.mutability = "Mutable")
  /\ ~ (i.whitelist = "Locked" /\ i.contract_whitelist = {} /\ i.holder # "Accounts")

Init ==
  /\ args \in {i \in Installations : Installable(i)}
  /\ allow_minting = args.allow_minting
  /\ contract_whitelist = args.contract_whitelist
  /\ account_whitelist = args.account_whitelist
  /\ number_of_minted_tokens = 0
  /\ token_owners = [t \in Ids |-> NoKey]
  /\ token_issuers = [t \in Ids |-> NoKey]
  /\ metadata = [t \in Ids |-> NoMetadata]
  /\ owned_tokens = [k \in Keys |-> {}]
  /\ token_counts = [k \in Keys |-> 0]
  /\ operator = [t \in Ids |-> NoKey]
  /\ approver = [t \in Ids |-> NoKey]
  /\ burnt_tokens = {}

-----------------------------------------------------------------------------
(* Checks shared by the entry points.                                      *)

\* enforce_only_contract_creator_can_invoke looks at the account only.
IsInstaller(a) == a = Installer

\* get_verified_caller: the holder mode decides which keys may act.
VerifiedCaller(k) ==
  /\ k \in Accounts => args.holder # "Contracts"
  /\ k \in Contracts => args.holder # "Accounts"

\* get_token_identifier_from_runtime_args: an index or a hash, as installed.
IdentifierInMode(t) ==
  IF args.identifier = "Ordinal" THEN t \in 0 .. (MaxSupply - 1) ELSE t \in Hashes

\* The bounds check that approve and the reads make, in Ordinal mode only.
IndexInBounds(t) ==
  args.identifier = "Ordinal" => t \in 0 .. (number_of_minted_tokens - 1)

\* Faulty variant: the whitelist is not looked up.
EveryoneListed(k) == TRUE

Listed(k) == account_whitelist[k] > 0

\* Faulty variant: burnt tokens are not looked up.
BurntIgnored(t) == TRUE

NotBurnt(t) == t \notin burnt_tokens

-----------------------------------------------------------------------------
(* set_variables and the account whitelist.                                *)

\* Both arguments are optional; a contract whitelist sent to a Locked
\* contract reverts the whole call, the minting flag included.
SetVariables(a, flag, contracts) ==
  /\ IsInstaller(a)
  /\ contracts # contract_whitelist => args.whitelist = "Unlocked"
  /\ allow_minting' = flag
  /\ contract_whitelist' = contracts
  /\ UNCHANGED <<args, account_whitelist, issued, metadata, holdings, approvals,
                 burnt_tokens>>

\* The argument is an account key: a contract is listed by passing its hash as
\* one, since transfer looks up the bytes of the target key.
AddToAccountWhitelist(a, k) ==
  /\ IsInstaller(a)
  /\ account_whitelist[k] < MaxListed
  /\ account_whitelist' = [account_whitelist EXCEPT ![k] = @ + 1]
  /\ UNCHANGED <<args, allow_minting, contract_whitelist, issued, metadata,
                 holdings, approvals, burnt_tokens>>

\* Removes one occurrence; position(..).unwrap() fails when there is none.
RemoveFromAccountWhitelist(a, k) ==
  /\ IsInstaller(a)
  /\ Listed(k)
  /\ account_whitelist' = [account_whitelist EXCEPT ![k] = @ - 1]
  /\ UNCHANGED <<args, allow_minting, contract_whitelist, issued, metadata,
                 holdings, approvals, burnt_tokens>>

-----------------------------------------------------------------------------
(* mint and burn.                                                          *)

\* Private minting is for the installer's account and for listed contracts.
MayMint(a, k) ==
  args.minting = "Installer" =>
    \/ k \in Contracts /\ k \in contract_whitelist
    \/ k \in Accounts /\ IsInstaller(a)

\* The owner is the argument, or the caller in Minter mode.
MintedTo(k, to) == args.ownership = "Minter" => to = k

\* Faulty variant: one token more than the supply.
SupplyLeftInclusive == number_of_minted_tokens <= args.supply

SupplyLeft == number_of_minted_tokens < args.supply

\* Faulty variant: the index does not advance.
MintedIdStale(t) == IF args.identifier = "Ordinal" THEN t = 0 ELSE t \in Hashes

\* The next index in Ordinal mode, the argument in Hash mode.
MintedId(t) ==
  IF args.identifier = "Ordinal" THEN t = number_of_minted_tokens ELSE t \in Hashes

\* The only duplicate check: the new owner's own list.
NotHeldBy(t, k) == t \notin owned_tokens[k]

Mint(a, k, to, t, data) ==
  /\ allow_minting
  /\ SupplyLeft
  /\ MayMint(a, k) /\ VerifiedCaller(k)
  /\ MintedTo(k, to) /\ MintedId(t)
  /\ NotHeldBy(t, to)
  /\ token_owners' = [token_owners EXCEPT ![t] = to]
  /\ token_issuers' = [token_issuers EXCEPT ![t] = to]
  /\ metadata' = [metadata EXCEPT ![t] = data]
  /\ owned_tokens' = [owned_tokens EXCEPT ![to] = @ \cup {t}]
  /\ token_counts' = [token_counts EXCEPT ![to] = @ + 1]
  /\ number_of_minted_tokens' = number_of_minted_tokens + 1
  /\ UNCHANGED <<args, settings, approvals, burnt_tokens>>

\* A burnt token stays with its owner and in the owner's list.
Burn(a, k, t) ==
  /\ IsInstaller(a) /\ VerifiedCaller(k)
  /\ IdentifierInMode(t)
  /\ token_owners[t] = k
  /\ NotBurnt(t)
  /\ token_counts[k] > 0
  /\ burnt_tokens' = burnt_tokens \cup {t}
  /\ token_counts' = [token_counts EXCEPT ![k] = @ - 1]
  /\ UNCHANGED <<args, settings, issued, metadata, token_owners, owned_tokens,
                 approvals>>

-----------------------------------------------------------------------------
(* approve and set_approval_for_all.                                       *)

\* by is recorded for the properties; the code stores the operator only.
SetOperator(tokens, op, by) ==
  /\ operator' = [t \in Ids |-> IF t \in tokens THEN op ELSE operator[t]]
  /\ approver' = [t \in Ids |-> IF t \in tokens THEN by ELSE approver[t]]

Approve(k, t, op) ==
  /\ args.ownership = "Transferable"
  /\ VerifiedCaller(k)
  /\ IdentifierInMode(t) /\ IndexInBounds(t)
  /\ token_owners[t] = k
  /\ NotBurnt(t)
  /\ op # k
  /\ SetOperator({t}, op, k)
  /\ UNCHANGED <<args, settings, issued, metadata, holdings, burnt_tokens>>

\* Writes the operator of everything in the caller's list, burnt or not;
\* op = NoKey stands for approve_all = false.
SetApprovalForAll(k, op) ==
  /\ args.ownership = "Transferable"
  /\ VerifiedCaller(k)
  /\ SetOperator(owned_tokens[k], op, k)
  /\ UNCHANGED <<args, settings, issued, metadata, holdings, burnt_tokens>>

-----------------------------------------------------------------------------
(* transfer and set_token_metadata.                                        *)

\* In Accounts mode the owner, its operator or the installer transfers.
MayTransfer(k, t) ==
  args.holder = "Accounts" => k \in {token_owners[t], operator[t], Installer}

\* Faulty variant: the token stays in the list of its former owner.
OwnedNotRemoved(t, from, to) == [owned_tokens EXCEPT ![to] = @ \cup {t}]

OwnedAfterTransfer(t, from, to) ==
  LET removed == [owned_tokens EXCEPT ![from] = @ \ {t}]
  IN  [removed EXCEPT ![to] = @ \cup {t}]

\* Faulty variant: the receiver is not credited.
CountsNotCredited(from, to) == [token_counts EXCEPT ![from] = @ - 1]

\* Faulty variant: both balances are read before either is written.
CountsReadFirst(from, to) ==
  [token_counts EXCEPT ![from] = @ - 1, ![to] = token_counts[to] + 1]

CountsAfterTransfer(from, to) ==
  LET reduced == [token_counts EXCEPT ![from] = @ - 1]
  IN  [reduced EXCEPT ![to] = @ + 1]

\* Faulty variant: the approval survives the transfer.
ApprovalKept(t) == UNCHANGED approvals

ClearApproval(t) == SetOperator({t}, NoKey, NoKey)

\* from is the source_key argument.  The checks on its list and balance are
\* the ones the code comments with "This should never happen".
Transfer(k, t, from, to) ==
  /\ args.ownership = "Transferable"
  /\ IdentifierInMode(t)
  /\ NotBurnt(t)
  /\ token_owners[t] = from
  /\ VerifiedCaller(k) /\ MayTransfer(k, t)
  /\ Listed(to)
  /\ t \in owned_tokens[from]
  /\ token_counts[from] > 0
  /\ to # from => NotHeldBy(t, to)
  /\ token_owners' = [token_owners EXCEPT ![t] = to]
  /\ owned_tokens' = OwnedAfterTransfer(t, from, to)
  /\ token_counts' = CountsAfterTransfer(from, to)
  /\ ClearApproval(t)
  /\ UNCHANGED <<args, settings, issued, metadata, burnt_tokens>>

MetadataMutable == args.mutability = "Mutable"

SetTokenMetadata(a, k, t, data) ==
  /\ IsInstaller(a) /\ VerifiedCaller(k)
  /\ MetadataMutable
  /\ IdentifierInMode(t)
  /\ token_owners[t] = k
  /\ metadata' = [metadata EXCEPT ![t] = data]
  /\ UNCHANGED <<args, settings, issued, holdings, approvals, burnt_tokens>>

-----------------------------------------------------------------------------
(* What the read entry points return.                                      *)

\* owner_of reverts beyond the issued indices; NoKey stands for that.
OwnerOf(t) == IF IndexInBounds(t) THEN token_owners[t] ELSE NoKey

BalanceOf(k) == token_counts[k]

\* get_approved reverts on a burnt token.
GetApproved(t) == IF IndexInBounds(t) /\ t \notin burnt_tokens THEN operator[t] ELSE NoKey

-----------------------------------------------------------------------------

\* A call by account a that reaches the contract from the key k.
Call(a, k) ==
  \/ \E flag \in BOOLEAN, contracts \in SUBSET Contracts : SetVariables(a, flag, contracts)
  \/ \E who \in Keys : AddToAccountWhitelist(a, who)
  \/ \E who \in Keys : RemoveFromAccountWhitelist(a, who)
  \/ \E to \in Keys, t \in Ids, data \in Metadata : Mint(a, k, to, t, data)
  \/ \E t \in Ids : Burn(a, k, t)
  \/ \E t \in Ids, op \in Keys : Approve(k, t, op)
  \/ \E op \in Keys \cup {NoKey} : SetApprovalForAll(k, op)
  \/ \E t \in Ids, from \in Keys, to \in Keys : Transfer(k, t, from, to)
  \/ \E t \in Ids, data \in Metadata : SetTokenMetadata(a, k, t, data)

Next == \E a \in Accounts : \E k \in {a} \cup Contracts : Call(a, k)

Spec == Init /\ [][Next]_vars

Issued == {t \in Ids : token_owners[t] # NoKey}

\* Nothing in the contract keeps a hash from being minted again for another
\* owner; then more mints are counted than identifiers have an owner.
Unique ==
  args.identifier = "Ordinal" \/ number_of_minted_tokens = Cardinality(Issued)

\* The contract among callers that mint every hash once, as the platform does:
\* TokenCreateEventConsumer draws a new UUID for each mint.
FreshNext == Next /\ Unique'

FreshSpec == Init /\ [][FreshNext]_vars

-----------------------------------------------------------------------------
(* Properties.                                                             *)

\* The variables hold values of the types the code stores, and no more tokens
\* are minted than total_token_supply.
TypeOK ==
  /\ args \in InstallArgs
  /\ allow_minting \in BOOLEAN
  /\ contract_whitelist \subseteq Contracts
  /\ account_whitelist \in [Keys -> 0 .. MaxListed]
  /\ number_of_minted_tokens \in 0 .. args.supply
  /\ token_owners \in [Ids -> Keys \cup {NoKey}]
  /\ token_issuers \in [Ids -> Keys \cup {NoKey}]
  /\ metadata \in [Ids -> Metadata \cup {NoMetadata}]
  /\ owned_tokens \in [Keys -> SUBSET Ids]
  /\ token_counts \in [Keys -> Nat]
  /\ operator \in [Ids -> Keys \cup {NoKey}]
  /\ approver \in [Ids -> Keys \cup {NoKey}]
  /\ burnt_tokens \subseteq Ids

Unburnt(k) == owned_tokens[k] \ burnt_tokens

\* The balance of a key covers the tokens of its list that are not burnt.
BalancesCover ==
  \A k \in Keys : Cardinality(Unburnt(k)) <= token_counts[k]

\* The branches of burn and transfer commented "This should never happen"
\* (and the one that misses the token in its owner's list) are dead code,
\* whatever the installation: an unburnt token is in the list of its owner,
\* whose balance is positive.
FatalUnreachable ==
  \A t \in Ids, k \in Keys :
    token_owners[t] = k =>
      /\ t \in owned_tokens[k]
      /\ t \notin burnt_tokens => token_counts[k] > 0

\* While no identifier was minted twice, and in Ordinal mode always, the three
\* dictionaries agree: a key's list is exactly the tokens it owns and its
\* balance the number of those not burnt.
BooksAgree ==
  Unique =>
    \A k \in Keys :
      /\ owned_tokens[k] = {t \in Ids : token_owners[t] = k}
      /\ token_counts[k] = Cardinality(Unburnt(k))

\* All balances together count the mints less the burns: no entry point
\* creates or loses a unit, whatever the identifiers.
SupplyIsConserved ==
  MapThenSumSet(BalanceOf, Keys) = number_of_minted_tokens - Cardinality(burnt_tokens)

\* A burnt token stays burnt and with its owner: "This blocks and future call
\* to transfer token" (burn).
BurntIsFinal ==
  [][\A t \in burnt_tokens :
       t \in burnt_tokens' /\ token_owners'[t] = token_owners[t]]_vars

\* While no identifier was minted twice, the operator of a token was approved by
\* the key that owns the token now: an approval ends with the ownership under
\* which it was given, and set_approval_for_all reaches no one else's tokens.
ApprovedByOwner ==
  Unique =>
    \A t \in Ids : operator[t] # NoKey => approver[t] = token_owners[t]

\* A token that has an owner passes only to a key on the account whitelist.
ReceiversAreListed ==
  [][\A t \in Ids :
       token_owners[t] # NoKey /\ token_owners'[t] # token_owners[t]
         => account_whitelist[token_owners'[t]] > 0]_vars

\* The identity of a token is fixed at its mint: nothing changes its issuer
\* or, on a contract with immutable metadata, its metadata.
ProvenanceIsFixed ==
  [][\A t \in Ids :
       token_issuers[t] # NoKey =>
         /\ token_issuers'[t] = token_issuers[t]
         /\ args.mutability = "Immutable" => metadata'[t] = metadata[t]]_vars

-----------------------------------------------------------------------------
(* The contract as a register.  The holder of a token is read off the      *)
(* owned_tokens lists alone, so that the mapping exists only as far as the *)
(* lists give each token one place.                                        *)

HolderByLists ==
  [t \in Ids |->
     IF \E k \in Keys : t \in owned_tokens[k]
       THEN CHOOSE k \in Keys : t \in owned_tokens[k]
       ELSE NoKey]

LiveTokens == {t \in Ids : token_owners[t] # NoKey} \ burnt_tokens

Register == INSTANCE TokenRegister
  WITH Tokens <- Ids, Holders <- Keys, Nobody <- NoKey,
       holder <- HolderByLists, live <- LiveTokens

\* Every step of a contract that mints no identifier twice is a step of the
\* register or changes nothing in it.
ImplementsRegister == Register!Spec
=============================================================================
