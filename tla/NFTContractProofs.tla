------------------------- MODULE NFTContractProofs -------------------------
(***************************************************************************)
(* Theorems about NFTContract, for every set of accounts, contracts and    *)
(* hashes, every supply and every installation.                            *)
(***************************************************************************)
EXTENDS NFTContract, SetSums

-----------------------------------------------------------------------------
(* Type correctness.                                                       *)

\* The state that installation leaves is well typed.
LEMMA TypeInit == Init => TypeOK
<1> SUFFICES ASSUME Init PROVE TypeOK
  OBVIOUS
<1> USE BoundsAssumption, KeyAssumption, MetadataAssumption, InstallationsAssumption
<1>1. args \in InstallArgs
  BY DEF Init
<1>2. /\ args.supply \in 0 .. MaxSupply
      /\ args.allow_minting \in BOOLEAN
      /\ args.contract_whitelist \subseteq Contracts
      /\ args.account_whitelist \in [Keys -> 0 .. MaxListed]
  BY <1>1 DEF InstallArgs
<1> QED
  BY <1>1, <1>2 DEF Init, TypeOK

\* Every entry point keeps the variables well typed: in particular balances
\* never go below zero and no mint exceeds the supply.
LEMMA TypeStep == TypeOK /\ [Next]_vars => TypeOK'
<1> SUFFICES ASSUME TypeOK, [Next]_vars PROVE TypeOK'
  OBVIOUS
<1> USE BoundsAssumption, KeyAssumption, MetadataAssumption
<1>0. args.supply \in 0 .. MaxSupply
  BY DEF TypeOK, InstallArgs
<1>1. ASSUME NEW a \in Accounts, NEW k \in {a} \cup Contracts, Call(a, k)
      PROVE  TypeOK'
  <2>0. k \in Keys
    BY DEF Keys
  <2>1. ASSUME NEW flag \in BOOLEAN, NEW contracts \in SUBSET Contracts,
               SetVariables(a, flag, contracts)
        PROVE  TypeOK'
    BY <2>1 DEF TypeOK, SetVariables, issued, holdings, approvals
  <2>2. ASSUME NEW who \in Keys, AddToAccountWhitelist(a, who)
        PROVE  TypeOK'
    BY <2>2 DEF TypeOK, AddToAccountWhitelist, issued, holdings, approvals
  <2>3. ASSUME NEW who \in Keys, RemoveFromAccountWhitelist(a, who)
        PROVE  TypeOK'
    BY <2>3 DEF TypeOK, RemoveFromAccountWhitelist, Listed, issued, holdings, approvals
  <2>4. ASSUME NEW to \in Keys, NEW t \in Ids, NEW data \in Metadata,
               Mint(a, k, to, t, data)
        PROVE  TypeOK'
    BY <2>4, <1>0 DEF TypeOK, Mint, SupplyLeft, settings, approvals
  <2>5. ASSUME NEW t \in Ids, Burn(a, k, t)
        PROVE  TypeOK'
    BY <2>5, <2>0 DEF TypeOK, Burn, settings, issued, approvals
  <2>6. ASSUME NEW t \in Ids, NEW op \in Keys, Approve(k, t, op)
        PROVE  TypeOK'
    BY <2>6, <2>0 DEF TypeOK, Approve, SetOperator, settings, issued, holdings
  <2>7. ASSUME NEW op \in Keys \cup {NoKey}, SetApprovalForAll(k, op)
        PROVE  TypeOK'
    BY <2>7, <2>0 DEF TypeOK, SetApprovalForAll, SetOperator, settings, issued, holdings
  <2>8. ASSUME NEW t \in Ids, NEW from \in Keys, NEW to \in Keys,
               Transfer(k, t, from, to)
        PROVE  TypeOK'
    BY <2>8 DEF TypeOK, Transfer, OwnedAfterTransfer, CountsAfterTransfer,
                ClearApproval, SetOperator, settings, issued
  <2>9. ASSUME NEW t \in Ids, NEW data \in Metadata, SetTokenMetadata(a, k, t, data)
        PROVE  TypeOK'
    BY <2>9 DEF TypeOK, SetTokenMetadata, settings, issued, holdings, approvals
  <2> QED
    BY <1>1, <2>1, <2>2, <2>3, <2>4, <2>5, <2>6, <2>7, <2>8, <2>9 DEF Call
<1>2. CASE UNCHANGED vars
  BY <1>2 DEF TypeOK, vars, settings, issued, holdings, approvals
<1> QED
  BY <1>1, <1>2 DEF Next

\* The contract's dictionaries keep their types, balances stay natural numbers
\* and the number of mints stays within total_token_supply.
THEOREM TypeCorrect == Spec => []TypeOK
BY TypeInit, TypeStep, PTL DEF Spec

-----------------------------------------------------------------------------
(* The invariant that holds whatever the installation.                     *)

ListsAreFinite == \A k \in Keys : IsFiniteSet(owned_tokens[k])

OwnersHold ==
  \A t \in Ids, k \in Keys : token_owners[t] = k => t \in owned_tokens[k]

BurntAreOwned == \A t \in burnt_tokens : token_owners[t] # NoKey

HoldingsInv ==
  /\ TypeOK
  /\ ListsAreFinite
  /\ OwnersHold
  /\ BurntAreOwned
  /\ BalancesCover

\* The books of a freshly installed contract are consistent.
LEMMA HoldingsInit == Init => HoldingsInv
<1> SUFFICES ASSUME Init PROVE HoldingsInv
  OBVIOUS
<1>1. TypeOK
  BY TypeInit
<1>2. \A k \in Keys : owned_tokens[k] = {} /\ token_counts[k] = 0 /\ Unburnt(k) = {}
  BY DEF Init, Unburnt
<1>3. IsFiniteSet({}) /\ Cardinality({}) = 0
  BY FS_EmptySet
<1>4. \A t \in Ids : token_owners[t] = NoKey
  BY DEF Init
<1>5. burnt_tokens = {}
  BY DEF Init
<1>6. ListsAreFinite
  BY <1>2, <1>3 DEF ListsAreFinite
<1>7. OwnersHold /\ BurntAreOwned
  BY <1>4, <1>5, KeyAssumption DEF OwnersHold, BurntAreOwned
<1>8. BalancesCover
  BY <1>2, <1>3 DEF BalancesCover
<1> QED
  BY <1>1, <1>6, <1>7, <1>8 DEF HoldingsInv

\* Most entry points leave the holdings alone.
LEMMA HoldingsUnchanged ==
  HoldingsInv /\ TypeOK' /\ UNCHANGED <<holdings, burnt_tokens>> => HoldingsInv'
BY DEF HoldingsInv, ListsAreFinite, OwnersHold, BurntAreOwned, BalancesCover,
       Unburnt, holdings

\* What lies in a key's list and is not burnt is a finite set.
LEMMA UnburntFinite ==
  ASSUME HoldingsInv, NEW k \in Keys
  PROVE  IsFiniteSet(Unburnt(k)) /\ Cardinality(Unburnt(k)) \in Nat
BY FS_Subset, FS_CardinalityType DEF HoldingsInv, ListsAreFinite, Unburnt

\* mint keeps the books consistent, in Hash mode also when the token already has
\* an owner: its duplicate check reads the new owner's list.
LEMMA HoldingsMint ==
  ASSUME HoldingsInv, TypeOK', NEW a, NEW k, NEW to \in Keys, NEW t \in Ids, NEW data,
         Mint(a, k, to, t, data)
  PROVE  HoldingsInv'
<1>1. /\ token_owners' = [token_owners EXCEPT ![t] = to]
      /\ owned_tokens' = [owned_tokens EXCEPT ![to] = @ \cup {t}]
      /\ token_counts' = [token_counts EXCEPT ![to] = @ + 1]
      /\ burnt_tokens' = burnt_tokens
  BY DEF Mint
<1>2. /\ token_owners \in [Ids -> Keys \cup {NoKey}]
      /\ owned_tokens \in [Keys -> SUBSET Ids]
      /\ token_counts \in [Keys -> Nat]
      /\ burnt_tokens \subseteq Ids
  BY DEF HoldingsInv, TypeOK
<1>3. ListsAreFinite'
  BY <1>1, <1>2, FS_AddElement DEF HoldingsInv, ListsAreFinite
<1>4. OwnersHold'
  BY <1>1, <1>2 DEF HoldingsInv, OwnersHold
<1>5. BurntAreOwned'
  BY <1>1, <1>2, KeyAssumption DEF HoldingsInv, BurntAreOwned
<1>6. ASSUME NEW h \in Keys PROVE Cardinality(Unburnt(h)') <= token_counts'[h]
  <2>1. IsFiniteSet(Unburnt(h)) /\ Cardinality(Unburnt(h)) \in Nat
    BY UnburntFinite
  <2>2. Cardinality(Unburnt(h)) <= token_counts[h]
    BY DEF HoldingsInv, BalancesCover
  <2>3. CASE h = to
    <3>1. Unburnt(h)' \subseteq Unburnt(h) \cup {t}
      BY <1>1, <1>2, <2>3 DEF Unburnt
    <3>2. /\ IsFiniteSet(Unburnt(h) \cup {t})
          /\ Cardinality(Unburnt(h) \cup {t}) <= Cardinality(Unburnt(h)) + 1
          /\ Cardinality(Unburnt(h) \cup {t}) \in Nat
      <4>1. IsFiniteSet(Unburnt(h) \cup {t})
        BY <2>1, FS_AddElement
      <4>2. Cardinality(Unburnt(h) \cup {t}) =
              IF t \in Unburnt(h) THEN Cardinality(Unburnt(h))
                                  ELSE Cardinality(Unburnt(h)) + 1
        BY <2>1, FS_AddElement
      <4> QED
        BY <2>1, <4>1, <4>2
    <3>3. /\ Cardinality(Unburnt(h)') <= Cardinality(Unburnt(h) \cup {t})
          /\ Cardinality(Unburnt(h)') \in Nat
      BY <3>1, <3>2, FS_Subset, FS_CardinalityType
    <3>4. token_counts'[h] = token_counts[h] + 1 /\ token_counts[h] \in Nat
      BY <1>1, <1>2, <2>3
    <3> QED
      BY <2>1, <2>2, <3>2, <3>3, <3>4
  <2>4. CASE h # to
    BY <1>1, <1>2, <2>2, <2>4 DEF Unburnt
  <2> QED
    BY <2>3, <2>4
<1> QED
  BY <1>3, <1>4, <1>5, <1>6 DEF HoldingsInv, BalancesCover

\* burn keeps the books consistent: the burnt token stays in its owner's list but
\* no longer counts, so the balance may go down by one.
LEMMA HoldingsBurn ==
  ASSUME HoldingsInv, TypeOK', NEW a, NEW k \in Keys, NEW t \in Ids, Burn(a, k, t)
  PROVE  HoldingsInv'
<1>1. /\ token_owners[t] = k
      /\ t \notin burnt_tokens
      /\ token_owners' = token_owners
      /\ owned_tokens' = owned_tokens
      /\ token_counts' = [token_counts EXCEPT ![k] = @ - 1]
      /\ burnt_tokens' = burnt_tokens \cup {t}
  BY DEF Burn, NotBurnt
<1>2. token_counts \in [Keys -> Nat]
  BY DEF HoldingsInv, TypeOK
<1>3. ListsAreFinite' /\ OwnersHold'
  BY <1>1 DEF HoldingsInv, ListsAreFinite, OwnersHold
<1>4. BurntAreOwned'
  BY <1>1, KeyAssumption DEF HoldingsInv, BurntAreOwned
<1>5. ASSUME NEW h \in Keys PROVE Cardinality(Unburnt(h)') <= token_counts'[h]
  <2>1. IsFiniteSet(Unburnt(h)) /\ Cardinality(Unburnt(h)) \in Nat
    BY UnburntFinite
  <2>2. Cardinality(Unburnt(h)) <= token_counts[h]
    BY DEF HoldingsInv, BalancesCover
  <2>3. Unburnt(h)' = Unburnt(h) \ {t}
    BY <1>1 DEF Unburnt
  <2>4. CASE h = k
    <3>1. t \in Unburnt(h)
      BY <1>1, <2>4 DEF HoldingsInv, OwnersHold, Unburnt
    <3>2. Cardinality(Unburnt(h)') = Cardinality(Unburnt(h)) - 1
      BY <2>1, <2>3, <3>1, FS_RemoveElement
    <3>3. token_counts'[h] = token_counts[h] - 1 /\ token_counts[h] \in Nat
      BY <1>1, <1>2, <2>4
    <3> QED
      BY <2>1, <2>2, <3>2, <3>3
  <2>5. CASE h # k
    <3>1. /\ Cardinality(Unburnt(h)') <= Cardinality(Unburnt(h))
          /\ Cardinality(Unburnt(h)') \in Nat
      BY <2>1, <2>3, FS_Subset, FS_CardinalityType
    <3>2. token_counts'[h] = token_counts[h] /\ token_counts[h] \in Nat
      BY <1>1, <1>2, <2>5
    <3> QED
      BY <2>1, <2>2, <3>1, <3>2
  <2> QED
    BY <2>4, <2>5
<1> QED
  BY <1>3, <1>4, <1>5 DEF HoldingsInv, BalancesCover

\* transfer keeps the books consistent, a transfer to the owner itself included.
LEMMA HoldingsTransfer ==
  ASSUME HoldingsInv, TypeOK', NEW k, NEW t \in Ids, NEW from \in Keys, NEW to \in Keys,
         Transfer(k, t, from, to)
  PROVE  HoldingsInv'
<1>1. /\ token_owners[t] = from
      /\ t \notin burnt_tokens
      /\ t \in owned_tokens[from]
      /\ to # from => t \notin owned_tokens[to]
      /\ token_owners' = [token_owners EXCEPT ![t] = to]
      /\ burnt_tokens' = burnt_tokens
  BY DEF Transfer, NotBurnt, NotHeldBy
<1>2. /\ token_owners \in [Ids -> Keys \cup {NoKey}]
      /\ owned_tokens \in [Keys -> SUBSET Ids]
      /\ token_counts \in [Keys -> Nat]
      /\ burnt_tokens \subseteq Ids
  BY DEF HoldingsInv, TypeOK
<1>3. CASE to = from
  <2>1. token_owners' = token_owners /\ owned_tokens' = owned_tokens
    BY <1>1, <1>2, <1>3 DEF Transfer, OwnedAfterTransfer
  <2>2. token_counts' = token_counts
    BY <1>2, <1>3 DEF Transfer, CountsAfterTransfer
  <2> QED
    BY <1>1, <2>1, <2>2, HoldingsUnchanged DEF holdings
<1>4. CASE to # from
  <2>1. \A h \in Keys :
          owned_tokens'[h] = IF h = from THEN owned_tokens[h] \ {t}
                             ELSE IF h = to THEN owned_tokens[h] \cup {t}
                             ELSE owned_tokens[h]
    BY <1>2, <1>4 DEF Transfer, OwnedAfterTransfer
  <2>2. \A h \in Keys :
          token_counts'[h] = IF h = from THEN token_counts[h] - 1
                             ELSE IF h = to THEN token_counts[h] + 1
                             ELSE token_counts[h]
    BY <1>2, <1>4 DEF Transfer, CountsAfterTransfer
  <2>3. ListsAreFinite'
    <3>1. ASSUME NEW h \in Keys PROVE IsFiniteSet(owned_tokens'[h])
      <4>1. IsFiniteSet(owned_tokens[h])
        BY DEF HoldingsInv, ListsAreFinite
      <4>2. /\ IsFiniteSet(owned_tokens[h] \ {t})
            /\ IsFiniteSet(owned_tokens[h] \cup {t})
        BY <4>1, FS_AddElement, FS_RemoveElement
      <4> QED
        BY <2>1, <4>1, <4>2
    <3> QED
      BY <3>1 DEF ListsAreFinite
  <2>4. OwnersHold'
    <3>1. ASSUME NEW s \in Ids, NEW h \in Keys, token_owners'[s] = h
          PROVE  s \in owned_tokens'[h]
      <4>1. CASE s = t
        BY <1>1, <1>2, <1>4, <2>1, <3>1, <4>1
      <4>2. CASE s # t
        <5>1. s \in owned_tokens[h]
          BY <1>1, <1>2, <3>1, <4>2 DEF HoldingsInv, OwnersHold
        <5> QED
          BY <2>1, <4>2, <5>1
      <4> QED
        BY <4>1, <4>2
    <3> QED
      BY <3>1 DEF OwnersHold
  <2>5. BurntAreOwned'
    BY <1>1, <1>2, KeyAssumption DEF HoldingsInv, BurntAreOwned
  <2>6. ASSUME NEW h \in Keys PROVE Cardinality(Unburnt(h)') <= token_counts'[h]
    <3>1. IsFiniteSet(Unburnt(h)) /\ Cardinality(Unburnt(h)) \in Nat
      BY UnburntFinite
    <3>2. Cardinality(Unburnt(h)) <= token_counts[h] /\ token_counts[h] \in Nat
      BY <1>2 DEF HoldingsInv, BalancesCover
    <3>3. CASE h = from
      <4>1. Unburnt(h)' = Unburnt(h) \ {t} /\ t \in Unburnt(h)
        BY <1>1, <2>1, <3>3 DEF Unburnt
      <4>2. Cardinality(Unburnt(h)') = Cardinality(Unburnt(h)) - 1
        BY <3>1, <4>1, FS_RemoveElement
      <4> QED
        BY <2>2, <3>1, <3>2, <3>3, <4>2
    <3>4. CASE h = to
      <4>1. Unburnt(h)' = Unburnt(h) \cup {t} /\ t \notin Unburnt(h)
        BY <1>1, <1>4, <2>1, <3>4 DEF Unburnt
      <4>2. Cardinality(Unburnt(h)') = Cardinality(Unburnt(h)) + 1
        BY <3>1, <4>1, FS_AddElement
      <4> QED
        BY <1>4, <2>2, <3>1, <3>2, <3>4, <4>2
    <3>5. CASE h # from /\ h # to
      BY <1>1, <2>1, <2>2, <3>2, <3>5 DEF Unburnt
    <3> QED
      BY <3>3, <3>4, <3>5
  <2> QED
    BY <2>3, <2>4, <2>5, <2>6 DEF HoldingsInv, BalancesCover
<1> QED
  BY <1>3, <1>4

\* Every entry point keeps the books consistent, whatever the installation.
LEMMA HoldingsStep == HoldingsInv /\ [Next]_vars => HoldingsInv'
<1> SUFFICES ASSUME HoldingsInv, [Next]_vars PROVE HoldingsInv'
  OBVIOUS
<1>0. TypeOK'
  BY TypeStep DEF HoldingsInv
<1>1. ASSUME NEW a \in Accounts, NEW k \in {a} \cup Contracts, Call(a, k)
      PROVE  HoldingsInv'
  <2>0. k \in Keys
    BY DEF Keys
  <2>1. ASSUME NEW to \in Keys, NEW t \in Ids, NEW data \in Metadata,
               Mint(a, k, to, t, data)
        PROVE  HoldingsInv'
    BY <1>0, <2>1, HoldingsMint
  <2>2. ASSUME NEW t \in Ids, Burn(a, k, t)
        PROVE  HoldingsInv'
    BY <1>0, <2>0, <2>2, HoldingsBurn
  <2>3. ASSUME NEW t \in Ids, NEW from \in Keys, NEW to \in Keys,
               Transfer(k, t, from, to)
        PROVE  HoldingsInv'
    BY <1>0, <2>3, HoldingsTransfer
  <2>4. CASE UNCHANGED <<holdings, burnt_tokens>>
    BY <1>0, <2>4, HoldingsUnchanged
  <2> QED
    BY <1>1, <2>1, <2>2, <2>3, <2>4
    DEF Call, SetVariables, AddToAccountWhitelist, RemoveFromAccountWhitelist,
        Approve, SetApprovalForAll, SetTokenMetadata
<1>2. CASE UNCHANGED vars
  BY <1>0, <1>2, HoldingsUnchanged DEF vars
<1> QED
  BY <1>1, <1>2 DEF Next

\* On every contract, Ordinal or Hash, an owned token is in its owner's list,
\* burnt tokens have an owner, and balances cover the unburnt tokens of the lists.
THEOREM HoldingsInvariant == Spec => []HoldingsInv
BY HoldingsInit, HoldingsStep, PTL DEF Spec

\* A balance never falls short of the unburnt tokens in its key's list,
\* whatever the installation and the identifiers passed to mint.
THEOREM BalancesAlwaysCover == Spec => []BalancesCover
<1>1. HoldingsInv => BalancesCover
  BY DEF HoldingsInv
<1> QED
  BY <1>1, HoldingsInvariant, PTL

\* The checks that burn and transfer mark "This should never happen" cannot
\* fail: the branches are dead code on every contract.
THEOREM FatalBranchesAreDead == Spec => []FatalUnreachable
<1>1. HoldingsInv => FatalUnreachable
  <2> SUFFICES ASSUME HoldingsInv, NEW t \in Ids, NEW k \in Keys, token_owners[t] = k
               PROVE  /\ t \in owned_tokens[k]
                      /\ t \notin burnt_tokens => token_counts[k] > 0
    BY DEF FatalUnreachable
  <2>1. t \in owned_tokens[k]
    BY DEF HoldingsInv, OwnersHold
  <2>2. ASSUME t \notin burnt_tokens PROVE token_counts[k] > 0
    <3>1. t \in Unburnt(k)
      BY <2>1, <2>2 DEF Unburnt
    <3>2. IsFiniteSet(Unburnt(k)) /\ Cardinality(Unburnt(k)) \in Nat
      BY UnburntFinite
    <3>3. Cardinality(Unburnt(k)) # 0
      BY <3>1, <3>2, FS_EmptySet
    <3>4. Cardinality(Unburnt(k)) <= token_counts[k] /\ token_counts[k] \in Nat
      BY DEF HoldingsInv, BalancesCover, TypeOK
    <3> QED
      BY <3>2, <3>3, <3>4
  <2> QED
    BY <2>1, <2>2
<1> QED
  BY <1>1, HoldingsInvariant, PTL

-----------------------------------------------------------------------------
(* The invariant behind the exact books.  A mint either takes an identifier *)
(* without an owner or makes the mints outnumber the identifiers that have *)
(* one, for good; in Ordinal mode the index of the next mint has no owner. *)

IndicesAreIssued ==
  args.identifier = "Ordinal" =>
    \A t \in Ids : token_owners[t] # NoKey => t \in 0 .. (number_of_minted_tokens - 1)

IssuersMeanOwners == \A t \in Ids : token_issuers[t] # NoKey => token_owners[t] # NoKey

IssuesAreCounted ==
  IsFiniteSet(Issued) /\ Cardinality(Issued) <= number_of_minted_tokens

ApproversAreKeys == \A t \in Ids : operator[t] # NoKey => approver[t] \in Keys

ExactInv ==
  /\ HoldingsInv
  /\ IndicesAreIssued
  /\ IssuersMeanOwners
  /\ IssuesAreCounted
  /\ BooksAgree
  /\ ApproversAreKeys
  /\ ApprovedByOwner

\* The exact invariant holds after installation.
LEMMA ExactInit == Init => ExactInv
<1> SUFFICES ASSUME Init PROVE ExactInv
  OBVIOUS
<1>1. HoldingsInv
  BY HoldingsInit
<1>2. \A t \in Ids : /\ token_owners[t] = NoKey
                     /\ token_issuers[t] = NoKey
                     /\ operator[t] = NoKey
  BY DEF Init
<1>3. \A k \in Keys : owned_tokens[k] = {} /\ token_counts[k] = 0 /\ Unburnt(k) = {}
  BY DEF Init, Unburnt
<1>4. Cardinality({}) = 0
  BY FS_EmptySet
<1>5. BooksAgree
  <2> SUFFICES ASSUME NEW k \in Keys
               PROVE  /\ owned_tokens[k] = {t \in Ids : token_owners[t] = k}
                      /\ token_counts[k] = Cardinality(Unburnt(k))
    BY DEF BooksAgree
  <2>1. {t \in Ids : token_owners[t] = k} = {}
    BY <1>2, KeyAssumption
  <2> QED
    BY <1>3, <1>4, <2>1
<1>6. IssuesAreCounted
  <2>1. Issued = {} /\ number_of_minted_tokens = 0
    BY <1>2 DEF Issued, Init
  <2> QED
    BY <2>1, FS_EmptySet DEF IssuesAreCounted
<1> QED
  BY <1>1, <1>2, <1>5, <1>6
  DEF ExactInv, IndicesAreIssued, IssuersMeanOwners, ApproversAreKeys, ApprovedByOwner

\* The number of mints is a number.
LEMMA MintsAreNumbers ==
  ASSUME TypeOK
  PROVE  number_of_minted_tokens \in Nat
<1>1. args.supply \in 0 .. MaxSupply /\ number_of_minted_tokens \in 0 .. args.supply
  BY DEF TypeOK, InstallArgs
<1> QED
  BY <1>1, BoundsAssumption

\* What a mint does to the set of identifiers that have an owner.
LEMMA MintIssues ==
  ASSUME ExactInv, NEW a, NEW k, NEW to \in Keys, NEW t \in Ids, NEW data,
         Mint(a, k, to, t, data)
  PROVE  /\ Issued' = Issued \cup {t}
         /\ IssuesAreCounted'
         /\ number_of_minted_tokens' = number_of_minted_tokens + 1
         /\ Cardinality(Issued') =
              IF t \in Issued THEN Cardinality(Issued) ELSE Cardinality(Issued) + 1
<1>1. /\ token_owners' = [token_owners EXCEPT ![t] = to]
      /\ number_of_minted_tokens' = number_of_minted_tokens + 1
  BY DEF Mint
<1>2. token_owners \in [Ids -> Keys \cup {NoKey}]
  BY DEF ExactInv, HoldingsInv, TypeOK
<1>3. Issued' = Issued \cup {t}
  BY <1>1, <1>2, KeyAssumption DEF Issued
<1>4. /\ IsFiniteSet(Issued) /\ Cardinality(Issued) \in Nat
      /\ Cardinality(Issued) <= number_of_minted_tokens
      /\ number_of_minted_tokens \in Nat
  BY FS_CardinalityType, MintsAreNumbers DEF ExactInv, IssuesAreCounted, HoldingsInv
<1>5. /\ IsFiniteSet(Issued \cup {t})
      /\ Cardinality(Issued \cup {t}) =
           IF t \in Issued THEN Cardinality(Issued) ELSE Cardinality(Issued) + 1
  BY <1>4, FS_AddElement
<1>6. Cardinality(Issued') <= number_of_minted_tokens'
  BY <1>1, <1>3, <1>4, <1>5
<1> QED
  BY <1>1, <1>3, <1>5, <1>6 DEF IssuesAreCounted

\* In Ordinal mode the index of the next mint has no owner.
LEMMA NextIndexIsFresh ==
  ASSUME ExactInv, args.identifier = "Ordinal", NEW t \in Ids, MintedId(t)
  PROVE  token_owners[t] = NoKey
<1>1. t = number_of_minted_tokens /\ number_of_minted_tokens \in Nat
  BY MintsAreNumbers DEF ExactInv, HoldingsInv, MintedId
<1> QED
  BY <1>1 DEF ExactInv, IndicesAreIssued

\* If no identifier was minted twice after a mint, then none was before it, and
\* the token it mints had no owner, no issuer, no operator, was in no list and
\* was not burnt.
LEMMA MintIsFresh ==
  ASSUME ExactInv, NEW a, NEW k, NEW to \in Keys, NEW t \in Ids, NEW data,
         Mint(a, k, to, t, data), Unique'
  PROVE  /\ Unique
         /\ token_owners[t] = NoKey
         /\ token_issuers[t] = NoKey
         /\ operator[t] = NoKey
         /\ t \notin burnt_tokens
         /\ \A h \in Keys : t \notin owned_tokens[h]
<1>1. Unique /\ token_owners[t] = NoKey
  <2>1. args' = args /\ MintedId(t)
    BY DEF Mint
  <2>2. CASE args.identifier = "Ordinal"
    BY <2>1, <2>2, NextIndexIsFresh DEF Unique
  <2>3. CASE args.identifier # "Ordinal"
    <3> DEFINE m == number_of_minted_tokens
               n == Cardinality(Issued)
               c == Cardinality(Issued')
    <3>1. m + 1 = c
      BY <2>1, <2>3, MintIssues DEF Unique
    <3>2. c = n \/ (c = n + 1 /\ t \notin Issued)
      BY MintIssues
    <3>3. n \in Nat /\ n <= m /\ m \in Nat
      BY FS_CardinalityType, MintsAreNumbers DEF ExactInv, IssuesAreCounted, HoldingsInv
    <3> HIDE DEF m, n, c
    <3>4. m = n /\ t \notin Issued
      BY <3>1, <3>2, <3>3
    <3> QED
      BY <3>4 DEF Issued, Unique, m, n
  <2> QED
    BY <2>2, <2>3
<1>2. token_issuers[t] = NoKey
  BY <1>1 DEF ExactInv, IssuersMeanOwners
<1>3. operator[t] = NoKey
  BY <1>1, KeyAssumption DEF ExactInv, ApproversAreKeys, ApprovedByOwner
<1>4. t \notin burnt_tokens
  BY <1>1 DEF ExactInv, HoldingsInv, BurntAreOwned
<1>5. \A h \in Keys : t \notin owned_tokens[h]
  BY <1>1, KeyAssumption DEF ExactInv, BooksAgree
<1> QED
  BY <1>1, <1>2, <1>3, <1>4, <1>5

\* A step that hands a token from owner to owner leaves the counts of issued
\* identifiers alone.
LEMMA IssuedUnchanged ==
  ASSUME ExactInv, UNCHANGED <<args, issued>>,
         \A t \in Ids : token_owners'[t] = NoKey <=> token_owners[t] = NoKey
  PROVE  /\ Unique' <=> Unique
         /\ IssuesAreCounted' /\ IndicesAreIssued' /\ IssuersMeanOwners'
<1>1. Issued' = Issued
  BY DEF Issued
<1> QED
  BY <1>1 DEF ExactInv, Unique, IssuesAreCounted, IndicesAreIssued, IssuersMeanOwners,
              issued

\* mint keeps the exact books, or they no longer speak of unique identifiers.
LEMMA ExactMint ==
  ASSUME ExactInv, HoldingsInv', NEW a, NEW k, NEW to \in Keys, NEW t \in Ids,
         NEW data, Mint(a, k, to, t, data)
  PROVE  ExactInv'
<1>1. /\ token_owners' = [token_owners EXCEPT ![t] = to]
      /\ token_issuers' = [token_issuers EXCEPT ![t] = to]
      /\ owned_tokens' = [owned_tokens EXCEPT ![to] = @ \cup {t}]
      /\ token_counts' = [token_counts EXCEPT ![to] = @ + 1]
      /\ number_of_minted_tokens' = number_of_minted_tokens + 1
      /\ UNCHANGED <<args, operator, approver, burnt_tokens>>
      /\ MintedId(t)
  BY DEF Mint, approvals
<1>2. /\ token_owners \in [Ids -> Keys \cup {NoKey}]
      /\ token_issuers \in [Ids -> Keys \cup {NoKey}]
      /\ owned_tokens \in [Keys -> SUBSET Ids]
      /\ token_counts \in [Keys -> Nat]
  BY DEF ExactInv, HoldingsInv, TypeOK
<1>3. number_of_minted_tokens \in Nat
  BY BoundsAssumption DEF ExactInv, HoldingsInv, TypeOK, InstallArgs
<1>4. ApproversAreKeys'
  BY <1>1 DEF ExactInv, ApproversAreKeys
<1>5. ASSUME args.identifier = "Ordinal" PROVE IndicesAreIssued'
  <2>1. t = number_of_minted_tokens
    BY <1>1, <1>5 DEF MintedId
  <2>2. \A s \in Ids : s # t => token_owners'[s] = token_owners[s]
    BY <1>1, <1>2
  <2> QED
    BY <1>1, <1>3, <1>5, <2>1, <2>2 DEF ExactInv, IndicesAreIssued
<1>6. IssuersMeanOwners'
  BY <1>1, <1>2, KeyAssumption DEF ExactInv, IssuersMeanOwners
<1>7. IssuesAreCounted'
  BY MintIssues
<1>8. ASSUME Unique' PROVE BooksAgree' /\ ApprovedByOwner'
  <2>1. /\ Unique
        /\ token_owners[t] = NoKey
        /\ operator[t] = NoKey
        /\ t \notin burnt_tokens
        /\ \A h \in Keys : t \notin owned_tokens[h]
    BY <1>8, MintIsFresh
  <2>3. ASSUME NEW h \in Keys
        PROVE  /\ owned_tokens'[h] = {s \in Ids : token_owners'[s] = h}
               /\ token_counts'[h] = Cardinality(Unburnt(h)')
    <3>1. /\ owned_tokens[h] = {s \in Ids : token_owners[s] = h}
          /\ token_counts[h] = Cardinality(Unburnt(h))
      BY <2>1 DEF ExactInv, BooksAgree
    <3>2. CASE h = to
      <4>1. owned_tokens'[h] = {s \in Ids : token_owners'[s] = h}
        BY <1>1, <1>2, <3>1, <3>2
      <4>2. Unburnt(h)' = Unburnt(h) \cup {t} /\ t \notin Unburnt(h)
        BY <1>1, <1>2, <2>1, <3>2 DEF Unburnt
      <4>3. IsFiniteSet(Unburnt(h))
        BY UnburntFinite DEF ExactInv
      <4>4. Cardinality(Unburnt(h)') = Cardinality(Unburnt(h)) + 1
        BY <4>2, <4>3, FS_AddElement
      <4> QED
        BY <1>1, <1>2, <3>1, <3>2, <4>1, <4>4
    <3>3. CASE h # to
      <4>1. owned_tokens'[h] = {s \in Ids : token_owners'[s] = h}
        BY <1>1, <1>2, <2>1, <3>1, <3>3, KeyAssumption
      <4> QED
        BY <1>1, <1>2, <3>1, <3>3, <4>1 DEF Unburnt
    <3> QED
      BY <3>2, <3>3
  <2>4. ApprovedByOwner'
    <3>1. \A s \in Ids : operator'[s] # NoKey => approver'[s] = token_owners'[s]
      BY <1>1, <1>2, <2>1 DEF ExactInv, ApprovedByOwner
    <3> QED
      BY <3>1 DEF ApprovedByOwner
  <2> QED
    BY <2>3, <2>4 DEF BooksAgree
<1>9. ~ Unique' => BooksAgree' /\ ApprovedByOwner'
  BY DEF BooksAgree, ApprovedByOwner
<1>10. IndicesAreIssued'
  BY <1>1, <1>5 DEF IndicesAreIssued
<1> QED
  BY <1>4, <1>6, <1>7, <1>8, <1>9, <1>10 DEF ExactInv

\* burn keeps the exact books.
LEMMA ExactBurn ==
  ASSUME ExactInv, HoldingsInv', NEW a, NEW k \in Keys, NEW t \in Ids, Burn(a, k, t)
  PROVE  ExactInv'
<1>1. /\ token_owners[t] = k
      /\ t \notin burnt_tokens
      /\ token_counts' = [token_counts EXCEPT ![k] = @ - 1]
      /\ burnt_tokens' = burnt_tokens \cup {t}
      /\ UNCHANGED <<args, number_of_minted_tokens, token_issuers, token_owners,
                     owned_tokens, operator, approver>>
  BY DEF Burn, NotBurnt, issued, approvals
<1>0. /\ Unique' <=> Unique
      /\ IssuesAreCounted' /\ IndicesAreIssued' /\ IssuersMeanOwners'
  BY <1>1, IssuedUnchanged DEF issued
<1>2. ApproversAreKeys' /\ ApprovedByOwner'
  BY <1>0, <1>1 DEF ExactInv, ApproversAreKeys, ApprovedByOwner
<1>3. ASSUME Unique, NEW h \in Keys
      PROVE  /\ owned_tokens'[h] = {s \in Ids : token_owners'[s] = h}
             /\ token_counts'[h] = Cardinality(Unburnt(h)')
  <2>1. /\ owned_tokens[h] = {s \in Ids : token_owners[s] = h}
        /\ token_counts[h] = Cardinality(Unburnt(h))
    BY <1>3 DEF ExactInv, BooksAgree
  <2>2. token_counts \in [Keys -> Nat]
    BY DEF ExactInv, HoldingsInv, TypeOK
  <2>3. Unburnt(h)' = Unburnt(h) \ {t}
    BY <1>1 DEF Unburnt
  <2>4. CASE h = k
    <3>1. t \in Unburnt(h)
      BY <1>1, <2>1, <2>4 DEF Unburnt
    <3>2. IsFiniteSet(Unburnt(h))
      BY UnburntFinite DEF ExactInv
    <3>3. Cardinality(Unburnt(h)') = Cardinality(Unburnt(h)) - 1
      BY <2>3, <3>1, <3>2, FS_RemoveElement
    <3> QED
      BY <1>1, <2>1, <2>2, <2>4, <3>3
  <2>5. CASE h # k
    <3>1. Unburnt(h)' = Unburnt(h)
      BY <1>1, <2>1, <2>3, <2>5 DEF Unburnt
    <3> QED
      BY <1>1, <2>1, <2>2, <2>5, <3>1
  <2> QED
    BY <2>4, <2>5
<1>4. BooksAgree'
  BY <1>0, <1>3 DEF BooksAgree
<1> QED
  BY <1>0, <1>2, <1>4 DEF ExactInv

\* transfer keeps the exact books and ends the approval of the token it moves.
LEMMA ExactTransfer ==
  ASSUME ExactInv, HoldingsInv', NEW k, NEW t \in Ids, NEW from \in Keys,
         NEW to \in Keys, Transfer(k, t, from, to)
  PROVE  ExactInv'
<1>1. /\ token_owners[t] = from
      /\ t \notin burnt_tokens
      /\ t \in owned_tokens[from]
      /\ to # from => t \notin owned_tokens[to]
      /\ token_owners' = [token_owners EXCEPT ![t] = to]
      /\ \A s \in Ids :
           operator'[s] = IF s = t THEN NoKey ELSE operator[s]
      /\ \A s \in Ids :
           approver'[s] = IF s = t THEN NoKey ELSE approver[s]
      /\ UNCHANGED <<args, number_of_minted_tokens, token_issuers, burnt_tokens>>
  BY DEF Transfer, NotBurnt, NotHeldBy, ClearApproval, SetOperator, issued
<1>2. /\ token_owners \in [Ids -> Keys \cup {NoKey}]
      /\ owned_tokens \in [Keys -> SUBSET Ids]
      /\ token_counts \in [Keys -> Nat]
  BY DEF ExactInv, HoldingsInv, TypeOK
<1>3. /\ Unique' <=> Unique
      /\ IssuesAreCounted' /\ IndicesAreIssued' /\ IssuersMeanOwners'
  <2>1. \A s \in Ids : token_owners'[s] = NoKey <=> token_owners[s] = NoKey
    BY <1>1, <1>2, KeyAssumption
  <2> QED
    BY <1>1, <2>1, IssuedUnchanged DEF issued
<1>4. ApproversAreKeys'
  BY <1>1 DEF ExactInv, ApproversAreKeys
<1>5. ApprovedByOwner'
  BY <1>1, <1>2, <1>3 DEF ExactInv, ApprovedByOwner
<1>6. ASSUME Unique, NEW h \in Keys
      PROVE  /\ owned_tokens'[h] = {s \in Ids : token_owners'[s] = h}
             /\ token_counts'[h] = Cardinality(Unburnt(h)')
  <2>1. /\ owned_tokens[h] = {s \in Ids : token_owners[s] = h}
        /\ token_counts[h] = Cardinality(Unburnt(h))
    BY <1>6 DEF ExactInv, BooksAgree
  <2>2. IsFiniteSet(Unburnt(h))
    BY UnburntFinite DEF ExactInv
  <2>3. CASE to = from
    <3>1. token_owners' = token_owners /\ owned_tokens' = owned_tokens
      BY <1>1, <1>2, <2>3 DEF Transfer, OwnedAfterTransfer
    <3>2. token_counts' = token_counts
      BY <1>2, <2>3 DEF Transfer, CountsAfterTransfer
    <3> QED
      BY <1>1, <2>1, <3>1, <3>2 DEF Unburnt
  <2>4. CASE to # from
    <3>1. owned_tokens'[h] = IF h = from THEN owned_tokens[h] \ {t}
                             ELSE IF h = to THEN owned_tokens[h] \cup {t}
                             ELSE owned_tokens[h]
      BY <1>2, <2>4 DEF Transfer, OwnedAfterTransfer
    <3>2. token_counts'[h] = IF h = from THEN token_counts[h] - 1
                             ELSE IF h = to THEN token_counts[h] + 1
                             ELSE token_counts[h]
      BY <1>2, <2>4 DEF Transfer, CountsAfterTransfer
    <3>3. owned_tokens'[h] = {s \in Ids : token_owners'[s] = h}
      BY <1>1, <1>2, <2>1, <2>4, <3>1
    <3>4. CASE h = from
      <4>1. Unburnt(h)' = Unburnt(h) \ {t} /\ t \in Unburnt(h)
        BY <1>1, <3>1, <3>4 DEF Unburnt
      <4>2. Cardinality(Unburnt(h)') = Cardinality(Unburnt(h)) - 1
        BY <2>2, <4>1, FS_RemoveElement
      <4> QED
        BY <2>1, <3>2, <3>3, <3>4, <4>2
    <3>5. CASE h = to
      <4>1. Unburnt(h)' = Unburnt(h) \cup {t} /\ t \notin Unburnt(h)
        BY <1>1, <2>4, <3>1, <3>5 DEF Unburnt
      <4>2. Cardinality(Unburnt(h)') = Cardinality(Unburnt(h)) + 1
        BY <2>2, <4>1, FS_AddElement
      <4> QED
        BY <2>1, <2>4, <3>2, <3>3, <3>5, <4>2
    <3>6. CASE h # from /\ h # to
      BY <1>1, <2>1, <3>1, <3>2, <3>3, <3>6 DEF Unburnt
    <3> QED
      BY <3>4, <3>5, <3>6
  <2> QED
    BY <2>3, <2>4
<1>7. BooksAgree'
  BY <1>3, <1>6 DEF BooksAgree
<1> QED
  BY <1>3, <1>4, <1>5, <1>7 DEF ExactInv

\* approve and set_approval_for_all write the operator of tokens that their
\* caller owns.
LEMMA ExactApproval ==
  ASSUME ExactInv, HoldingsInv', NEW k \in Keys, NEW op, NEW tokens \in SUBSET Ids,
         Unique => \A t \in tokens : token_owners[t] = k,
         SetOperator(tokens, op, k),
         UNCHANGED <<args, settings, issued, metadata, holdings, burnt_tokens>>
  PROVE  ExactInv'
<1>1. /\ \A s \in Ids : operator'[s] = IF s \in tokens THEN op ELSE operator[s]
      /\ \A s \in Ids : approver'[s] = IF s \in tokens THEN k ELSE approver[s]
  BY DEF SetOperator
<1>2. /\ Unique' <=> Unique
      /\ IssuesAreCounted' /\ IndicesAreIssued' /\ IssuersMeanOwners'
  BY IssuedUnchanged DEF holdings
<1>3. BooksAgree'
  BY <1>2 DEF ExactInv, BooksAgree, Unburnt, holdings
<1>4. ApproversAreKeys'
  BY <1>1 DEF ExactInv, ApproversAreKeys
<1>5. ApprovedByOwner'
  BY <1>1, <1>2 DEF ExactInv, ApprovedByOwner, holdings
<1> QED
  BY <1>2, <1>3, <1>4, <1>5 DEF ExactInv

\* The entry points that touch no token keep the exact books.
LEMMA ExactUnchanged ==
  ASSUME ExactInv, HoldingsInv',
         UNCHANGED <<args, issued, holdings, approvals, burnt_tokens>>
  PROVE  ExactInv'
<1>1. /\ Unique' <=> Unique
      /\ IssuesAreCounted' /\ IndicesAreIssued' /\ IssuersMeanOwners'
  BY IssuedUnchanged DEF holdings
<1> QED
  BY <1>1 DEF ExactInv, BooksAgree, ApproversAreKeys, ApprovedByOwner, Unburnt,
              holdings, approvals

\* Every entry point keeps the exact books.
LEMMA ExactStep == ExactInv /\ [Next]_vars => ExactInv'
<1> SUFFICES ASSUME ExactInv, [Next]_vars PROVE ExactInv'
  OBVIOUS
<1>0. HoldingsInv'
  BY HoldingsStep DEF ExactInv
<1>1. ASSUME NEW a \in Accounts, NEW k \in {a} \cup Contracts, Call(a, k)
      PROVE  ExactInv'
  <2>0. k \in Keys
    BY DEF Keys
  <2>1. ASSUME NEW to \in Keys, NEW t \in Ids, NEW data \in Metadata,
               Mint(a, k, to, t, data)
        PROVE  ExactInv'
    BY <1>0, <2>1, ExactMint
  <2>2. ASSUME NEW t \in Ids, Burn(a, k, t)
        PROVE  ExactInv'
    BY <1>0, <2>0, <2>2, ExactBurn
  <2>3. ASSUME NEW t \in Ids, NEW from \in Keys, NEW to \in Keys,
               Transfer(k, t, from, to)
        PROVE  ExactInv'
    BY <1>0, <2>3, ExactTransfer
  <2>4. ASSUME NEW t \in Ids, NEW op \in Keys, Approve(k, t, op)
        PROVE  ExactInv'
    <3>1. {t} \in SUBSET Ids /\ \A s \in {t} : token_owners[s] = k
      BY <2>4 DEF Approve
    <3> QED
      BY <1>0, <2>0, <2>4, <3>1, ExactApproval DEF Approve
  <2>5. ASSUME NEW op \in Keys \cup {NoKey}, SetApprovalForAll(k, op)
        PROVE  ExactInv'
    <3>1. owned_tokens[k] \in SUBSET Ids
      BY <2>0 DEF ExactInv, HoldingsInv, TypeOK
    <3>2. Unique => \A t \in owned_tokens[k] : token_owners[t] = k
      BY <2>0 DEF ExactInv, BooksAgree
    <3> QED
      BY <1>0, <2>0, <2>5, <3>1, <3>2, ExactApproval DEF SetApprovalForAll
  <2>6. CASE UNCHANGED <<args, issued, holdings, approvals, burnt_tokens>>
    BY <1>0, <2>6, ExactUnchanged
  <2> QED
    BY <1>1, <2>1, <2>2, <2>3, <2>4, <2>5, <2>6
    DEF Call, SetVariables, AddToAccountWhitelist, RemoveFromAccountWhitelist,
        SetTokenMetadata
<1>2. CASE UNCHANGED vars
  BY <1>0, <1>2, ExactUnchanged DEF vars
<1> QED
  BY <1>1, <1>2 DEF Next

\* On every contract the mints are counted, and while no identifier was minted
\* twice (in Ordinal mode always) the issued indices, the owners, the lists, the
\* balances and the approvals agree.
THEOREM ExactInvariant == Spec => []ExactInv
BY ExactInit, ExactStep, PTL DEF Spec

\* While no identifier was minted twice, the owner dictionary, the lists and the
\* balances agree exactly.
THEOREM BooksAlwaysAgree == Spec => []BooksAgree
<1>1. ExactInv => BooksAgree
  BY DEF ExactInv
<1> QED
  BY <1>1, ExactInvariant, PTL

\* While no identifier was minted twice, the operator of a token was approved by
\* the key that owns the token now.
THEOREM ApprovalsComeFromTheOwner == Spec => []ApprovedByOwner
<1>1. ExactInv => ApprovedByOwner
  BY DEF ExactInv
<1> QED
  BY <1>1, ExactInvariant, PTL

-----------------------------------------------------------------------------
(* Steps of a contract on which no identifier is minted twice.             *)

\* Only mint, burn and transfer touch owners and burnt tokens; only mint and
\* set_token_metadata touch issuers and metadata.
LEMMA StepCases ==
  ASSUME [Next]_vars
  PROVE  \/ \E a, k : \E to \in Keys, t \in Ids, data \in Metadata : Mint(a, k, to, t, data)
         \/ \E a : \E k \in Keys, t \in Ids : Burn(a, k, t)
         \/ \E k : \E t \in Ids, from \in Keys, to \in Keys : Transfer(k, t, from, to)
         \/ \E a, k, data : \E t \in Ids : SetTokenMetadata(a, k, t, data)
         \/ UNCHANGED <<args, issued, metadata, holdings, burnt_tokens>>
<1>1. ASSUME NEW a \in Accounts, NEW k \in {a} \cup Contracts, Call(a, k)
      PROVE  \/ \E to \in Keys, t \in Ids, data \in Metadata : Mint(a, k, to, t, data)
             \/ \E t \in Ids : Burn(a, k, t)
             \/ \E t \in Ids, from \in Keys, to \in Keys : Transfer(k, t, from, to)
             \/ \E t \in Ids, data \in Metadata : SetTokenMetadata(a, k, t, data)
             \/ UNCHANGED <<args, issued, metadata, holdings, burnt_tokens>>
  BY <1>1 DEF Call, SetVariables, AddToAccountWhitelist, RemoveFromAccountWhitelist,
              Approve, SetApprovalForAll
<1>2. \A a \in Accounts : \A k \in {a} \cup Contracts : k \in Keys
  BY DEF Keys
<1>3. CASE Next
  BY <1>1, <1>2, <1>3 DEF Next
<1>4. CASE UNCHANGED vars
  BY <1>4 DEF vars
<1> QED
  BY <1>3, <1>4

\* A contract of which no identifier was minted twice is one of the contract's
\* behaviours, in which that holds at all times.
LEMMA FreshBehaviour == FreshSpec => Spec /\ []Unique /\ []ExactInv
<1>1. Init => Unique
  <2>1. Init => Issued = {} /\ number_of_minted_tokens = 0
    BY DEF Init, Issued
  <2> QED
    BY <2>1, FS_EmptySet DEF Unique
<1>2. Unique /\ [FreshNext]_vars => Unique'
  BY DEF FreshNext, Unique, Issued, vars, issued, holdings
<1>3. [FreshNext]_vars => [Next]_vars
  BY DEF FreshNext
<1> QED
  BY <1>1, <1>2, <1>3, ExactInvariant, PTL DEF FreshSpec, Spec

\* A step after which no identifier was minted twice keeps burnt tokens burnt and
\* owned as they are.
LEMMA BurntStep ==
  ASSUME ExactInv, Unique', [Next]_vars, NEW s \in burnt_tokens
  PROVE  s \in burnt_tokens' /\ token_owners'[s] = token_owners[s]
<1>0. token_owners \in [Ids -> Keys \cup {NoKey}] /\ burnt_tokens \subseteq Ids
  BY DEF ExactInv, HoldingsInv, TypeOK
<1>1. ASSUME NEW a, NEW k, NEW to \in Keys, NEW t \in Ids, NEW data, Mint(a, k, to, t, data)
      PROVE  s \in burnt_tokens' /\ token_owners'[s] = token_owners[s]
  <2>1. t \notin burnt_tokens
    BY <1>1, MintIsFresh
  <2> QED
    BY <1>0, <1>1, <2>1 DEF Mint
<1>2. ASSUME NEW a, NEW k \in Keys, NEW t \in Ids, Burn(a, k, t)
      PROVE  s \in burnt_tokens' /\ token_owners'[s] = token_owners[s]
  BY <1>2 DEF Burn
<1>3. ASSUME NEW k, NEW t \in Ids, NEW from \in Keys, NEW to \in Keys,
             Transfer(k, t, from, to)
      PROVE  s \in burnt_tokens' /\ token_owners'[s] = token_owners[s]
  BY <1>0, <1>3 DEF Transfer, NotBurnt
<1>4. ASSUME NEW a, NEW k, NEW data, NEW t \in Ids, SetTokenMetadata(a, k, t, data)
      PROVE  s \in burnt_tokens' /\ token_owners'[s] = token_owners[s]
  BY <1>4 DEF SetTokenMetadata, holdings
<1> QED
  BY <1>1, <1>2, <1>3, <1>4, StepCases DEF holdings

\* While no identifier is minted twice, a burnt token stays burnt and with its
\* owner.
THEOREM BurntStaysFinal == FreshSpec => BurntIsFinal
<1>1. ExactInv /\ Unique' /\ [Next]_vars =>
        [\A t \in burnt_tokens :
           t \in burnt_tokens' /\ token_owners'[t] = token_owners[t]]_vars
  BY BurntStep
<1> QED
  BY <1>1, FreshBehaviour, PTL DEF Spec, BurntIsFinal

\* A step after which no identifier was minted twice fixes issuer and, if
\* immutable, metadata.
LEMMA ProvenanceStep ==
  ASSUME ExactInv, Unique', [Next]_vars, NEW s \in Ids,
         token_issuers[s] # NoKey
  PROVE  /\ token_issuers'[s] = token_issuers[s]
         /\ args.mutability = "Immutable" => metadata'[s] = metadata[s]
<1> DEFINE Fixed == /\ token_issuers'[s] = token_issuers[s]
                    /\ args.mutability = "Immutable" => metadata'[s] = metadata[s]
<1>0. /\ token_issuers \in [Ids -> Keys \cup {NoKey}]
      /\ metadata \in [Ids -> Metadata \cup {NoMetadata}]
  BY DEF ExactInv, HoldingsInv, TypeOK
<1>1. ASSUME NEW a, NEW k, NEW to \in Keys, NEW t \in Ids, NEW data, Mint(a, k, to, t, data)
      PROVE  Fixed
  <2>1. token_issuers[t] = NoKey
    BY <1>1, MintIsFresh
  <2> QED
    BY <1>0, <1>1, <2>1 DEF Mint
<1>2. ASSUME NEW a, NEW k \in Keys, NEW t \in Ids, Burn(a, k, t)
      PROVE  Fixed
  BY <1>2 DEF Burn, issued
<1>3. ASSUME NEW k, NEW t \in Ids, NEW from \in Keys, NEW to \in Keys,
             Transfer(k, t, from, to)
      PROVE  Fixed
  BY <1>3 DEF Transfer, issued
<1>4. ASSUME NEW a, NEW k, NEW data, NEW t \in Ids, SetTokenMetadata(a, k, t, data)
      PROVE  Fixed
  BY <1>4 DEF SetTokenMetadata, MetadataMutable, issued
<1>5. CASE UNCHANGED <<args, issued, metadata, holdings, burnt_tokens>>
  BY <1>5 DEF issued
<1> QED
  BY <1>1, <1>2, <1>3, <1>4, <1>5, StepCases

\* While no identifier is minted twice, the issuer of a token never changes, nor
\* does immutable metadata.
THEOREM ProvenanceStaysFixed == FreshSpec => ProvenanceIsFixed
<1>1. ExactInv /\ Unique' /\ [Next]_vars =>
        [\A t \in Ids :
           token_issuers[t] # NoKey =>
             /\ token_issuers'[t] = token_issuers[t]
             /\ args.mutability = "Immutable" => metadata'[t] = metadata[t]]_vars
  BY ProvenanceStep
<1> QED
  BY <1>1, FreshBehaviour, PTL DEF Spec, ProvenanceIsFixed

\* In a step after which no identifier was minted twice, a token that has an owner
\* passes to a listed key.
LEMMA ReceiverStep ==
  ASSUME ExactInv, Unique', [Next]_vars, NEW s \in Ids,
         token_owners[s] # NoKey, token_owners'[s] # token_owners[s]
  PROVE  account_whitelist[token_owners'[s]] > 0
<1>0. token_owners \in [Ids -> Keys \cup {NoKey}]
  BY DEF ExactInv, HoldingsInv, TypeOK
<1>1. ASSUME NEW a, NEW k, NEW to \in Keys, NEW t \in Ids, NEW data, Mint(a, k, to, t, data)
      PROVE  FALSE
  <2>1. token_owners[t] = NoKey
    BY <1>1, MintIsFresh
  <2> QED
    BY <1>0, <1>1, <2>1 DEF Mint
<1>2. ASSUME NEW k, NEW t \in Ids, NEW from \in Keys, NEW to \in Keys,
             Transfer(k, t, from, to)
      PROVE  account_whitelist[token_owners'[s]] > 0
  <2>1. token_owners' = [token_owners EXCEPT ![t] = to] /\ account_whitelist[to] > 0
    BY <1>2 DEF Transfer, Listed
  <2> QED
    BY <1>0, <2>1
<1>3. ~ UNCHANGED token_owners
  OBVIOUS
<1> QED
  BY <1>1, <1>2, <1>3, StepCases DEF Burn, SetTokenMetadata, holdings

\* While no identifier is minted twice, tokens change hands only towards keys
\* that are on the account whitelist at that moment.
THEOREM ReceiversAreAlwaysListed == FreshSpec => ReceiversAreListed
<1>1. ExactInv /\ Unique' /\ [Next]_vars =>
        [\A t \in Ids :
           token_owners[t] # NoKey /\ token_owners'[t] # token_owners[t]
             => account_whitelist[token_owners'[t]] > 0]_vars
  BY ReceiverStep
<1> QED
  BY <1>1, FreshBehaviour, PTL DEF Spec, ReceiversAreListed

-----------------------------------------------------------------------------
(* A contract on which no identifier is minted twice implements the        *)
(* register.                                                               *)

\* The lists put every token where the owner dictionary has it.
LEMMA ListsGiveOwner ==
  ASSUME ExactInv, Unique
  PROVE  HolderByLists = token_owners
<1>1. token_owners \in [Ids -> Keys \cup {NoKey}]
  BY DEF ExactInv, HoldingsInv, TypeOK
<1>2. ASSUME NEW t \in Ids PROVE HolderByLists[t] = token_owners[t]
  <2>1. \A k \in Keys : t \in owned_tokens[k] <=> token_owners[t] = k
    BY DEF ExactInv, BooksAgree
  <2>2. CASE token_owners[t] = NoKey
    BY <2>1, <2>2, KeyAssumption DEF HolderByLists
  <2>3. CASE token_owners[t] # NoKey
    <3>1. token_owners[t] \in Keys
      BY <1>1, <2>3
    <3>2. (CHOOSE k \in Keys : t \in owned_tokens[k]) = token_owners[t]
      BY <2>1, <3>1
    <3> QED
      BY <2>1, <3>1, <3>2 DEF HolderByLists
  <2> QED
    BY <2>2, <2>3
<1> QED
  BY <1>1, <1>2 DEF HolderByLists

\* A freshly installed contract is an empty register.
LEMMA RegisterInit == Init => Register!Init
<1> SUFFICES ASSUME Init PROVE Register!Init
  OBVIOUS
<1>1. HolderByLists = [t \in Ids |-> NoKey]
  BY DEF Init, HolderByLists
<1>2. LiveTokens = {}
  BY DEF Init, LiveTokens
<1> QED
  BY <1>1, <1>2 DEF Register!Init

\* Every step between states in which no identifier was minted twice is a step of
\* the register or a stutter.
LEMMA RegisterStep ==
  ASSUME ExactInv, ExactInv', Unique, Unique', [Next]_vars
  PROVE  [Register!Next]_<<HolderByLists, LiveTokens>>
<1>0. /\ HolderByLists = token_owners
      /\ HolderByLists' = token_owners'
  <2>1. HolderByLists = token_owners
    BY ListsGiveOwner
  <2>2. \A t \in Ids, k \in Keys : t \in owned_tokens'[k] <=> token_owners'[t] = k
    BY DEF ExactInv, BooksAgree
  <2>3. token_owners' \in [Ids -> Keys \cup {NoKey}]
    BY DEF ExactInv, HoldingsInv, TypeOK
  <2>4. ASSUME NEW t \in Ids PROVE HolderByLists'[t] = token_owners'[t]
    <3>1. CASE token_owners'[t] = NoKey
      BY <2>2, <3>1, KeyAssumption DEF HolderByLists
    <3>2. CASE token_owners'[t] # NoKey
      <4>1. token_owners'[t] \in Keys
        BY <2>3, <3>2
      <4>2. (CHOOSE k \in Keys : t \in owned_tokens'[k]) = token_owners'[t]
        BY <2>2, <4>1
      <4> QED
        BY <2>2, <4>1, <4>2 DEF HolderByLists
    <3> QED
      BY <3>1, <3>2
  <2> QED
    BY <2>1, <2>3, <2>4 DEF HolderByLists
<1>1. /\ token_owners \in [Ids -> Keys \cup {NoKey}]
      /\ burnt_tokens \subseteq Ids
      /\ NoKey \notin Keys
  BY KeyAssumption DEF ExactInv, HoldingsInv, TypeOK
<1>2. ASSUME NEW a, NEW k, NEW to \in Keys, NEW t \in Ids, NEW data, Mint(a, k, to, t, data)
      PROVE  Register!Next
  <2>1. token_owners[t] = NoKey /\ t \notin burnt_tokens
    BY <1>2, MintIsFresh
  <2>2. token_owners' = [token_owners EXCEPT ![t] = to] /\ burnt_tokens' = burnt_tokens
    BY <1>2 DEF Mint
  <2>3. LiveTokens' = LiveTokens \cup {t}
    BY <1>1, <2>1, <2>2 DEF LiveTokens
  <2>4. Register!Issue(t, to)
    BY <1>0, <2>1, <2>2, <2>3 DEF Register!Issue
  <2> QED
    BY <2>4 DEF Register!Next
<1>3. ASSUME NEW a, NEW k \in Keys, NEW t \in Ids, Burn(a, k, t)
      PROVE  Register!Next
  <2>1. /\ token_owners[t] = k /\ t \notin burnt_tokens
        /\ burnt_tokens' = burnt_tokens \cup {t} /\ token_owners' = token_owners
    BY <1>3 DEF Burn, NotBurnt
  <2>2. LiveTokens' = LiveTokens \ {t} /\ t \in LiveTokens
    BY <1>1, <2>1 DEF LiveTokens
  <2>3. Register!Retire(t)
    BY <1>0, <2>1, <2>2 DEF Register!Retire
  <2> QED
    BY <2>3 DEF Register!Next
<1>4. ASSUME NEW k, NEW t \in Ids, NEW from \in Keys, NEW to \in Keys,
             Transfer(k, t, from, to)
      PROVE  Register!Next
  <2>1. /\ token_owners[t] = from /\ t \notin burnt_tokens
        /\ burnt_tokens' = burnt_tokens
        /\ token_owners' = [token_owners EXCEPT ![t] = to]
    BY <1>4 DEF Transfer, NotBurnt
  <2>2. LiveTokens' = LiveTokens /\ t \in LiveTokens
    BY <1>1, <2>1 DEF LiveTokens
  <2>3. Register!Reassign(t, to)
    BY <1>0, <2>1, <2>2 DEF Register!Reassign
  <2> QED
    BY <2>3 DEF Register!Next
<1>5. ASSUME UNCHANGED <<holdings, burnt_tokens>>
      PROVE  UNCHANGED <<HolderByLists, LiveTokens>>
  BY <1>0, <1>5 DEF LiveTokens, holdings
<1>6. ASSUME NEW a, NEW k, NEW data, NEW t \in Ids, SetTokenMetadata(a, k, t, data)
      PROVE  UNCHANGED <<HolderByLists, LiveTokens>>
  BY <1>5, <1>6 DEF SetTokenMetadata
<1> QED
  BY <1>2, <1>3, <1>4, <1>5, <1>6, StepCases

\* Every behaviour of a contract on which no identifier is minted twice is a
\* behaviour of the register: each token has one holder, passes from holder to
\* holder only while it is live, and keeps its last holder once it is burnt.
THEOREM ContractImplementsRegister == FreshSpec => ImplementsRegister
<1>1. ExactInv /\ ExactInv' /\ Unique /\ Unique' /\ [Next]_vars
      => [Register!Next]_<<HolderByLists, LiveTokens>>
  BY RegisterStep
<1> QED
  BY <1>1, RegisterInit, FreshBehaviour, PTL
  DEF Spec, ImplementsRegister, Register!Spec

-----------------------------------------------------------------------------
(* What transfer looks up without need.                                    *)

TransferChecksPass ==
  \A t \in Ids \ burnt_tokens, from \in Keys, to \in Keys :
    token_owners[t] = from =>
      /\ t \in owned_tokens[from]
      /\ token_counts[from] > 0
      /\ to # from => NotHeldBy(t, to)

\* While no identifier was minted twice, the checks that transfer makes of lists and
\* balances never refuse: whether a live token moves depends on the ownership mode,
\* the caller, the named owner and the whitelist alone.
THEOREM TransferLooksUpInVain == FreshSpec => []TransferChecksPass
<1>1. ASSUME FatalUnreachable, ExactInv, Unique PROVE TransferChecksPass
  <2>1. \A t \in Ids, k \in Keys : t \in owned_tokens[k] <=> token_owners[t] = k
    BY <1>1 DEF ExactInv, BooksAgree
  <2> QED
    BY <1>1, <2>1 DEF TransferChecksPass, FatalUnreachable, NotHeldBy
<1> QED
  BY <1>1, FatalBranchesAreDead, FreshBehaviour, PTL

-----------------------------------------------------------------------------
(* Ordinal contracts need no help from their callers.                      *)

OrdinalOnly == \A i \in Installations : i.identifier = "Ordinal"

ArgsAreInstalled == args \in Installations

\* No entry point changes the installation arguments.
LEMMA ArgsInvariant == Spec => []ArgsAreInstalled
<1>1. Init => ArgsAreInstalled
  BY DEF Init, ArgsAreInstalled
<1>2. ArgsAreInstalled /\ [Next]_vars => ArgsAreInstalled'
  BY StepCases
  DEF ArgsAreInstalled, Mint, Burn, Transfer, SetTokenMetadata
<1> QED
  BY <1>1, <1>2, PTL DEF Spec

\* If every installation is Ordinal, no caller mints an identifier twice: burnt
\* tokens are final, receivers listed, provenance fixed and the register
\* implemented, whoever calls.
THEOREM OrdinalContracts ==
  ASSUME OrdinalOnly
  PROVE  Spec => BurntIsFinal /\ ReceiversAreListed /\ ProvenanceIsFixed
                 /\ ImplementsRegister
<1>1. ArgsAreInstalled' => Unique'
  BY DEF ArgsAreInstalled, OrdinalOnly, Unique
<1>2. ArgsAreInstalled' /\ [Next]_vars => [FreshNext]_vars
  BY <1>1 DEF FreshNext
<1>3. Spec => FreshSpec
  BY <1>2, ArgsInvariant, PTL DEF Spec, FreshSpec
<1> QED
  BY <1>3, BurntStaysFinal, ReceiversAreAlwaysListed, ProvenanceStaysFixed,
     ContractImplementsRegister, PTL
-----------------------------------------------------------------------------
(* The supply, for finitely many accounts and contracts.                   *)

\* The sum of the balances by the recursion of SetSums, before and after a step.
LEMMA SupplyBySums ==
  /\ SupplyIsConserved
       <=> SumOver(token_counts, Keys)[Keys]
             = number_of_minted_tokens - Cardinality(burnt_tokens)
  /\ SupplyIsConserved'
       <=> SumOver(token_counts', Keys)[Keys]
             = number_of_minted_tokens' - Cardinality(burnt_tokens')
BY DEF SupplyIsConserved, BalanceOf, MapThenSumSet, MapThenFoldSet, SumOver, NextOf

SupplyInv == TypeOK /\ IsFiniteSet(burnt_tokens) /\ SupplyIsConserved

\* A contract starts with balances of zero and no mints.
LEMMA SupplyInit ==
  ASSUME IsFiniteSet(Keys), Init
  PROVE  SupplyInv
<1>1. SumOver(token_counts, Keys)[Keys] = 0
  BY SumOfZeros DEF Init
<1>2. IsFiniteSet(burnt_tokens) /\ Cardinality(burnt_tokens) = 0
  BY FS_EmptySet DEF Init
<1>3. SupplyIsConserved
  BY <1>1, <1>2, SupplyBySums DEF Init
<1> QED
  BY <1>2, <1>3, TypeInit DEF SupplyInv

\* Steps that change neither balances nor what is counted against them.
LEMMA SupplyUnchanged ==
  ASSUME SupplyInv, TypeOK',
         UNCHANGED <<token_counts, number_of_minted_tokens, burnt_tokens>>
  PROVE  SupplyInv'
BY DEF SupplyInv, SupplyIsConserved, BalanceOf, MapThenSumSet, MapThenFoldSet

\* mint counts one more and credits one key by one.
LEMMA SupplyByMint ==
  ASSUME IsFiniteSet(Keys), SupplyInv, TypeOK', NEW a, NEW k, NEW to \in Keys,
         NEW t \in Ids, NEW data, Mint(a, k, to, t, data)
  PROVE  SupplyInv'
<1> DEFINE f == token_counts
           e == token_counts'
<1>1. /\ e = [f EXCEPT ![to] = @ + 1]
      /\ number_of_minted_tokens' = number_of_minted_tokens + 1
      /\ burnt_tokens' = burnt_tokens
  BY DEF Mint
<1>2. /\ f \in [Keys -> Nat] /\ e \in [Keys -> Nat]
      /\ number_of_minted_tokens \in Nat /\ Cardinality(burnt_tokens) \in Nat
  BY FS_CardinalityType, BoundsAssumption DEF SupplyInv, TypeOK, InstallArgs
<1>3. e[to] = f[to] + 1 /\ f[to] \in Nat /\ DifferAt(to, f, e, Keys)
  BY <1>1, <1>2 DEF DifferAt
<1>4. SumOver(f, Keys)[Keys] = number_of_minted_tokens - Cardinality(burnt_tokens)
  BY SupplyBySums DEF SupplyInv
<1>5. SumOver(token_counts', Keys)[Keys]
        = number_of_minted_tokens' - Cardinality(burnt_tokens')
  <2> HIDE DEF f, e
  <2>1. /\ SumOver(f, Keys)[Keys] \in Nat
        /\ SumOver(e, Keys)[Keys] = SumOver(f, Keys)[Keys] + e[to] - f[to]
    BY <1>2, <1>3, SumChanges
  <2>2. SumOver(e, Keys)[Keys] = SumOver(f, Keys)[Keys] + 1
    BY <1>3, <2>1
  <2>3. SumOver(e, Keys)[Keys] = number_of_minted_tokens' - Cardinality(burnt_tokens')
    BY <1>1, <1>2, <1>4, <2>2
  <2> QED
    BY <2>3 DEF e
<1>6. SupplyIsConserved'
  BY <1>5, SupplyBySums
<1> QED
  BY <1>1, <1>6 DEF SupplyInv

\* burn debits one key by one for a token not burnt before.
LEMMA SupplyByBurn ==
  ASSUME IsFiniteSet(Keys), SupplyInv, TypeOK', NEW a, NEW k \in Keys, NEW t \in Ids,
         Burn(a, k, t)
  PROVE  SupplyInv'
<1> DEFINE f == token_counts
           e == token_counts'
<1>1. /\ e = [f EXCEPT ![k] = @ - 1]
      /\ number_of_minted_tokens' = number_of_minted_tokens
      /\ burnt_tokens' = burnt_tokens \cup {t} /\ t \notin burnt_tokens
  BY DEF Burn, issued, NotBurnt
<1>2. /\ f \in [Keys -> Nat] /\ e \in [Keys -> Nat]
      /\ number_of_minted_tokens \in Nat /\ IsFiniteSet(burnt_tokens)
      /\ Cardinality(burnt_tokens) \in Nat
  BY FS_CardinalityType, BoundsAssumption DEF SupplyInv, TypeOK, InstallArgs
<1>3. IsFiniteSet(burnt_tokens') /\ Cardinality(burnt_tokens') = Cardinality(burnt_tokens) + 1
  BY <1>1, <1>2, FS_AddElement
<1>4. e[k] = f[k] - 1 /\ f[k] \in Nat /\ DifferAt(k, f, e, Keys)
  BY <1>1, <1>2 DEF DifferAt
<1>5. SumOver(f, Keys)[Keys] = number_of_minted_tokens - Cardinality(burnt_tokens)
  BY SupplyBySums DEF SupplyInv
<1>6. SumOver(token_counts', Keys)[Keys]
        = number_of_minted_tokens' - Cardinality(burnt_tokens')
  <2> HIDE DEF f, e
  <2>1. /\ SumOver(f, Keys)[Keys] \in Nat
        /\ SumOver(e, Keys)[Keys] = SumOver(f, Keys)[Keys] + e[k] - f[k]
    BY <1>2, <1>4, SumChanges
  <2>2. SumOver(e, Keys)[Keys] = SumOver(f, Keys)[Keys] - 1
    BY <1>4, <2>1
  <2>3. SumOver(e, Keys)[Keys] = number_of_minted_tokens' - Cardinality(burnt_tokens')
    BY <1>1, <1>2, <1>3, <1>5, <2>2
  <2> QED
    BY <2>3 DEF e
<1>7. SupplyIsConserved'
  BY <1>6, SupplyBySums
<1> QED
  BY <1>3, <1>7 DEF SupplyInv

\* transfer debits one key and credits another by one, or does both to the same.
LEMMA SupplyByTransfer ==
  ASSUME IsFiniteSet(Keys), SupplyInv, TypeOK', NEW k, NEW t \in Ids, NEW from \in Keys,
         NEW to \in Keys, Transfer(k, t, from, to)
  PROVE  SupplyInv'
<1> DEFINE f == token_counts
           r == [f EXCEPT ![from] = @ - 1]
           e == token_counts'
<1>1. /\ e = [r EXCEPT ![to] = @ + 1] /\ f[from] > 0
      /\ UNCHANGED <<number_of_minted_tokens, burnt_tokens>>
  BY DEF Transfer, CountsAfterTransfer, issued
<1>2. f \in [Keys -> Nat] /\ e \in [Keys -> Nat]
  BY DEF SupplyInv, TypeOK
<1>3. /\ r \in [Keys -> Nat] /\ r[from] = f[from] - 1 /\ f[from] \in Nat
      /\ DifferAt(from, f, r, Keys)
  BY <1>1, <1>2 DEF DifferAt
<1> HIDE DEF f, r
<1>4. e[to] = r[to] + 1 /\ r[to] \in Nat /\ DifferAt(to, r, e, Keys)
  BY <1>1, <1>3 DEF DifferAt
<1> HIDE DEF e
<1>5. /\ SumOver(f, Keys)[Keys] \in Nat /\ SumOver(r, Keys)[Keys] \in Nat
      /\ SumOver(r, Keys)[Keys] = SumOver(f, Keys)[Keys] + r[from] - f[from]
      /\ SumOver(e, Keys)[Keys] = SumOver(r, Keys)[Keys] + e[to] - r[to]
  BY <1>2, <1>3, <1>4, SumChanges
<1>6. SumOver(e, Keys)[Keys] = SumOver(f, Keys)[Keys]
  BY <1>3, <1>4, <1>5
<1>7. SupplyIsConserved'
  <2>1. SumOver(f, Keys)[Keys] = number_of_minted_tokens - Cardinality(burnt_tokens)
    BY SupplyBySums DEF SupplyInv, f
  <2>2. SumOver(token_counts', Keys)[Keys]
          = number_of_minted_tokens' - Cardinality(burnt_tokens')
    BY <1>1, <1>6, <2>1 DEF e
  <2> QED
    BY <2>2, SupplyBySums
<1> QED
  BY <1>1, <1>7 DEF SupplyInv

\* On every contract, Hash or Ordinal, the balances together are the mints less
\* the burns: no sequence of calls creates or loses a unit of balance.
THEOREM SupplyStaysConserved ==
  ASSUME IsFiniteSet(Keys)
  PROVE  Spec => []SupplyIsConserved
<1>1. Init => SupplyInv
  BY SupplyInit
<1>2. SupplyInv /\ [Next]_vars => SupplyInv'
  <2> SUFFICES ASSUME SupplyInv, [Next]_vars PROVE SupplyInv'
    OBVIOUS
  <2>1. TypeOK'
    BY TypeStep DEF SupplyInv
  <2>2. ASSUME NEW a, NEW k, NEW to \in Keys, NEW t \in Ids, NEW data, Mint(a, k, to, t, data)
        PROVE  SupplyInv'
    BY <2>1, <2>2, SupplyByMint
  <2>3. ASSUME NEW a, NEW k \in Keys, NEW t \in Ids, Burn(a, k, t)
        PROVE  SupplyInv'
    BY <2>1, <2>3, SupplyByBurn
  <2>4. ASSUME NEW k, NEW t \in Ids, NEW from \in Keys, NEW to \in Keys,
               Transfer(k, t, from, to)
        PROVE  SupplyInv'
    BY <2>1, <2>4, SupplyByTransfer
  <2>5. ASSUME NEW a, NEW k, NEW data, NEW t \in Ids, SetTokenMetadata(a, k, t, data)
        PROVE  SupplyInv'
    BY <2>1, <2>5, SupplyUnchanged DEF SetTokenMetadata, issued, holdings
  <2>6. CASE UNCHANGED <<args, issued, metadata, holdings, burnt_tokens>>
    BY <2>1, <2>6, SupplyUnchanged DEF issued, holdings
  <2> QED
    BY <2>2, <2>3, <2>4, <2>5, <2>6, StepCases
<1>3. SupplyInv => SupplyIsConserved
  BY DEF SupplyInv
<1> QED
  BY <1>1, <1>2, <1>3, PTL DEF Spec
=============================================================================
