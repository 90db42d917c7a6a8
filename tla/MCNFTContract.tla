-------------------------- MODULE MCNFTContract ----------------------------
(***************************************************************************)
(* Instances of NFTContract for TLC.                                       *)
(***************************************************************************)
EXTENDS NFTContract, TLC

CONSTANTS inst, alice, bob, minter, h1, h2, m1, m2

\* Nobody is listed, no contract mints: the defaults of the call entry point.
Defaults ==
  [ownership |-> "Transferable", holder |-> "Accounts", minting |-> "Installer",
   whitelist |-> "Unlocked", identifier |-> "Ordinal", mutability |-> "Immutable",
   supply |-> MaxSupply, allow_minting |-> TRUE, contract_whitelist |-> {},
   account_whitelist |-> [k \in Keys |-> 0]]

Mutable ==
  [Defaults EXCEPT !.mutability = "Mutable", !.ownership = "Assigned", !.supply = 1]

\* The parameters casper/README.md gives, and Ordinal contracts that differ
\* from them: mutable metadata, public minting to the minter, assigned tokens.
OrdinalInstallations ==
  {[Defaults EXCEPT !.whitelist = "Locked"],
   Mutable,
   [Defaults EXCEPT !.minting = "Public", !.ownership = "Minter"]}

\* What ContractInstaller.kt installs, and Hash contracts on which contracts
\* mint and hold.
Platform == [Defaults EXCEPT !.holder = "Mixed", !.identifier = "Hash"]

PlatformInstallation == {Platform}

UniqueInstallations == PlatformInstallation \cup OrdinalInstallations

DocumentedInstallation == {[Defaults EXCEPT !.whitelist = "Locked"]}

HashInstallations ==
  {Platform,
   [Platform EXCEPT !.holder = "Contracts", !.whitelist = "Locked",
                    !.contract_whitelist = Contracts],
   [Defaults EXCEPT !.identifier = "Hash", !.allow_minting = FALSE]}

AllKinds == HashInstallations \cup {Mutable}

\* The history variable plays no part in the properties of the run that uses this.
WithoutHistory ==
  <<args, settings, issued, metadata, holdings, operator, burnt_tokens>>

\* No definition tells one hash, or one metadata value, from another.
HashSymmetry == Permutations({h1, h2}) \cup Permutations({m1, m2})
=============================================================================
