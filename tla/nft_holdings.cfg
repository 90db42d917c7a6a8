\* The contract as the platform installs it, and others, whoever calls.
CONSTANTS
  inst = inst
  alice = alice
  bob = bob
  minter = minter
  h1 = h1
  h2 = h2
  m1 = m1
  m2 = m2
  Accounts = {inst, alice}
  Contracts = {minter}
  Installer = inst
  NoKey = NoKey
  Hashes = {h1, h2}
  Metadata = {m1, m2}
  NoMetadata = NoMetadata
  Installations <- AllKinds
  MaxSupply = 2
  MaxListed = 1

VIEW WithoutHistory
SPECIFICATION Spec
SYMMETRY HashSymmetry
INVARIANTS
  FatalUnreachable
  SupplyIsConserved
  BalancesCover
