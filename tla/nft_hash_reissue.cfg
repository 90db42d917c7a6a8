\* The identity of a token on the contract that the platform installs.
CONSTANTS
  inst = inst
  alice = alice
  bob = bob
  minter = minter
  h1 = h1
  h2 = h2
  m1 = m1
  m2 = m2
  Accounts = {inst, alice}
  Contracts = {minter}
  Installer = inst
  NoKey = NoKey
  Hashes = {h1, h2}
  Metadata = {m1, m2}
  NoMetadata = NoMetadata
  Installations <- PlatformInstallation
  MaxSupply = 2
  MaxListed = 1

SPECIFICATION Spec
PROPERTIES
  ProvenanceIsFixed
