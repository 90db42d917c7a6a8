\* The contract the platform installs, the one casper/README.md documents and
\* two more Ordinal ones, among callers that mint every hash once.
CONSTANTS
  inst = inst
  alice = alice
  bob = bob
  minter = minter
  h1 = h1
  h2 = h2
  m1 = m1
  m2 = m2
  Accounts = {inst, alice}
  Contracts = {minter}
  Installer = inst
  NoKey = NoKey
  Hashes = {h1, h2}
  Metadata = {m1, m2}
  NoMetadata = NoMetadata
  Installations <- UniqueInstallations
  MaxSupply = 2
  MaxListed = 1

SPECIFICATION FreshSpec
SYMMETRY HashSymmetry
INVARIANTS
  TypeOK
  BooksAgree
  ApprovedByOwner
PROPERTIES
  BurntIsFinal
  ReceiversAreListed
  ProvenanceIsFixed
  ImplementsRegister
