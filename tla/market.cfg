\* Two investors subscribe to one class, with too few shares for both.
CONSTANTS
  ada = ada
  ben = ben
  A = A
  B = B
  bank = bank
  platform = platform
  Investors = {ada, ben}
  Suspects = {}
  Classes = {A}
  NameOf <- OwnNames
  pBank = bank
  pPlatform = platform
  ProjectValue = 4
  Terms <- WholeProject
  NoTerms = NoTerms
  Part = 2
  MinShares = 1
  MaxShares = 2
  Liquidities = {2}
  MaxTokens = 2
  MaxPapers = 1

SPECIFICATION Spec
SYMMETRY Symmetry
INVARIANTS
  TypeOK
  SharesConserved
  OneAgreementPerOffer
  TokensCarryGrants
PROPERTIES
  OversubscriptionIsForetold
  ImplementsBook
