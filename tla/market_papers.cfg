\* Papers and offers of one investor, the platform and the bank being one party;
\* two classes under one name, of a value below nothing and of one that only the
\* first makes room for.
CONSTANTS
  ada = ada
  ben = ben
  A = A
  B = B
  bank = bank
  platform = platform
  Investors = {ada}
  Suspects = {ada}
  Classes = {A, B}
  NameOf <- OneName
  pBank = bank
  pPlatform = bank
  ProjectValue = 1
  Terms <- BelowNothing
  NoTerms = NoTerms
  Part = 1
  MinShares = 1
  MaxShares = 1
  Liquidities = {0}
  MaxTokens = 0
  MaxPapers = 1

SPECIFICATION FairSpec
INVARIANTS
  WhitelistIsGrounded
  ClassesAreBacked
PROPERTIES
  ClosedToInvestors
  OffersSettle
