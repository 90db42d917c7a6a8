\* What the tokens of an investor say about the shares held.
CONSTANTS
  ada = ada
  ben = ben
  A = A
  B = B
  bank = bank
  platform = platform
  Investors = {ada, ben}
  Suspects = {}
  Classes = {A, B}
  NameOf <- OwnNames
  pBank = bank
  pPlatform = platform
  ProjectValue = 4
  Terms <- HalfProject
  NoTerms = NoTerms
  Part = 2
  MinShares = 1
  MaxShares = 2
  Liquidities = {2}
  MaxTokens = 2
  MaxPapers = 2

SPECIFICATION Spec
INVARIANTS
  TokensHoldTheShares
