\* Two investors, one of them with two wallets, and two agreements on two
\* tokens; one party takes the places of others.
CONSTANTS
  ann = ann
  ben = ben
  t1 = t1
  t2 = t2
  a1 = a1
  a2 = a2
  Investors = {ann, ben}
  Tokens = {t1, t2}
  Trades = {a1, a2}
  Rebinders = {ben}
  Nobody = Nobody
  MaxWallets <- Selections

SPECIFICATION FairSpec
INVARIANTS
  TypeOK
  WalletsFollowOwners
  ChainOfTitle
  OwnersDispose
PROPERTIES
  ReceiversAreWhitelisted
  TradesEnd
  ImplementsTitles
