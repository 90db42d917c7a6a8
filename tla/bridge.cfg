\* Three tokens, two investors, and one kind of trouble at a time; a token that is
\* traded there and back; two projects with a token each.
CONSTANTS
  ann = ann
  ben = ben
  t1 = t1
  t2 = t2
  t3 = t3
  tower = tower
  villa = villa
  Projects = {tower, villa}
  Accounts = {ann, ben}
  Tokens = {t1, t2, t3}
  ProjectOf <- OfTwoProjects
  NoAccount = NoAccount
  Bounds <- Troubles

SPECIFICATION FairSpec
INVARIANTS
  TypeOK
  IdentifierIsOfItsToken
  OneMintPerSubscription
  TwinsAgreeOnceQuiet
  LinkedOnceQuiet
  NothingIsTakenBack
PROPERTIES
  TokensGetTheirIdentifier
CHECK_DEADLOCK FALSE
