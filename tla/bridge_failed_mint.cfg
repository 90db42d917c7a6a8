\* One token, and a deploy that fails on the chain.
CONSTANTS
  ann = ann
  ben = ben
  t1 = t1
  t2 = t2
  t3 = t3
  tower = tower
  villa = villa
  Projects = {tower, villa}
  Accounts = {ann, ben}
  Tokens = {t1}
  ProjectOf <- OfTwoProjects
  NoAccount = NoAccount
  Bounds <- FailureOnly

SPECIFICATION FairSpec
INVARIANT LinkedTokensExist
CHECK_DEADLOCK FALSE
