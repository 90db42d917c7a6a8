\* One project without a token, one investor, and no trouble at all.
CONSTANTS
  ann = ann
  ben = ben
  t1 = t1
  t2 = t2
  t3 = t3
  tower = tower
  villa = villa
  Projects = {tower, villa}
  Accounts = {ann}
  Tokens = {}
  ProjectOf <- OfTwoProjects
  NoAccount = NoAccount
  Bounds <- NoTrouble

SPECIFICATION Spec
INVARIANT WhitelistIsReplicated
CHECK_DEADLOCK FALSE
