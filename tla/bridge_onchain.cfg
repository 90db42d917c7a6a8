\* One token, and a transfer of it by its owner on the chain.
CONSTANTS
  ann = ann
  ben = ben
  t1 = t1
  t2 = t2
  t3 = t3
  tower = tower
  villa = villa
  Projects = {tower, villa}
  Accounts = {ann, ben}
  Tokens = {t1}
  ProjectOf <- OfTwoProjects
  NoAccount = NoAccount
  Bounds <- TransferOnly

SPECIFICATION FairSpec
PROPERTY OnChainTransfersAreRecorded
CHECK_DEADLOCK FALSE
