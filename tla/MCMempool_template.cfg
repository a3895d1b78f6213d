SPECIFICATION Spec
CONSTANTS
  g = g
  b1 = b1
  b2 = b2
  b3 = b3
  c1 = c1
  c2 = c2
  pay = pay
  rival = rival
  change = change
  stake = stake
  spend = spend
  p1 = p1
  p2 = p2
  None = None
  Genesis = g
  Block <- SmallBlock
  Parent <- MCParent
  Depth <- MCDepth
  Branch <- MCBranch
  Tx <- SmallTx
  BlockTxs <- MCBlockTxs
  Ins <- MCIns
  Lead <- MCLead
  Ordinary <- SmallOrdinary
  Suspect = {}
  MaxTransactions = 2
  MaxOrphans = 1
  MaxEntries = 1
  Adder = {p1}
  Env = {"race"}
INVARIANT TemplateFromPool
CHECK_DEADLOCK FALSE
