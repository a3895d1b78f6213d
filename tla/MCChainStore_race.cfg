SPECIFICATION FairSpec
CONSTANTS
  g = g
  a1 = a1
  a2 = a2
  a3 = a3
  b2 = b2
  b3 = b3
  c0 = c0
  c1 = c1
  cb = cb
  pay = pay
  change = change
  stake = stake
  rival = rival
  r1 = r1
  None = None
  Genesis = g
  Block <- MCBlock
  Parent <- MCParent
  Depth <- MCDepth
  Branch <- MCBranch
  Tx <- MCTx
  BlockTxs <- RivalTxs
  Ins <- MCIns
  MaxReorgDepth = 3
  Roller = {r1}
  Env = {"race"}
 
 
 
 
PROPERTY RollbackEnds
