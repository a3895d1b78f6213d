SPECIFICATION Spec
CONSTANTS
  g = g
  a1 = a1
  a2 = a2
  a3 = a3
  b2 = b2
  coin = coin
  pay = pay
  rival = rival
  change = change
  r1 = r1
  r2 = r2
  None = None
  Genesis = g
  Block <- MCBlock
  Parent <- MCParent
  Depth <- MCDepth
  Branch <- MCBranch
  Tx <- MCTx
  BlockTxs <- MCBlockTxs
  Ins <- MCIns
  Reader = {r1, r2}
  MaxBatch = 2
SYMMETRY Readers
INVARIANT TypeOK
 
INVARIANT SpendsAgree
 
