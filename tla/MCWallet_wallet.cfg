SPECIFICATION Spec
CONSTANTS
  g = g
  a1 = a1
  a2 = a2
  b2 = b2
  cb = cb
  pay = pay
  child = child
  rival = rival
  w1 = w1
  w2 = w2
  None = None
  Genesis = g
  Block <- MCBlock
  Parent <- MCParent
  Depth <- MCDepth
  Branch <- MCBranch
  Tx <- MCTx
  BlockTxs <- MCBlockTxs
  Ins <- MCIns
  Ordinary <- MCOrdinary
  Early <- MCEarly
  Late <- MCLate
  MaxPending = 2
  Caller = {w1, w2}
  Envs = {{"rollback", "expire", "import", "send"}, {"rollback", "import", "restart"}, {"rollback", "late", "send"}}
INVARIANT TypeOK
 
INVARIANT ConfirmedNotPending
INVARIANT MarksHaveOwners
INVARIANT PendingFollowsPool
SYMMETRY Callers
