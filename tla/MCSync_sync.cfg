SPECIFICATION Spec
CONSTANTS
  s1 = s1
  s2 = s2
  ticker = ticker
  Slot = {s1, s2}
  Maint = ticker
  Gap = 1
  Ibd = 2
  MaxHeight = 2
  MaxFaults = 1
INVARIANT TypeOK
INVARIANT SyncingIsWork
INVARIANT OneSession
INVARIANT BusyIsBatch
PROPERTY CatchesUp
