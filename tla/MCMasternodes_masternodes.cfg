SPECIFICATION Spec
CONSTANTS
  wire = wire
  None = None
  Handler = {wire}
  SigTimes = {0, 2}
  MinPing = 1
  Tolerance = 1
  Expire = 1
  Removal = 2
  MaxTime = 5
INVARIANT TypeOK
INVARIANT MarksEndWithTheirMasternode
PROPERTY SigTimeGrows
PROPERTY RemovedForCause
PROPERTY SilentLeaves
