CONSTANTS
  MaxBlock = 3
  Start = 1
  SyncTo = 0
  SyncTargets = {0, 1}
  MaxIntent = 1
  MaxJob = 2
  MaxEpoch = 0
  MaxFault = 2
  MaxEnd = 0
SPECIFICATION Spec
INVARIANTS CheckpointExact LiveAfterScan
