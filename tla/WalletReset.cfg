CONSTANTS
  MaxBlock = 2
  Start = 1
  SyncTo = 0
  SyncTargets = {2}
  MaxIntent = 2
  MaxJob = 1
  MaxEpoch = 1
  MaxFault = 1
  MaxEnd = 1
SPECIFICATION FairSpec
INVARIANTS NoStaleRows MirrorsStore ReadyIsScanned
PROPERTIES RetiredWithReplay ResetIsReplayed
