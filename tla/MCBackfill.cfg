SPECIFICATION FairSpec
CONSTANTS
  MaxBlock = 2
  BlockRange = 2
  TailLag = 0
  QueueCap = 1
  MaxJob = 2
  MaxActor = 2
  MaxReset = 1
  MaxEpoch = 1
  MaxFault = 1
  MaxOther = 1
  Keys = {1, 2}
  Starts <- MCStarts
INVARIANTS JobsAreDriven CursorBehindWallet
PROPERTIES JobsEnd
