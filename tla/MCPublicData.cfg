SPECIFICATION DataSpec
CONSTANTS
  None = None
  r1 = r1
  r2 = r2
  Resetters = {r1, r2}
  MaxWarm = 2
  MaxEpoch = 2
INVARIANTS SuffixIsServed ReplayIsTruth HeldIsQuiet
PROPERTIES UnblocksAgain
