SPECIFICATION FairSpec
CONSTANTS
  k1 = k1
  k2 = k2
  a1 = a1
  a2 = a2
  r1 = r1
  c1 = c1
  s1 = s1
  None = None
  Key <- TwoKeys
  ChainId <- SameChain
  Indexed = TRUE
  Adders <- TwoAdders
  Removers <- OneRemover
  Resetters <- OneResetter
  Stoppers <- OneStopper
INVARIANTS
  OneServicePerSlot
  ResetSeesEveryService
  StoppedIsQuiet
PROPERTIES
  CallsReturn
