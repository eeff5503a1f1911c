SPECIFICATION Spec
CONSTANTS
  Retriers = {c1}
  Resets = {r1}
  MaxEvent = 2
  Page = 1
  Threshold = 2
  Soft = 1
  Hard = 1
  QueueCap = 1
  MaxFault = 1
  NoOne = NoOne
INVARIANTS ResetIsQuiet AnchorMatchesCorpus
PROPERTIES CorpusNeverShrinks
