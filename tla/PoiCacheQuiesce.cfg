SPECIFICATION FairSpec
CONSTANTS
  Retriers = {c1}
  Resets = {r1}
  MaxEvent = 3
  Page = 1
  Threshold = 2
  Soft = 1
  Hard = 1
  QueueCap = 1
  MaxFault = 0
  NoOne = NoOne
PROPERTIES QuiesceAnswered
