SPECIFICATION FairSpec
CONSTANTS
  c1 = c1
  c2 = c2
  r1 = r1
  NoOne = NoOne
PROPERTIES AttemptsAnswer
