SPECIFICATION FairSpec
CONSTANTS
  None = None
  o1 = o1
  o2 = o2
  t1 = t1
  t2 = t2
  la = la
  lb = lb
  p1 = p1
  p2 = p2
INVARIANTS  OwnStatusIsTrue AcksAreReal NothingForgotten RoutesCounted
PROPERTIES  ForcedNotLost 
