CONSTANTS
  Keys = {k1, k2}
  Callers = {c1, c2}
  MaxCall = 3
  MaxCommit = 1
  MaxFault = 1
SPECIFICATION FairSpec
INVARIANTS NoLostCommit NoOrphan
PROPERTIES OnlyMeantRemovals CallsReturn
