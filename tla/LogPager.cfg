SPECIFICATION FairSpec
CONSTANTS
  Provider = {0, 1}
  NumPages = 5
  Parallelism = 2
INVARIANTS NoPageLost
PROPERTIES ImplementsPageStream FetchReturns
