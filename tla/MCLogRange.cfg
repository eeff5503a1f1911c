SPECIFICATION FairSpec
CONSTANTS
  f1 = f1
  f2 = f2
  Fetch = {f1, f2}
  RpcOf <- SameRpc
  FromBlock = 3
  ToBlock = 5
  Chains <- Boundaries
  MaxSpan = 3
  Budgets <- Limits
INVARIANTS EveryLogOnce
PROPERTIES SpansNarrow FetchesReturn
