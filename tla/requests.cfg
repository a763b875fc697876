\* Two calls of any kind share one permit; SDC may be busy, slow or silent.
CONSTANTS
  Call = {r1, r2}
  Permits = 1
  MaxRetries = 2
  None = None
SPECIFICATION FairSpec
INVARIANTS ContractKept SentOnce PermitsAccounted
PROPERTY EveryCallReturns
CHECK_DEADLOCK FALSE
