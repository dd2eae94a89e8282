SPECIFICATION FairSpec
CONSTANTS
  c1 = c1  c2 = c2  c3 = c3  h1 = h1  h2 = h2  h3 = h3
  Clients = {c1, c2, c3}
  Hashes = {h1, h2, h3}
  Executions = 3
  CacheTTL = 1
  MaxEntries = 2
  MaxTime = 2
INVARIANTS
  OneExecutionPerHash
  WaitsForSomeone
  CachedTokenWorks
PROPERTY WaiterIsServed
CHECK_DEADLOCK FALSE
