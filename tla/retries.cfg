SPECIFICATION AnalysisSpec
CONSTANTS
  c1 = c1  k1 = k1  k2 = k2  w1 = w1  w2 = w2  j = j  a1 = a1
  Codes = {c1}
  Keys = {k1}
  Requests <- Conflict
  Workers = {w1, w2}
  Janitor = j
  Sessions <- AllSessions
  Admins = {a1}
  NoCode = NoCode  Never = Never  Unlimited = Unlimited
  Policies <- CodeOnlySet
  DefaultPolicy <- CodeOnly
  BatchUses = {2}
  GrantUses = {}
  Dates <- NoDates
  MaxGranted = 2
  TTL = 1
  DayLength = 4
  MaxTime = 1
  StuckAge = 0
  ReportAge = 0
  MetricsAge = 0
  MaxFaults = 1
INVARIANTS
  OneExecutionPerKey
  ChargedForReport
SYMMETRY WorkerSwaps
CHECK_DEADLOCK FALSE
