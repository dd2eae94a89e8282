SPECIFICATION FairAnalysisSpec
CONSTANTS
  c1 = c1  k1 = k1  k2 = k2  w1 = w1  w2 = w2  j = j  a1 = a1
  Codes = {c1}
  Keys = {k1, k2}
  Requests <- SharedCode
  Workers = {w1}
  Janitor = j
  Sessions <- AllSessions
  Admins = {}
  NoCode = NoCode  Never = Never  Unlimited = Unlimited
  Policies <- CodeOnlySet
  DefaultPolicy <- CodeOnly
  BatchUses = {2}
  GrantUses = {}
  Dates <- NoDates
  MaxGranted = 2
  TTL = 1
  DayLength = 4
  MaxTime = 1
  StuckAge = 0
  ReportAge = 4
  MetricsAge = 8
  MaxFaults = 1
INVARIANTS
  ChargedForReport
  EarlyReturnMeansFailure
  AnswersAreSettled
  SettledTwiceIsShared
PROPERTIES PurchaseSpec EventuallySettled
CHECK_DEADLOCK FALSE
