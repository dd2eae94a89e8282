SPECIFICATION Spec
CONSTANTS
  r1 = r1  r2 = r2
  Requests = {r1, r2}
  Window = 2
  DayLength = 2
  Limit = 1
  TTL = 1
  Statuses = {"new", "resolved"}
  Priorities = {"normal", "high"}
  Forms <- OneForm
  MaxTime = 2
  MaxPasswords = 2
  MaxSessions = 2
INVARIANTS
  AcceptedWasLive
  OldPasswordDiesOut
  LimiterHolds
  AuditComplete
PROPERTY LiveSessionsStay
SYMMETRY RequestSwaps
CHECK_DEADLOCK FALSE
