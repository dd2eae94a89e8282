SPECIFICATION Spec
CONSTANTS
  c1 = c1  k1 = k1  k2 = k2
  s1 = s1  s2 = s2  a1 = a1  a2 = a2
  Codes = {c1}
  Keys = {k1, k2}
  Requests <- TwoKeysOneCode
  Sessions = {s1, s2}
  Admins = {a1}
  NoCode = NoCode  Never = Never  Unlimited = Unlimited
  Policies <- CodeOrOpen
  DefaultPolicy <- CodeOne
  BatchUses = {1}
  GrantUses = {1}
  Dates <- AllDates
  MaxGranted = 2
  TTL = 1
  DayLength = 1
  MaxTime = 1
INVARIANTS
  LedgerRebuildsBalances
  ActiveHasUsesLeft
  NoStrandedUses
  LiveWithinLimit
  DailyBudgetHeld
PROPERTIES BalanceSpec RevocationIsFinal
SYMMETRY Swaps
CHECK_DEADLOCK FALSE
