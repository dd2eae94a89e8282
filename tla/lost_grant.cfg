SPECIFICATION Spec
CONSTANTS
  c1 = c1  k1 = k1  k2 = k2
  s1 = s1  s2 = s2  a1 = a1  a2 = a2
  Codes = {c1}
  Keys = {k1, k2}
  Requests <- TwoKeysOneCode
  Sessions = {s1}
  Admins = {a1, a2}
  NoCode = NoCode  Never = Never  Unlimited = Unlimited
  Policies <- CodeOnlySet
  DefaultPolicy <- CodeOnly
  BatchUses = {1}
  GrantUses = {1}
  Dates <- NoDates
  MaxGranted = 3
  TTL = 1
  DayLength = 4
  MaxTime = 0
INVARIANT GrantsAddUp
CHECK_DEADLOCK FALSE
