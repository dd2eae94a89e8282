SPECIFICATION Spec
CONSTANTS
  Runs = {1, 2}
  HoursPerDay = 3
  RangeDays = {1, 2}
  MaxBars = 5
  MaxHour = 7
INVARIANT BarsAddUp
CHECK_DEADLOCK FALSE
