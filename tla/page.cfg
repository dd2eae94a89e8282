SPECIFICATION FairSpec
CONSTANTS
  p1 = p1  p2 = p2  t1 = t1  r1 = r1  r2 = r2
  None = None
  Blank = Blank
  Photos = {p1, p2}
  Corrupt = {p2}
  Texts = {Blank, t1}
  Requests = {r1, r2}
  MaxKeys = 2
  MaxToken = 3
  MaxOperations = 3
INVARIANTS
  OneKeyPerOperation
  ReportIsOfThePhoto
  ShownTokenWorks
PROPERTIES FailureIsFinal LoadingEnds
CHECK_DEADLOCK FALSE
