SPECIFICATION FairSpec
CONSTANTS
  r1 = r1  r2 = r2  words = words
  Requests = {r1, r2}
  NoComment = NoComment
  None = None
  Comments = {NoComment, words}
  MaxToken = 2
  RowIds = {1, 2, 3}
INVARIANTS
  WidgetShowsRating
  CountedOnce
PROPERTIES PutReplaces WidgetSettles
CHECK_DEADLOCK FALSE
