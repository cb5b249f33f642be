SPECIFICATION Spec
CONSTANTS
  Titles = {t1}
  NoTitle = NoTitle
  MaxPages = 3
  MaxBookmarks = 1
  MaxRefined = 0
  PageWords = {1}
  MaxChunk = 2
INVARIANT DroppingLosesNothing
CHECK_DEADLOCK FALSE
