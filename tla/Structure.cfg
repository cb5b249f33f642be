SPECIFICATION Spec
CONSTANTS
  Titles = {t1, t2}
  NoTitle = NoTitle
  MaxPages = 3
  MaxBookmarks = 2
  MaxRefined = 2
  PageWords = {3}
  MaxChunk = 2
INVARIANTS
  TypeOK
  RangesTile
  BookmarksHeard
  ChunksKeepText
  ChunksKeepBounds
CHECK_DEADLOCK FALSE
