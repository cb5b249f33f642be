SPECIFICATION Spec
CONSTANTS
  Docs = {1, 2}
  Sections = {"s1", "s2"}
  Fabricated = {"x"}
  Levels = {0, 1, 2, 3}
  Floor = 1
  Thresholds = {0, 2}
  Caps = {1, 2, 3}
  MaxRanked = 2
INVARIANTS
  TypeOK
  FallbackIsHonest
  SelectionFollowsReply
  MergeIsFair
CHECK_DEADLOCK FALSE
