SPECIFICATION FairSpec
CONSTANTS
  Docs = {"d1", "d2"}
  NoDoc = "none"
  PageSize = 1
  MaxCalls = 2
INVARIANTS
  TypeOK
  FlagsFollowCalls
  ScreensShowWhatTheyName
PROPERTIES
  ScreensSettle
CHECK_DEADLOCK FALSE
