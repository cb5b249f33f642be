SPECIFICATION FairSpec
CONSTANTS
  MaxTurns = 2
  MaxTokens = 2
INVARIANTS
  TypeOK
  ComposerFollowsStream
  TurnsEndHonestly
  TextIsTheAnswer
PROPERTIES
  AbortStaysSilent
  TurnsSettle
CHECK_DEADLOCK FALSE
