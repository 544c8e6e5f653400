CONSTANTS
  e1 = e1
  e2 = e2
  Endpoint = {e1, e2}
  NoEndpoint = NoEndpoint
  UnitId = {1, 2}
  MaxSends = 8
  BotChoice = {"none", "one"}
  MayLeave = {e1, e2}
  MaxRounds = 2
  PromptServer = TRUE
SPECIFICATION MatchSpec
INVARIANTS
  ResetIsComplete
CHECK_DEADLOCK FALSE
