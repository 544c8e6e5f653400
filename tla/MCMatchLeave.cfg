CONSTANTS
  e1 = e1
  e2 = e2
  Endpoint = {e1, e2}
  NoEndpoint = NoEndpoint
  UnitId = {1}
  MaxSends = 5
  BotChoice = {"none"}
  MayLeave = {e1}
  MaxRounds = 1
  PromptServer = TRUE
SPECIFICATION FairMatchSpec
PROPERTIES
  LeaversAreForgotten
  OpenServerSpec
CHECK_DEADLOCK FALSE
