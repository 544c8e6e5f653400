CONSTANTS
  e1 = e1
  e2 = e2
  Endpoint = {e1, e2}
  NoEndpoint = NoEndpoint
  UnitId = {1}
  MaxSends = 8
  BotChoice = {"none", "one"}
  MayLeave = {}
  MaxRounds = 1
  PromptServer = TRUE
SPECIFICATION MatchSpec
INVARIANTS
  EntersAsPlayer
