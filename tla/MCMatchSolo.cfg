CONSTANTS
  e1 = e1
  Endpoint = {e1}
  NoEndpoint = NoEndpoint
  UnitId = {1, 2, 3}
  MaxSends = 12
  BotChoice = {"zero", "one", "both"}
  MayLeave = {}
  MaxRounds = 3
  PromptServer = TRUE
SPECIFICATION FairMatchSpec
INVARIANTS
  OwnArmyFights
  BotKeepsUp
PROPERTIES
  RoundsAreAnswered
