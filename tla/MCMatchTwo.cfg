CONSTANTS
  e1 = e1
  e2 = e2
  Endpoint = {e1, e2}
  NoEndpoint = NoEndpoint
  UnitId = {1, 2}
  MaxSends = 12
  BotChoice = {"none"}
  MayLeave = {}
  MaxRounds = 2
  PromptServer = TRUE
SPECIFICATION FairMatchSpec
INVARIANTS
  ClientTypeOK
  SimulationExclusive
  PlaysUnderItsId
  SameTerrain
  ResultsOfThisRound
  OwnArmyFights
PROPERTIES
  ProtocolSpec
