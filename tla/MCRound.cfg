SPECIFICATION RoundSpec
CONSTANTS
  Unit <- Fighters
  Owner <- Owners
  OfType <- HorsemenAndWeaver
  Info <- UnitTypes
  Upgrade <- NoUpgrade
  InitialPlayerHP = 4000
  NumberOfSteps = 4
  MaxRound = 2
  MaxUpgrades = 1
INVARIANTS
  FightIsFair
  WireIsTrue
  UpgradesAgree
  SurfaceJoined
  ReadsWhole
PROPERTIES
  RoundIsFair
  RoundsEnd
  Channels
CHECK_DEADLOCK FALSE
