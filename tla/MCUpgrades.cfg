SPECIFICATION UpgradesSpec
CONSTANTS
  Unit <- Fighters
  Owner <- Owners
  OfType <- HorsemenAndWeaver
  Info <- UnitTypes
  Upgrade <- NoUpgrade
  InitialPlayerHP = 4000
  NumberOfSteps = 4
  MaxRound = 2
  MaxUpgrades = 1
INVARIANTS
  UpgradesAsDescribed
CHECK_DEADLOCK FALSE
