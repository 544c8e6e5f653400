SPECIFICATION ClientSpec
CONSTANTS
  Nil = Nil
  NoType = NoType
  Type <- PlaceType
  BaseCost <- Costs
  UnlockCost <- Unlocks
  StartOption <- Offers
  Upgrade <- Improvements
  Field <- PlaceField
  MaxRound = 2
  MaxUnits = 3
INVARIANTS
  Accounts
  PlaybackIsTrue
  ScreenIsTrue
PROPERTIES
  NoFreeMoney
  NothingHangs
  MovesAreTrue
CHECK_DEADLOCK FALSE
