CONSTANTS
  e1 = e1
  e2 = e2
  Endpoint = {e1, e2}
  NoEndpoint = NoEndpoint
  UnitId = {1}
  MaxSends = 4
SPECIFICATION Spec
SYMMETRY Interchangeable
INVARIANTS
  TypeOK
  AtMostTwoParticipants
  OnePlayerPerEndpoint
  NoGhostPlayer
  UniqueUnits
PROPERTIES
  OnlyTheOwnerActs
CHECK_DEADLOCK FALSE
