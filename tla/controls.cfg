SPECIFICATION FairSpec
CONSTANTS
  Executions = {x1, x2}
  Grants = {g1, g2}
  MaxGrants = 2
  Envelope = 5
  OtherEvents = 1
  MaxEvents = 11
  None = None
INVARIANTS
  ChainsAreWhole
  NewerEventInvalidates
  CancelIsOnRecord
  NoStatusIsLost
PROPERTIES
  EveryGrantCloses
