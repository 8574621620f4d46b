SPECIFICATION FairSpec
CONSTANTS
  p1 = p1
  p2 = p2
  Plans = {p1, p2}
  Issuers = {i1, i2}
  Executions = {x1, x2}
  Grants = {g1, g2, g3}
  MaxGrants = 2
  Envelope <- SmallEnvelope
  MaxEvents = 5
  None = None
INVARIANTS
  PromisesFit
  EachStartHasItsGrant
PROPERTIES
  NothingStaysTaken
