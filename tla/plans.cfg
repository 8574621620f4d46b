SPECIFICATION StoreSpec
CONSTANTS
  Contents = {c1, c2}
  Digests = {d1, d2}
  NoDigest = NoDigest
  MaxRevisions = 3
  MaxClock = 1
INVARIANTS
  RestoreSucceeds
  AcknowledgedSurvives
  OneOpenDraft
PROPERTIES
  ApprovedNeverRewritten
SYMMETRY PlanSymmetry
CHECK_DEADLOCK FALSE
