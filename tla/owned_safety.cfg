SPECIFICATION Spec
CONSTANTS
  Requests = {r1, r2, r3}
  MaxConcurrent = 1
  MaxQueued = 1
  ObservedRuns = {o1, o2, o3}
  MaxObservedActive = 2
  HistoryLimit = 2
SYMMETRY CallSymmetry
INVARIANTS
  PermitFollowsCall
  AttemptTracksCall
  HistoryIsTheFinished
