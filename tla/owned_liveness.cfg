SPECIFICATION FairSpec
CONSTANTS
  Requests = {r1, r2, r3}
  MaxConcurrent = 1
  MaxQueued = 2
  ObservedRuns = {}
  MaxObservedActive = 1
  HistoryLimit = 0
INVARIANTS
  QueueAndPermitsAgree
PROPERTIES
  NoOvertaking
  EveryCallEnds
