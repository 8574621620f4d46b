SPECIFICATION JournalSpec
CONSTANTS
  Hosts = {h1, h2, h3}
  Nobody = Nobody
  SerialStarts = TRUE
  MistakenPids = {}
  FailingDisk = {h1, h2, h3}
  Facts <- SmallFacts
  Capacity <- SmallCapacity
  MaxJournalRecords = 2
  MaxFacts = 3
INVARIANTS
  DiskMeansDisk
  OwnJournalLoads
PROPERTIES
  JournalIsDurable
SYMMETRY HostSymmetry
CHECK_DEADLOCK FALSE
