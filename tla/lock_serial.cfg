SPECIFICATION LockFairSpec
CONSTANTS
  Hosts = {h1, h2, h3}
  Nobody = Nobody
  SerialStarts = TRUE
  MistakenPids = {h2}
  FailingDisk = {h3}
INVARIANTS
  SingleWriter
PROPERTIES
  SuccessorGetsTheDisk
CHECK_DEADLOCK FALSE
