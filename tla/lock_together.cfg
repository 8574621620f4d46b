SPECIFICATION LockSpec
CONSTANTS
  Hosts = {h1, h2, h3}
  Nobody = Nobody
  SerialStarts = FALSE
  MistakenPids = {}
  FailingDisk = {}
INVARIANTS
  SingleWriter
CHECK_DEADLOCK FALSE
